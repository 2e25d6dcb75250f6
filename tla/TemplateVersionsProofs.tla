----------------------- MODULE TemplateVersionsProofs -----------------------
(***************************************************************************)
(* Proofs about TemplateVersions, for any sets of versions, files, objects *)
(* and sessions.  The invariant has four parts: what a version's validation *)
(* approved is its content, and every session still trusts only what it    *)
(* read; every reference of a file is in the ledger; an object held by an  *)
(* upload is held by that upload alone and pointed to by no file; and a    *)
(* file's source is not its template.  The sessions' part is what makes it *)
(* inductive: a validation that read a version before an edit is outdated  *)
(* by it (ValidationTrue), and the two reads of a snapshot straddle only   *)
(* steps that leave an approved version as it is (FreezeTrue).  Every step *)
(* treats every version in one of the five ways of VersionStep; the lemmas *)
(* about versions, sessions and the action property rest on these alone.   *)
(* So does the refinement of TemplateRelease: a step that deletes nothing  *)
(* and leaves the active version active is not seen by the jobs.           *)
(***************************************************************************)
EXTENDS TemplateVersions, TLAPS

(* Types: the rows, and what the stage of a session says of its fields.     *)

SessionShape(x) ==
    /\ x.stage \in VersionStage \cup {"uploaded", "freezing", "frozen"} => x.ver \in Versions
    /\ x.stage \in FileStage => x.file \in Files
    /\ x.stage \in {"uploaded", "compiled", "undo"} => x.obj \in Objects
    /\ x.stage = "compiled" => x.binding \in Bindings
    /\ x.stage \in VersionStage => x.content \in ContentType

Shapes ==
    /\ TypeOK
    /\ \A s \in Sessions : SessionShape(sess[s])
    /\ \A f \in Files : FileExists(f) => file[f].ver \in Versions /\ file[f].src \in Objects

\* Session x is y, or y outdated.
Fields(x, y) ==
    /\ x.stage = y.stage /\ x.ver = y.ver /\ x.file = y.file /\ x.obj = y.obj
    /\ x.binding = y.binding /\ x.content = y.content /\ x.files = y.files /\ x.passed = y.passed
    /\ x.fresh => y.fresh

LEMMA OutdatedSessions ==
    ASSUME Shapes, NEW vs, NEW fs
    PROVE  /\ Outdated(vs, fs) \in [Sessions -> Session]
           /\ \A s \in Sessions :
                /\ Fields(Outdated(vs, fs)[s], sess[s])
                /\ SessionShape(Outdated(vs, fs)[s])
                /\ sess[s].stage \in VersionStage /\ sess[s].ver \in vs => ~Outdated(vs, fs)[s].fresh
                /\ sess[s].stage \in FileStage /\ sess[s].file \in fs => ~Outdated(vs, fs)[s].fresh
<1> DEFINE O == Outdated(vs, fs)
<1>1. ASSUME NEW s \in Sessions
      PROVE  /\ O[s] \in Session
             /\ Fields(O[s], sess[s])
             /\ sess[s].stage \in VersionStage /\ sess[s].ver \in vs => ~O[s].fresh
             /\ sess[s].stage \in FileStage /\ sess[s].file \in fs => ~O[s].fresh
  <2>1. O[s] = IF \/ sess[s].stage \in VersionStage /\ sess[s].ver \in vs
                  \/ sess[s].stage \in FileStage /\ sess[s].file \in fs
               THEN [sess[s] EXCEPT !.fresh = FALSE] ELSE sess[s]
    BY DEF Outdated
  <2>2. sess[s] \in Session
    BY DEF Shapes, TypeOK
  <2> DEFINE y == [sess[s] EXCEPT !.fresh = FALSE]
  <2>3. y \in Session /\ Fields(y, sess[s]) /\ ~y.fresh /\ Fields(sess[s], sess[s])
    BY <2>2 DEF Session, Fields
  <2> HIDE DEF O, y
  <2> QED
    BY <2>1, <2>2, <2>3 DEF y
<1>2. ASSUME NEW s \in Sessions PROVE SessionShape(O[s])
  BY <1>1, <1>2 DEF Shapes, SessionShape, Fields
<1>3. O = [s \in Sessions |-> O[s]]
  BY DEF Outdated
<1> HIDE DEF O
<1>4. O \in [Sessions -> Session]
  BY <1>1, <1>3
<1> QED
  BY <1>1, <1>2, <1>4 DEF O

LEMMA Released ==
    ASSUME TypeOK, NEW a \in SUBSET (Objects \X Files), NEW b \in SUBSET (Objects \X Files),
           Release(a, b)
    PROVE  owners' \subseteq Objects \X Files /\ ledger' \in [Objects -> Retention]
<1>1. owners' \subseteq Objects \X Files
  BY DEF Release, TypeOK
<1>2. ledger' \in [Objects -> Retention]
  BY DEF Release, TypeOK, Retention
<1> QED
  BY <1>1, <1>2

LEMMA RefsTyped ==
    ASSUME Shapes, NEW f \in Files, FileExists(f)
    PROVE  Derived(f) \subseteq Refs(f) /\ Refs(f) \subseteq Objects \X Files
BY DEF Shapes, Derived, Refs

LEMMA ContentTyped ==
    ASSUME TypeOK
    PROVE  /\ \A fs \in SUBSET Files : FilesContent(fs) \in SUBSET FileContent
           /\ \A v \in Versions : Content(v) \in ContentType
<1>1. ASSUME NEW fs \in SUBSET Files PROVE FilesContent(fs) \in SUBSET FileContent
  BY DEF TypeOK, FilesContent, FileContent, FileRow
<1>2. ASSUME NEW v \in Versions PROVE Content(v) \in ContentType
  <2>1. FilesOf(v) \in SUBSET Files /\ ver[v].manifest \in Manifests
    BY DEF FilesOf, TypeOK, VersionRow
  <2> QED
    BY <1>1, <2>1 DEF Content, ContentType
<1> QED
  BY <1>1, <1>2

LEMMA InitialShapes == Init => Shapes
<1> SUFFICES ASSUME Init PROVE Shapes
  OBVIOUS
<1>1. Idle \in Session
  BY TemplateAssumption DEF Idle, Session, Stage, Hash, FileContent
<1>2. BlankVersion("unborn") \in VersionRow /\ BlankFile("unborn") \in FileRow
  BY TemplateAssumption DEF BlankVersion, BlankFile, VersionRow, FileRow, VersionStatus, FileStatus, Hash
<1>3. TypeOK
  BY <1>1, <1>2 DEF Init, TypeOK, Retention
<1>4. \A s \in Sessions : SessionShape(sess[s])
  BY DEF Init, SessionShape, Idle, FileStage, VersionStage
<1>5. \A f \in Files : ~FileExists(f)
  BY DEF Init, FileExists, BlankFile
<1> QED
  BY <1>3, <1>4, <1>5 DEF Shapes

----------------------------------------------------------------------------
(* Types are kept.                                                         *)

LEMMA SessionPut ==
    ASSUME NEW others \in [Sessions -> Session], \A t \in Sessions : SessionShape(others[t]),
           NEW s \in Sessions, NEW x \in Session, SessionShape(x)
    PROVE  /\ [others EXCEPT ![s] = x] \in [Sessions -> Session]
           /\ \A t \in Sessions : SessionShape([others EXCEPT ![s] = x][t])
<1> DEFINE y == [others EXCEPT ![s] = x]
<1>1. y \in [Sessions -> Session] /\ y[s] = x /\ \A t \in Sessions \ {s} : y[t] = others[t]
  OBVIOUS
<1> HIDE DEF y
<1>2. \A t \in Sessions : SessionShape(y[t])
  BY <1>1
<1> QED
  BY <1>1, <1>2 DEF y

SessionsKept == sess' \in [Sessions -> Session] /\ \A s \in Sessions : SessionShape(sess'[s])

LEMMA IdleShape == Idle \in Session /\ SessionShape(Idle) /\ Idle.stage = "idle"
<1>1. Idle \in Session
  BY TemplateAssumption DEF Idle, Session, Stage, Hash, FileContent
<1> QED
  BY <1>1 DEF SessionShape, Idle, FileStage, VersionStage

\* A session begins with a new value, or ends, beside others that are outdated.
LEMMA BeginsShape ==
    ASSUME Shapes, NEW s \in Sessions, NEW x \in Session, SessionShape(x), Begins(s, x)
    PROVE  SessionsKept
BY SessionPut DEF Begins, Shapes, TypeOK, SessionsKept

LEMMA EndsShape ==
    ASSUME NEW others \in [Sessions -> Session], \A t \in Sessions : SessionShape(others[t]),
           NEW s \in Sessions, Ends(s, others)
    PROVE  SessionsKept
<1> HIDE DEF Idle
<1> QED
  BY SessionPut, IdleShape DEF Ends, SessionsKept

LEMMA UndoingShape ==
    ASSUME Shapes, NEW s \in Sessions, sess[s].stage \in {"uploaded", "compiled"}
    PROVE  Undoing(s) \in Session /\ SessionShape(Undoing(s)) /\ Undoing(s).obj = sess[s].obj
           /\ Undoing(s).stage = "undo"
<1>1. sess[s] \in Session /\ sess[s].obj \in Objects
  BY DEF Shapes, TypeOK, SessionShape
<1>2. Undoing(s) \in Session /\ Undoing(s).obj = sess[s].obj /\ Undoing(s).stage = "undo"
  BY <1>1 DEF Undoing, Session, Stage
<1> QED
  BY <1>1, <1>2 DEF SessionShape, FileStage, VersionStage

\* Rows: versions and files separately.
FilesFit(fl) == \A f \in Files :
    fl[f].status \notin {"unborn", "deleted"} => fl[f].ver \in Versions /\ fl[f].src \in Objects

LEMMA ShapesFrom ==
    ASSUME active' \in Versions \cup {NoVersion}, ver' \in [Versions -> VersionRow],
           file' \in [Files -> FileRow], FilesFit(file'),
           owners' \subseteq Objects \X Files, ledger' \in [Objects -> Retention],
           objects' \subseteq Objects, unacked' \subseteq Objects, jobs' \subseteq JobRow,
           SessionsKept
    PROVE  Shapes'
BY DEF Shapes, TypeOK, FilesFit, FileExists, SessionsKept

LEMMA ShapesNow ==
    ASSUME Shapes
    PROVE  /\ active \in Versions \cup {NoVersion} /\ ver \in [Versions -> VersionRow]
           /\ file \in [Files -> FileRow] /\ FilesFit(file)
           /\ owners \subseteq Objects \X Files /\ ledger \in [Objects -> Retention]
           /\ objects \subseteq Objects /\ unacked \subseteq Objects /\ jobs \subseteq JobRow
           /\ sess \in [Sessions -> Session] /\ \A s \in Sessions : SessionShape(sess[s])
BY DEF Shapes, TypeOK, FilesFit, FileExists

LEMMA BlankRows ==
    /\ \A st \in VersionStatus : BlankVersion(st) \in VersionRow /\ BlankVersion(st).status = st
                                 /\ BlankVersion(st).report = NoContent
    /\ \A st \in FileStatus : BlankFile(st) \in FileRow /\ BlankFile(st).status = st
BY TemplateAssumption DEF BlankVersion, BlankFile, VersionRow, FileRow, Hash

LEMMA Invalidated ==
    ASSUME Shapes, NEW v \in Versions
    PROVE  /\ Invalidate(v) \in [Versions -> VersionRow]
           /\ Invalidate(v)[v].report = NoContent /\ Invalidate(v)[v].status = ver[v].status
           /\ Invalidate(v)[v].manifest = ver[v].manifest
           /\ \A w \in Versions \ {v} : Invalidate(v)[w] = ver[w]
<1> DEFINE r == [[ver[v] EXCEPT !.sha = NoContent] EXCEPT !.report = NoContent]
<1>1. ver[v] \in VersionRow /\ ver \in [Versions -> VersionRow]
  BY DEF Shapes, TypeOK
<1>2. r \in VersionRow /\ r.report = NoContent /\ r.status = ver[v].status /\ r.manifest = ver[v].manifest
  BY <1>1 DEF VersionRow, Hash
<1>3. Invalidate(v) = [ver EXCEPT ![v] = r]
  BY <1>1 DEF Invalidate
<1> HIDE DEF r
<1> QED
  BY <1>1, <1>2, <1>3

LEMMA Retired ==
    ASSUME Shapes, NEW v \in Versions
    PROVE  /\ Retire(v) \in [Versions -> VersionRow]
           /\ Retire(v)[v].status = "retired" /\ Retire(v)[v].report = NoContent
           /\ Retire(v)[v].manifest = ver[v].manifest
           /\ \A w \in Versions \ {v} : Retire(v)[w] = ver[w]
<1> DEFINE r == [[ver[v] EXCEPT !.status = "retired"] EXCEPT !.report = NoContent]
<1>1. ver[v] \in VersionRow /\ ver \in [Versions -> VersionRow]
  BY DEF Shapes, TypeOK
<1>2. r \in VersionRow /\ r.report = NoContent /\ r.status = "retired" /\ r.manifest = ver[v].manifest
  BY <1>1 DEF VersionRow, Hash, VersionStatus
<1>3. Retire(v) = [ver EXCEPT ![v] = r]
  BY <1>1 DEF Retire
<1> HIDE DEF r
<1> QED
  BY <1>1, <1>2, <1>3

----------------------------------------------------------------------------
(* Versions and their content.                                             *)

Sound(v) == /\ FilesOf(v) # {}
            /\ \A f \in FilesOf(v) : file[f].status = "ready" /\ file[f].built = file[f].binding

Approved(v) == ver[v].report = Content(v) /\ ver[v].sha = Content(v) /\ Sound(v)

VersionsTrue ==
    /\ \A v \in Versions : ver[v].status = "active" <=> active = v
    /\ \A v \in Versions : ver[v].status = "active" => ver[v].report # NoContent
    /\ \A v \in Versions : VersionExists(v) /\ ver[v].report # NoContent => Approved(v)
    /\ \A v \in Versions : ver[v].status \in {"active", "retired"} =>
                               \A f \in FilesOf(v) : file[f].status = "ready"
    /\ \A f \in Files : FileExists(f) => VersionExists(file[f].ver)

ValidationTrue(x) ==
    /\ x.stage \in VersionStage => ver[x.ver].status # "unborn"
    /\ x.stage = "reading" /\ x.fresh => x.content.manifest = ver[x.ver].manifest
    /\ x.stage = "validated" /\ x.fresh /\ x.passed => x.content = Content(x.ver) /\ Sound(x.ver)

FreezeTrue(x) ==
    /\ x.stage = "freezing" =>
        /\ x.content # NoContent
        /\ ver[x.ver].status \in {"active", "retired", "deleted"}
        /\ ver[x.ver].status # "deleted" => x.content = Content(x.ver)
    /\ x.stage = "frozen" => x.content # NoContent /\ x.files = x.content.files

ContentInv ==
    /\ Shapes /\ VersionsTrue
    /\ \A s \in Sessions : ValidationTrue(sess[s]) /\ FreezeTrue(sess[s])
    /\ JobFilesApproved

\* A step leaves manifest and files of a version as they are, or edits them
\* where nobody relies on them.
SameContent(w) ==
    /\ ver'[w].manifest = ver[w].manifest
    /\ \A f \in Files : (FileExists(f) /\ file[f].ver = w) \/ (FileExists(f)' /\ file'[f].ver = w)
                        => file'[f] = file[f]

Edited(w) ==
    /\ ver[w].status \in {"draft", "unborn"} \/ ver'[w].status = "deleted"
    /\ ver'[w].report = NoContent /\ ver'[w].status \in {"draft", "deleted"}
    /\ ver'[w].status = "deleted" => \A f \in Files : FileExists(f)' => file'[f].ver # w
    /\ \A t \in Sessions : sess'[t].stage \in VersionStage /\ sess'[t].ver = w => ~sess'[t].fresh

VersionStep(w) ==
    \/ SameContent(w) /\ ver'[w] = ver[w]
    \/ Edited(w)
    \/ /\ SameContent(w) /\ ver[w].status = "active"
       /\ ver'[w].status = "retired" /\ ver'[w].report = NoContent
    \/ /\ SameContent(w) /\ ver[w].status \in {"ready", "retired"} /\ ver[w].report # NoContent
       /\ \A f \in FilesOf(w) : file[f].status = "ready"
       /\ ver'[w].status = "active" /\ ver'[w].report = ver[w].report /\ ver'[w].sha = ver[w].sha
    \/ /\ SameContent(w) /\ ver[w].status \in {"draft", "ready", "retired"}
       /\ ver'[w].status \in {"draft", "ready", "retired"}
       /\ ver'[w].status = "retired" => ver[w].status = "retired"
       /\ ver[w].status = "retired" => ver'[w].status = "retired"
       /\ \/ ver'[w].report = NoContent
          \/ ver'[w].report = Content(w) /\ ver'[w].sha = Content(w) /\ Sound(w)

LEMMA SameContentMeans ==
    ASSUME NEW w \in Versions, SameContent(w)
    PROVE  /\ FilesOf(w)' = FilesOf(w) /\ \A f \in FilesOf(w) : file'[f] = file[f]
           /\ Content(w)' = Content(w) /\ (Sound(w)' <=> Sound(w))
<1>1. FilesOf(w)' = FilesOf(w) /\ \A f \in FilesOf(w) : file'[f] = file[f]
  BY DEF SameContent, FilesOf, FileExists
<1>2. FilesContent(FilesOf(w))' = FilesContent(FilesOf(w))
  BY <1>1 DEF FilesContent
<1>3. Content(w)' = Content(w)
  BY <1>2 DEF Content, SameContent
<1>4. Sound(w)' <=> Sound(w)
  BY <1>1 DEF Sound
<1> QED
  BY <1>1, <1>3, <1>4

LEMMA VersionsKept ==
    ASSUME ContentInv, Shapes', \A w \in Versions : VersionStep(w),
           \A v \in Versions : ver'[v].status = "active" <=> active' = v
    PROVE  VersionsTrue'
<1>1. ASSUME NEW w \in Versions
      PROVE  /\ ver'[w].status = "active" => ver'[w].report # NoContent
             /\ VersionExists(w)' /\ ver'[w].report # NoContent => Approved(w)'
             /\ ver'[w].status \in {"active", "retired"} =>
                               \A f \in FilesOf(w)' : file'[f].status = "ready"
  <2> USE DEF ContentInv, VersionsTrue
  <2>1. CASE SameContent(w) /\ ver'[w] = ver[w]
    BY <2>1, SameContentMeans DEF VersionExists, Approved
  <2>2. CASE Edited(w)
    BY <2>2 DEF Edited
  <2>3. CASE /\ SameContent(w) /\ ver[w].status = "active"
             /\ ver'[w].status = "retired" /\ ver'[w].report = NoContent
    BY <2>3, SameContentMeans
  <2>4. CASE /\ SameContent(w) /\ ver[w].status \in {"ready", "retired"} /\ ver[w].report # NoContent
             /\ \A f \in FilesOf(w) : file[f].status = "ready"
             /\ ver'[w].status = "active" /\ ver'[w].report = ver[w].report /\ ver'[w].sha = ver[w].sha
    BY <2>4, SameContentMeans DEF VersionExists, Approved
  <2>5. CASE /\ SameContent(w) /\ ver[w].status \in {"draft", "ready", "retired"}
             /\ ver'[w].status \in {"draft", "ready", "retired"}
             /\ ver'[w].status = "retired" => ver[w].status = "retired"
             /\ ver[w].status = "retired" => ver'[w].status = "retired"
             /\ \/ ver'[w].report = NoContent
                \/ ver'[w].report = Content(w) /\ ver'[w].sha = Content(w) /\ Sound(w)
    <3>1. /\ Content(w)' = Content(w) /\ (Sound(w)' <=> Sound(w)) /\ ver'[w].status # "active"
          /\ FilesOf(w)' = FilesOf(w) /\ \A f \in FilesOf(w) : file'[f] = file[f]
      BY <2>5, SameContentMeans
    <3>2. ver'[w].report # NoContent => Approved(w)'
      BY <2>5, <3>1 DEF Approved
    <3>3. ver'[w].status \in {"active", "retired"} => \A f \in FilesOf(w)' : file'[f].status = "ready"
      BY <2>5, <3>1
    <3> QED
      BY <3>1, <3>2, <3>3
  <2> QED
    BY <2>1, <2>2, <2>3, <2>4, <2>5 DEF VersionStep
<1>2. ASSUME NEW f \in Files, FileExists(f)' PROVE VersionExists(file[f].ver)'
  <2>1. PICK w \in Versions : w = file'[f].ver
    BY <1>2 DEF Shapes, FileExists
  <2>2. VersionStep(w)
    OBVIOUS
  <2>3. CASE Edited(w)
    BY <1>2, <2>1, <2>3 DEF Edited, VersionExists
  <2>4. CASE ~Edited(w)
    <3>1. SameContent(w) /\ (ver'[w] = ver[w] \/ ver'[w].status \in {"retired", "active", "draft", "ready"})
      BY <2>2, <2>4 DEF VersionStep
    <3>2. FileExists(f) /\ file[f].ver = w
      BY <1>2, <2>1, <3>1 DEF SameContent, FileExists
    <3>3. VersionExists(w)
      BY <3>2 DEF ContentInv, VersionsTrue
    <3> QED
      BY <2>1, <3>1, <3>3 DEF VersionExists
  <2> QED
    BY <2>3, <2>4
<1> QED
  BY <1>1, <1>2 DEF VersionsTrue

\* A session that does not move, or is outdated, stays true to its version.
LEMMA SessionRests ==
    ASSUME ContentInv, Shapes', \A w \in Versions : VersionStep(w),
           NEW t \in Sessions, Fields(sess'[t], sess[t])
    PROVE  ValidationTrue(sess[t])' /\ FreezeTrue(sess[t])'
<1>0. /\ sess'[t].ver = sess[t].ver /\ sess'[t].stage = sess[t].stage
      /\ sess'[t].content = sess[t].content /\ sess'[t].files = sess[t].files
      /\ sess'[t].passed = sess[t].passed
      /\ sess'[t].fresh => sess[t].fresh
      /\ ValidationTrue(sess[t]) /\ FreezeTrue(sess[t])
  BY DEF Fields, ContentInv
<1>1. CASE sess[t].stage \in VersionStage
  <2>1. PICK w \in Versions : w = sess[t].ver
    BY <1>1 DEF ContentInv, Shapes, SessionShape
  <2>2. VersionStep(w) /\ sess[t].stage \in {"reading", "validated"}
    BY <1>1 DEF VersionStage
  <2>3. ver'[w].status # "unborn"
    BY <1>0, <1>1, <2>1, <2>2 DEF VersionStep, Edited, ValidationTrue
  <2>4. sess'[t].fresh => SameContent(w)
    BY <1>0, <1>1, <2>1, <2>2 DEF VersionStep, Edited
  <2>5. sess'[t].fresh => Content(w)' = Content(w) /\ (Sound(w)' <=> Sound(w)) /\ ver'[w].manifest = ver[w].manifest
    BY <2>4, SameContentMeans DEF SameContent
  <2>6. ValidationTrue(sess[t])'
    <3>1. sess'[t].passed => sess[t].passed
      BY <1>0, Zenon
    <3>2. sess[t].stage = "reading" /\ sess'[t].fresh => sess'[t].content.manifest = ver'[w].manifest
      BY <1>0, <2>1, <2>5 DEF ValidationTrue
    <3>3. sess[t].stage = "validated" /\ sess'[t].fresh /\ sess'[t].passed =>
            sess'[t].content = Content(w)' /\ Sound(w)'
      <4>1. SUFFICES ASSUME sess[t].stage = "validated", sess'[t].fresh, sess'[t].passed
                     PROVE  sess'[t].content = Content(w)' /\ Sound(w)'
        OBVIOUS
      <4>2. sess[t].content = Content(w) /\ Sound(w)
        BY <1>0, <2>1, <3>1, <4>1, Zenon DEF ValidationTrue
      <4> QED
        BY <1>0, <2>5, <4>1, <4>2
    <3> QED
      BY <1>0, <1>1, <2>1, <2>3, <3>2, <3>3, Zenon DEF ValidationTrue
  <2> QED
    BY <1>0, <2>2, <2>6 DEF FreezeTrue
<1>2. CASE sess[t].stage = "freezing"
  <2>1. PICK w \in Versions : w = sess[t].ver
    BY <1>2 DEF ContentInv, Shapes, SessionShape
  <2>2. VersionStep(w)
    OBVIOUS
  <2>3. \/ SameContent(w) /\ ver'[w].status \in {"active", "retired", "deleted"}
           /\ (ver'[w].status # "deleted" => ver[w].status # "deleted")
        \/ ver'[w].status = "deleted"
    BY <1>0, <1>2, <2>1, <2>2 DEF VersionStep, Edited, FreezeTrue
  <2>4. ver'[w].status # "deleted" => sess[t].content = Content(w)'
    BY <1>0, <1>2, <2>1, <2>3, SameContentMeans DEF FreezeTrue
  <2>5. FreezeTrue(sess[t])'
    BY <1>0, <1>2, <2>1, <2>3, <2>4 DEF FreezeTrue
  <2> QED
    BY <1>0, <1>2, <2>5 DEF ValidationTrue, VersionStage
<1>3. CASE sess[t].stage \notin VersionStage \cup {"freezing"}
  BY <1>0, <1>3 DEF ValidationTrue, FreezeTrue, VersionStage
<1> QED
  BY <1>1, <1>2, <1>3

\* Steps that write no row of a version or a file.
LEMMA RowsRest ==
    ASSUME UNCHANGED <<ver, file>>
    PROVE  \A w \in Versions : VersionStep(w)
BY DEF VersionStep, SameContent

\* A file of a draft is edited, added or deleted.
LEMMA DraftEdited ==
    ASSUME Shapes, NEW v \in Versions, NEW f \in Files, NEW row \in FileRow,
           ver[v].status = "draft", ver' = Invalidate(v), file' = [file EXCEPT ![f] = row],
           FileExists(f) => file[f].ver = v,
           row.status \notin {"unborn", "deleted"} => row.ver = v,
           \A t \in Sessions : sess'[t].stage \in VersionStage /\ sess'[t].ver = v => ~sess'[t].fresh
    PROVE  \A w \in Versions : VersionStep(w)
<1>1. /\ file'[f] = row /\ \A g \in Files \ {f} : file'[g] = file[g]
  BY DEF Shapes, TypeOK
<1>2. Edited(v)
  BY Invalidated DEF Edited
<1>3. ASSUME NEW w \in Versions \ {v} PROVE SameContent(w) /\ ver'[w] = ver[w]
  <2>1. ver'[w] = ver[w]
    BY Invalidated
  <2>2. \A g \in Files : (FileExists(g) /\ file[g].ver = w) \/ (FileExists(g)' /\ file'[g].ver = w)
                        => file'[g] = file[g]
    BY <1>1 DEF FileExists
  <2> QED
    BY <2>1, <2>2 DEF SameContent
<1> QED
  BY <1>2, <1>3 DEF VersionStep

----------------------------------------------------------------------------
(* The storage ledger and the objects.                                     *)

LedgerTrue ==
    /\ \A o \in Objects, f \in Files : <<o, f>> \in owners => ledger[o] = "active"
    /\ \A f \in Files : FileExists(f) => Refs(f) \subseteq owners

LEMMA LedgerRests ==
    ASSUME LedgerTrue, UNCHANGED <<file, owners, ledger>>
    PROVE  LedgerTrue'
BY DEF LedgerTrue, FileExists, Refs, Derived

LEMMA LedgerKept ==
    ASSUME Shapes, Shapes', LedgerTrue,
           NEW a \in SUBSET (Objects \X Files), NEW b \in SUBSET (Objects \X Files), Release(a, b),
           \A f \in Files : FileExists(f)' => Refs(f)' \subseteq (owners \ a) \cup b
    PROVE  LedgerTrue'
<1>1. \A o \in Objects, f \in Files : <<o, f>> \in owners' => ledger'[o] = "active"
  BY DEF Release, LedgerTrue
<1>2. \A f \in Files : FileExists(f)' => Refs(f)' \subseteq owners'
  BY DEF Release
<1> QED
  BY <1>1, <1>2 DEF LedgerTrue

\* The references of the files that stay as they are outlive a release of others.
LEMMA RefsKept ==
    ASSUME Shapes, LedgerTrue, NEW f \in Files, FileExists(f)', file'[f] = file[f]
    PROVE  Refs(f)' \subseteq owners /\ Refs(f)' = Refs(f) /\ FileExists(f)
           /\ \A p \in Refs(f) : p[2] = f
BY DEF LedgerTrue, FileExists, Refs, Derived

LEMMA EditReleases ==
    ASSUME Shapes, Shapes', LedgerTrue, NEW f \in Files,
           \A g \in Files \ {f} : file'[g] = file[g],
           NEW a \in SUBSET (Objects \X {f}), NEW b \in SUBSET (Objects \X {f}), Release(a, b),
           FileExists(f)' => Refs(f)' \subseteq (owners \ a) \cup b
    PROVE  LedgerTrue'
<1>1. ASSUME NEW g \in Files \ {f}, FileExists(g)' PROVE Refs(g)' \subseteq owners \ a
  BY <1>1, RefsKept
<1>2. a \in SUBSET (Objects \X Files) /\ b \in SUBSET (Objects \X Files)
  OBVIOUS
<1>3. \A g \in Files : FileExists(g)' => Refs(g)' \subseteq (owners \ a) \cup b
  BY <1>1
<1> QED
  BY <1>2, <1>3, LedgerKept

\* What the rows of a file point to.
Points(f) == {file[f].src, file[f].comp} \ {NoObject}

Holds(x) == x.stage \in {"uploaded", "compiled", "undo"}

ObjectsTrue ==
    /\ \A f \in Files : FileExists(f) => Points(f) \subseteq objects \cup unacked
    /\ \A s \in Sessions : Holds(sess[s]) =>
        /\ sess[s].obj \in objects
        /\ \A t \in Sessions \ {s} : Holds(sess[t]) => sess[t].obj # sess[s].obj
        /\ \/ \A f \in Files : FileExists(f) => sess[s].obj \notin Points(f)
           \/ sess[s].stage = "undo" /\ sess[s].obj \in unacked

\* A fresh object is one no file points to.
LEMMA UnusedUnpointed ==
    ASSUME Shapes, LedgerTrue, NEW o \in Objects, Unused(o)
    PROVE  \A f \in Files : FileExists(f) => o \notin Points(f)
<1>1. ASSUME NEW f \in Files, FileExists(f), o \in Points(f) PROVE FALSE
  <2>1. <<o, f>> \in Refs(f)
    BY <1>1 DEF Points, Refs, Derived
  <2>2. ledger[o] = "active"
    BY <1>1, <2>1 DEF LedgerTrue
  <2> QED
    BY <2>2 DEF Unused
<1> QED
  BY <1>1

\* Steps after which sessions hold no object they did not hold, and files point
\* to nothing they did not point to.
LEMMA ObjectsRest ==
    ASSUME Shapes, ObjectsTrue, UNCHANGED <<objects, unacked>>,
           \A s \in Sessions : Holds(sess'[s]) =>
               Holds(sess[s]) /\ sess'[s].obj = sess[s].obj
               /\ (sess'[s].stage = "undo" \/ sess'[s].stage = sess[s].stage),
           \A f \in Files : FileExists(f)' => \E g \in Files : FileExists(g) /\ Points(f)' \subseteq Points(g)
    PROVE  ObjectsTrue'
<1>1. \A f \in Files : FileExists(f)' => Points(f)' \subseteq objects' \cup unacked'
  BY DEF ObjectsTrue
<1>2. ASSUME NEW s \in Sessions, Holds(sess'[s])
      PROVE  /\ sess'[s].obj \in objects'
             /\ \A t \in Sessions \ {s} : Holds(sess'[t]) => sess'[t].obj # sess'[s].obj
             /\ \/ \A f \in Files : FileExists(f)' => sess'[s].obj \notin Points(f)'
                \/ sess'[s].stage = "undo" /\ sess'[s].obj \in unacked'
  <2>1. /\ Holds(sess[s]) /\ sess'[s].obj = sess[s].obj
        /\ sess'[s].stage = "undo" \/ sess'[s].stage = sess[s].stage
    BY <1>2
  <2>2. sess'[s].obj \in objects' /\ \A t \in Sessions \ {s} : Holds(sess'[t]) => sess'[t].obj # sess'[s].obj
    BY <2>1 DEF ObjectsTrue
  <2>3. \/ \A f \in Files : FileExists(f) => sess[s].obj \notin Points(f)
        \/ sess'[s].stage = "undo" /\ sess[s].obj \in unacked'
    BY <2>1 DEF ObjectsTrue
  <2>4. (\A f \in Files : FileExists(f) => sess[s].obj \notin Points(f)) =>
        \A f \in Files : FileExists(f)' => sess'[s].obj \notin Points(f)'
    BY <2>1
  <2> QED
    BY <2>1, <2>2, <2>3, <2>4
<1>3. \A s \in Sessions : Holds(sess[s])' => Holds(sess'[s])
  BY DEF Holds
<1> QED
  BY <1>1, <1>2, <1>3 DEF ObjectsTrue

\* Source and compiled template of a file are different objects.
SourcesApart == \A f \in Files : FileExists(f) => file[f].src # file[f].comp

TemplateInv == ContentInv /\ LedgerTrue /\ ObjectsTrue /\ SourcesApart

----------------------------------------------------------------------------
(* Steps of sessions that write no row.                                    *)

StepTrue == TemplateInv' /\ \A w \in Versions : VersionStep(w)

LEMMA InvFrom ==
    ASSUME TemplateInv, Shapes', \A w \in Versions : VersionStep(w),
           \A v \in Versions : ver'[v].status = "active" <=> active' = v,
           \A t \in Sessions : \/ Fields(sess'[t], sess[t])
                               \/ ValidationTrue(sess[t])' /\ FreezeTrue(sess[t])',
           JobFilesApproved', LedgerTrue', ObjectsTrue', SourcesApart'
    PROVE  StepTrue
<1>1. VersionsTrue'
  BY VersionsKept DEF TemplateInv
<1>2. \A t \in Sessions : ValidationTrue(sess[t])' /\ FreezeTrue(sess[t])'
  BY SessionRests DEF TemplateInv
<1> QED
  BY <1>1, <1>2 DEF StepTrue, TemplateInv, ContentInv

LEMMA FieldsSame == ASSUME NEW x PROVE Fields(x, x)
BY DEF Fields

\* Session s takes the value x, and no row changes.
LEMMA SessionMoves ==
    ASSUME TemplateInv, NEW s \in Sessions, NEW x \in Session, SessionShape(x),
           sess' = [sess EXCEPT ![s] = x], UNCHANGED <<tables, storage>>,
           ValidationTrue(x), FreezeTrue(x),
           jobs' \subseteq JobRow, JobFilesApproved',
           objects' \subseteq Objects, unacked' = unacked, ObjectsTrue'
    PROVE  StepTrue
<1>1. SessionsKept
  BY SessionPut, ShapesNow DEF TemplateInv, ContentInv, SessionsKept
<1>2. Shapes'
  BY <1>1, ShapesNow DEF TemplateInv, ContentInv, Shapes, TypeOK, SessionsKept, tables, storage, FileExists
<1>3. sess'[s] = x /\ \A t \in Sessions \ {s} : sess'[t] = sess[t]
  BY ShapesNow DEF TemplateInv, ContentInv
<1>4. ValidationTrue(sess[s])' /\ FreezeTrue(sess[s])'
  <2>1. /\ \A w : Content(w)' = Content(w) /\ (Sound(w)' <=> Sound(w))
        /\ ver' = ver
    BY DEF tables, Content, Sound, FilesOf, FileExists, FilesContent
  <2>2. ValidationTrue(sess[s])'
    BY <1>3, <2>1 DEF ValidationTrue
  <2>3. FreezeTrue(sess[s])'
    BY <1>3, <2>1 DEF FreezeTrue
  <2> QED
    BY <2>2, <2>3
<1>5. \A t \in Sessions : \/ Fields(sess'[t], sess[t])
                          \/ ValidationTrue(sess[t])' /\ FreezeTrue(sess[t])'
  BY <1>3, <1>4, FieldsSame
<1>6. \A w \in Versions : VersionStep(w)
  BY RowsRest DEF tables
<1>7. LedgerTrue'
  BY LedgerRests DEF TemplateInv, tables, storage
<1>8. \A v \in Versions : ver'[v].status = "active" <=> active' = v
  BY DEF TemplateInv, ContentInv, VersionsTrue, tables
<1>9. SourcesApart'
  BY DEF TemplateInv, SourcesApart, tables, FileExists
<1> QED
  BY <1>2, <1>5, <1>6, <1>7, <1>8, <1>9, InvFrom

\* The same, if s holds no object it did not hold.
LEMMA SessionGoesOn ==
    ASSUME TemplateInv, NEW s \in Sessions, NEW x \in Session, SessionShape(x),
           sess' = [sess EXCEPT ![s] = x], UNCHANGED <<tables, storage, objects, unacked>>,
           ValidationTrue(x), FreezeTrue(x), jobs' \subseteq JobRow, JobFilesApproved',
           Holds(x) => x.obj = sess[s].obj /\ Holds(sess[s]) /\ x.stage \in {"undo", sess[s].stage}
    PROVE  StepTrue
<1>1. sess'[s] = x /\ \A t \in Sessions \ {s} : sess'[t] = sess[t]
  BY ShapesNow DEF TemplateInv, ContentInv
<1>2. \A f \in Files : Points(f)' = Points(f) /\ (FileExists(f)' <=> FileExists(f))
  BY DEF tables, Points, FileExists
<1>3. ObjectsTrue'
  BY <1>1, <1>2, ObjectsRest DEF TemplateInv, ContentInv
<1>4. objects' \subseteq Objects
  BY ShapesNow DEF TemplateInv, ContentInv
<1> QED
  BY <1>3, <1>4, SessionMoves

LEMMA IdleTrue == ValidationTrue(Idle) /\ FreezeTrue(Idle) /\ ~Holds(Idle)
BY DEF Idle, ValidationTrue, FreezeTrue, Holds, VersionStage

LEMMA JobsRest ==
    ASSUME TemplateInv, jobs' = jobs
    PROVE  jobs' \subseteq JobRow /\ JobFilesApproved'
BY DEF TemplateInv, ContentInv, Shapes, TypeOK, JobFilesApproved

\* A session that ends without writing.
LEMMA SessionEnds ==
    ASSUME TemplateInv, NEW s \in Sessions, Ends(s, sess),
           UNCHANGED <<tables, storage, objects, jobs, unacked>>
    PROVE  StepTrue
BY SessionGoesOn, IdleShape, IdleTrue, JobsRest DEF Ends

LEMMA SessionBeginsRead ==
    ASSUME TemplateInv, NEW s \in Sessions,
           \/ \E f \in Files : BeginInspection(s, f)
           \/ \E v \in Versions : ReadVersion(s, v) \/ FreezeVersion(s, v)
    PROVE  StepTrue
<1>0. Idle \in Session /\ UNCHANGED <<tables, storage, objects, jobs, unacked>>
  BY IdleShape DEF BeginInspection, ReadVersion, FreezeVersion
<1>1. ASSUME NEW f \in Files, BeginInspection(s, f) PROVE StepTrue
  <2> DEFINE x == [Idle EXCEPT !.stage = "inspected", !.file = f]
  <2>1. x \in Session /\ SessionShape(x) /\ ValidationTrue(x) /\ FreezeTrue(x) /\ ~Holds(x)
    BY <1>0 DEF Session, Idle, Stage, FileStage, VersionStage, SessionShape, ValidationTrue, FreezeTrue, Holds
  <2>2. sess' = [sess EXCEPT ![s] = x]
    BY <1>1 DEF BeginInspection, Begins
  <2> HIDE DEF x
  <2> QED
    BY <1>0, <2>1, <2>2, SessionGoesOn, JobsRest
<1>2. ASSUME NEW v \in Versions, ReadVersion(s, v) PROVE StepTrue
  <2> DEFINE c == [manifest |-> ver[v].manifest, files |-> {}]
  <2>1. c \in ContentType /\ c.manifest = ver[v].manifest
    BY ShapesNow DEF TemplateInv, ContentInv, ContentType, VersionRow
  <2> HIDE DEF c
  <2> DEFINE x == [Idle EXCEPT !.stage = "reading", !.ver = v, !.content = c]
  <2>2. x \in Session /\ x.stage = "reading" /\ x.ver = v /\ x.content = c
    BY <1>0, <2>1 DEF Session, Idle, Stage, VersionStage, Hash
  <2>3. sess' = [sess EXCEPT ![s] = x] /\ ver[v].status # "unborn"
    BY <1>2 DEF ReadVersion, Begins, VersionExists, c
  <2> HIDE DEF x
  <2>4. SessionShape(x) /\ ValidationTrue(x) /\ FreezeTrue(x) /\ ~Holds(x)
    BY <2>1, <2>2, <2>3 DEF VersionStage, FileStage, SessionShape, ValidationTrue, FreezeTrue, Holds
  <2> QED
    BY <1>0, <2>2, <2>3, <2>4, SessionGoesOn, JobsRest
<1>3. ASSUME NEW v \in Versions, FreezeVersion(s, v) PROVE StepTrue
  <2> DEFINE x == [Idle EXCEPT !.stage = "freezing", !.ver = v, !.content = ver[v].sha]
  <2>1. ver[v].sha \in Hash
    BY ShapesNow DEF TemplateInv, ContentInv, VersionRow
  <2>2. ver[v].status = "active" /\ ver[v].sha = Content(v) /\ ver[v].sha # NoContent
    BY <1>3 DEF FreezeVersion, TemplateInv, ContentInv, VersionsTrue, VersionExists, Approved
  <2>3. x \in Session /\ x.stage = "freezing" /\ x.ver = v /\ x.content = ver[v].sha
    BY <1>0, <2>1 DEF Session, Idle, Stage
  <2>4. sess' = [sess EXCEPT ![s] = x]
    BY <1>3 DEF FreezeVersion, Begins
  <2> HIDE DEF x
  <2>5. SessionShape(x) /\ ValidationTrue(x) /\ FreezeTrue(x) /\ ~Holds(x)
    BY <2>2, <2>3 DEF VersionStage, FileStage, SessionShape, ValidationTrue, FreezeTrue, Holds
  <2> QED
    BY <1>0, <2>3, <2>4, <2>5, SessionGoesOn, JobsRest
<1> QED
  BY <1>1, <1>2, <1>3

----------------------------------------------------------------------------
LEMMA FilesRead ==
    ASSUME TemplateInv, NEW s \in Sessions, ReadFiles(s)
    PROVE  StepTrue
<1>0. /\ sess \in [Sessions -> Session] /\ sess[s] \in Session /\ SessionShape(sess[s])
      /\ ValidationTrue(sess[s]) /\ sess[s].stage = "reading"
  BY ShapesNow DEF TemplateInv, ContentInv, ReadFiles
<1>1. PICK v \in Versions : v = sess[s].ver
  BY <1>0 DEF SessionShape, VersionStage
<1>2. PICK fc \in SUBSET FileContent : fc = FilesContent(FilesOf(v))
  <2>1. FilesOf(v) \in SUBSET Files
    BY DEF FilesOf
  <2> QED
    BY <2>1, ContentTyped DEF TemplateInv, ContentInv, Shapes
<1>3. PICK p \in {GatesPass(v), FALSE} :
         sess' = [sess EXCEPT ![s].stage = "validated", ![s].passed = p, ![s].content.files = fc]
  BY <1>1, <1>2 DEF ReadFiles
<1>4. p \in BOOLEAN /\ (p => GatesPass(v))
  BY <1>3 DEF GatesPass
<1>5. sess[s].content \in ContentType /\ ver[v].status # "unborn"
      /\ (sess[s].fresh => sess[s].content.manifest = ver[v].manifest)
  BY <1>0, <1>1 DEF SessionShape, ValidationTrue, VersionStage
<1> DEFINE c == [sess[s].content EXCEPT !.files = fc]
<1>6. c \in ContentType /\ c = [manifest |-> sess[s].content.manifest, files |-> fc]
  BY <1>5 DEF ContentType
<1> DEFINE x == [[[sess[s] EXCEPT !.stage = "validated"] EXCEPT !.passed = p] EXCEPT !.content = c]
<1>7. sess' = [sess EXCEPT ![s] = x]
  BY <1>0, <1>3 DEF Session
<1> HIDE DEF c
<1>8. x \in Session /\ x.stage = "validated" /\ x.content = c /\ x.ver = v
  BY <1>0, <1>1, <1>4, <1>6 DEF Session, Stage, VersionStage, Hash
<1>9. (x.fresh => sess[s].fresh) /\ (x.passed => p)
  BY <1>0 DEF Session
<1> HIDE DEF x
<1>10. x.fresh /\ x.passed => x.content = Content(v) /\ Sound(v)
  <2>1. SUFFICES ASSUME x.fresh, x.passed PROVE x.content = Content(v) /\ Sound(v)
    OBVIOUS
  <2>2. sess[s].fresh /\ GatesPass(v)
    BY <1>4, <1>9, <2>1, Zenon
  <2>3. c = Content(v)
    BY <1>2, <1>5, <1>6, <2>2 DEF Content
  <2>4. Sound(v)
    BY <2>2 DEF GatesPass, Sound
  <2> QED
    BY <1>8, <2>3, <2>4
<1>11. ValidationTrue(x)
  <2>1. x.stage # "reading" /\ ver[x.ver].status # "unborn"
    BY <1>5, <1>8
  <2>2. x.stage = "validated" /\ x.fresh /\ x.passed => x.content = Content(x.ver) /\ Sound(x.ver)
    BY <1>8, <1>10, Zenon
  <2> QED
    BY <2>1, <2>2 DEF ValidationTrue
<1>12. SessionShape(x) /\ FreezeTrue(x) /\ ~Holds(x)
  BY <1>6, <1>8 DEF SessionShape, FreezeTrue, Holds, VersionStage, FileStage
<1>13. UNCHANGED <<tables, storage, objects, jobs, unacked>>
  BY DEF ReadFiles
<1> QED
  BY <1>7, <1>8, <1>11, <1>12, <1>13, SessionGoesOn, JobsRest

LEMMA FilesFrozen ==
    ASSUME TemplateInv, NEW s \in Sessions, FreezeFiles(s)
    PROVE  StepTrue
<1>0. /\ sess \in [Sessions -> Session] /\ sess[s] \in Session /\ SessionShape(sess[s])
      /\ FreezeTrue(sess[s]) /\ sess[s].stage = "freezing"
      /\ UNCHANGED <<tables, storage, objects, jobs, unacked>>
  BY ShapesNow DEF TemplateInv, ContentInv, FreezeFiles
<1>1. PICK v \in Versions : v = sess[s].ver
  BY <1>0 DEF SessionShape
<1> DEFINE fs == {f \in FilesOf(v) : file[f].status = "ready"}
<1>2. CASE ~SomeFiles(fs)
  BY <1>0, <1>1, <1>2, SessionEnds DEF FreezeFiles
<1>3. CASE SomeFiles(fs)
  <2>1. ver[v].status # "deleted"
    BY <1>3 DEF SomeFiles, FilesOf, TemplateInv, ContentInv, VersionsTrue, VersionExists
  <2>2. /\ ver[v].status \in {"active", "retired"}
        /\ sess[s].content = Content(v) /\ sess[s].content # NoContent
    BY <1>0, <1>1, <2>1 DEF FreezeTrue
  <2>3. fs = FilesOf(v)
    BY <2>2 DEF TemplateInv, ContentInv, VersionsTrue
  <2>4. PICK fc \in SUBSET FileContent : fc = FilesContent(FilesOf(v))
    <3>1. FilesOf(v) \in SUBSET Files
      BY DEF FilesOf
    <3> QED
      BY <3>1, ContentTyped DEF TemplateInv, ContentInv, Shapes
  <2>5. fc = sess[s].content.files
    BY <2>2, <2>4 DEF Content
  <2>6. sess' = [sess EXCEPT ![s].stage = "frozen", ![s].files = fc]
    BY <1>1, <1>3, <2>3, <2>4 DEF FreezeFiles
  <2> DEFINE x == [[sess[s] EXCEPT !.stage = "frozen"] EXCEPT !.files = fc]
  <2>7. sess' = [sess EXCEPT ![s] = x]
    BY <1>0, <2>6 DEF Session
  <2>8. x \in Session /\ x.stage = "frozen" /\ x.files = fc /\ x.content = sess[s].content /\ x.ver = v
    BY <1>0, <1>1 DEF Session, Stage
  <2> HIDE DEF x
  <2>9. SessionShape(x) /\ ValidationTrue(x) /\ FreezeTrue(x) /\ ~Holds(x)
    BY <2>2, <2>5, <2>8 DEF SessionShape, ValidationTrue, FreezeTrue, Holds, VersionStage, FileStage
  <2> QED
    BY <1>0, <2>7, <2>8, <2>9, SessionGoesOn, JobsRest
<1> QED
  BY <1>2, <1>3

LEMMA JobInserted ==
    ASSUME TemplateInv, NEW s \in Sessions, InsertJob(s)
    PROVE  StepTrue
<1>0. /\ sess[s] \in Session /\ SessionShape(sess[s]) /\ FreezeTrue(sess[s]) /\ sess[s].stage = "frozen"
      /\ jobs \subseteq JobRow /\ JobFilesApproved
      /\ UNCHANGED <<tables, storage, objects, unacked>>
  BY ShapesNow DEF TemplateInv, ContentInv, InsertJob
<1> DEFINE j == [ver |-> sess[s].ver, sha |-> sess[s].content, files |-> sess[s].files]
<1>1. j \in JobRow /\ j.sha # NoContent /\ j.files = j.sha.files
  BY <1>0 DEF JobRow, Session, SessionShape, FreezeTrue
<1>2. jobs' = jobs \cup {j}
  BY DEF InsertJob
<1> HIDE DEF j
<1>3. jobs' \subseteq JobRow /\ JobFilesApproved'
  BY <1>0, <1>1, <1>2 DEF JobFilesApproved
<1> HIDE DEF Idle
<1> QED
  BY <1>0, <1>3, IdleShape, IdleTrue, SessionGoesOn DEF InsertJob, Ends

LEMMA WriteFailed ==
    ASSUME TemplateInv, NEW s \in Sessions, WriteFails(s)
    PROVE  StepTrue
<1>1. /\ sess[s].stage \in {"uploaded", "compiled"} /\ sess' = [sess EXCEPT ![s] = Undoing(s)]
      /\ UNCHANGED <<tables, storage, objects, jobs, unacked>>
  BY DEF WriteFails
<1>2. Undoing(s) \in Session /\ SessionShape(Undoing(s)) /\ Undoing(s).obj = sess[s].obj
      /\ Undoing(s).stage = "undo"
  BY <1>1, UndoingShape DEF TemplateInv, ContentInv
<1>3. ValidationTrue(Undoing(s)) /\ FreezeTrue(Undoing(s))
  BY <1>2 DEF ValidationTrue, FreezeTrue, VersionStage
<1>4. Holds(sess[s])
  BY <1>1 DEF Holds
<1> QED
  BY <1>1, <1>2, <1>3, <1>4, SessionGoesOn, JobsRest

LEMMA UploadUndone ==
    ASSUME TemplateInv, NEW s \in Sessions, Undo(s)
    PROVE  StepTrue
<1>0. /\ sess \in [Sessions -> Session] /\ Holds(sess[s]) /\ sess' = [sess EXCEPT ![s] = Idle]
      /\ objects \ {sess[s].obj} \subseteq objects' /\ objects' \subseteq objects
      /\ UNCHANGED <<tables, storage, jobs, unacked>>
  BY ShapesNow DEF TemplateInv, ContentInv, Undo, Ends, Holds
<1>1. sess'[s] = Idle /\ \A t \in Sessions \ {s} : sess'[t] = sess[t]
  BY <1>0
<1>2. \A f \in Files : Points(f)' = Points(f) /\ (FileExists(f)' <=> FileExists(f))
  BY <1>0 DEF tables, Points, FileExists
<1>3. ObjectsTrue'
  <2>1. ASSUME NEW f \in Files, FileExists(f) PROVE Points(f) \subseteq objects' \cup unacked
    BY <1>0, <2>1 DEF TemplateInv, ObjectsTrue
  <2>2. ASSUME NEW t \in Sessions, Holds(sess'[t])
        PROVE  /\ sess'[t].obj \in objects'
               /\ \A u \in Sessions \ {t} : Holds(sess'[u]) => sess'[u].obj # sess'[t].obj
               /\ \/ \A f \in Files : FileExists(f) => sess'[t].obj \notin Points(f)
                  \/ sess'[t].stage = "undo" /\ sess'[t].obj \in unacked
    <3>1. t # s /\ sess'[t] = sess[t]
      BY <1>1, <2>2, IdleTrue
    <3>2. sess[t].obj # sess[s].obj /\ sess[t].obj \in objects
      BY <1>0, <2>2, <3>1 DEF TemplateInv, ObjectsTrue
    <3>3. \A u \in Sessions \ {t} : Holds(sess'[u]) => sess'[u].obj # sess'[t].obj
      BY <1>1, <2>2, <3>1, IdleTrue DEF TemplateInv, ObjectsTrue
    <3>4. \/ \A f \in Files : FileExists(f) => sess'[t].obj \notin Points(f)
          \/ sess'[t].stage = "undo" /\ sess'[t].obj \in unacked
      BY <2>2, <3>1 DEF TemplateInv, ObjectsTrue
    <3> QED
      BY <1>0, <3>1, <3>2, <3>3, <3>4
  <2>3. \A t \in Sessions : Holds(sess[t])' => Holds(sess'[t])
    BY DEF Holds
  <2> QED
    BY <1>0, <1>2, <2>1, <2>2, <2>3 DEF ObjectsTrue
<1>4. objects' \subseteq Objects
  BY <1>0, ShapesNow DEF TemplateInv, ContentInv
<1> QED
  BY <1>0, <1>3, <1>4, IdleShape, IdleTrue, JobsRest, SessionMoves

\* Session s stores a fresh object and holds it.
LEMMA SessionStores ==
    ASSUME TemplateInv, NEW s \in Sessions, NEW o \in Objects, Unused(o),
           NEW x \in Session, SessionShape(x), x.obj = o, x.stage \in {"uploaded", "compiled"},
           sess' = [sess EXCEPT ![s] = x], objects' = objects \cup {o},
           UNCHANGED <<tables, storage, jobs, unacked>>
    PROVE  StepTrue
<1>1. sess'[s] = x /\ \A t \in Sessions \ {s} : sess'[t] = sess[t]
  BY ShapesNow DEF TemplateInv, ContentInv
<1>2. \A f \in Files : Points(f)' = Points(f) /\ (FileExists(f)' <=> FileExists(f))
  BY DEF tables, Points, FileExists
<1>3. o \notin objects /\ \A f \in Files : FileExists(f) => o \notin Points(f)
  BY UnusedUnpointed DEF TemplateInv, ContentInv, Unused
<1>4. ObjectsTrue'
  <2>1. \A f \in Files : FileExists(f) => Points(f) \subseteq objects' \cup unacked
    BY DEF TemplateInv, ObjectsTrue
  <2>2. ASSUME NEW t \in Sessions, Holds(sess'[t])
        PROVE  /\ sess'[t].obj \in objects'
               /\ \A u \in Sessions \ {t} : Holds(sess'[u]) => sess'[u].obj # sess'[t].obj
               /\ \/ \A f \in Files : FileExists(f) => sess'[t].obj \notin Points(f)
                  \/ sess'[t].stage = "undo" /\ sess'[t].obj \in unacked
    <3>1. ASSUME NEW u \in Sessions \ {s}, Holds(sess[u]) PROVE sess[u].obj \in objects /\ sess[u].obj # o
      BY <1>3, <3>1 DEF TemplateInv, ObjectsTrue
    <3>2. CASE t = s
      BY <1>1, <1>3, <3>1, <3>2
    <3>3. CASE t # s
      <4>1. sess'[t] = sess[t] /\ Holds(sess[t]) /\ sess[t].obj \in objects /\ sess[t].obj # o
        BY <1>1, <2>2, <3>1, <3>3
      <4>2. \A u \in Sessions \ {t} : Holds(sess'[u]) => sess'[u].obj # sess[t].obj
        BY <1>1, <4>1 DEF TemplateInv, ObjectsTrue
      <4>3. \/ \A f \in Files : FileExists(f) => sess[t].obj \notin Points(f)
            \/ sess[t].stage = "undo" /\ sess[t].obj \in unacked
        BY <4>1 DEF TemplateInv, ObjectsTrue
      <4> QED
        BY <4>1, <4>2, <4>3
    <3> QED
      BY <3>2, <3>3
  <2>3. \A t \in Sessions : Holds(sess[t])' => Holds(sess'[t])
    BY DEF Holds
  <2> QED
    BY <1>2, <2>1, <2>2, <2>3 DEF ObjectsTrue
<1>5. objects' \subseteq Objects /\ ValidationTrue(x) /\ FreezeTrue(x)
  BY ShapesNow DEF TemplateInv, ContentInv, ValidationTrue, FreezeTrue, VersionStage
<1> QED
  BY <1>4, <1>5, JobsRest, SessionMoves

LEMMA SourceUploaded ==
    ASSUME TemplateInv, NEW s \in Sessions, NEW v \in Versions, NEW o \in Objects, UploadSource(s, v, o)
    PROVE  StepTrue
<1> DEFINE x == [Idle EXCEPT !.stage = "uploaded", !.ver = v, !.obj = o]
<1>1. x \in Session /\ SessionShape(x) /\ x.obj = o /\ x.stage = "uploaded"
  BY IdleShape DEF Session, Idle, Stage, SessionShape, FileStage, VersionStage
<1>2. /\ Unused(o) /\ sess' = [sess EXCEPT ![s] = x] /\ objects' = objects \cup {o}
      /\ UNCHANGED <<tables, storage, jobs, unacked>>
  BY DEF UploadSource, Fresh, Begins
<1> HIDE DEF x
<1> QED
  BY <1>1, <1>2, SessionStores

LEMMA SourceCompiled ==
    ASSUME TemplateInv, NEW s \in Sessions, NEW f \in Files, NEW b \in Bindings, NEW o \in Objects,
           CompileSource(s, f, b, o)
    PROVE  StepTrue
<1> DEFINE x == [Idle EXCEPT !.stage = "compiled", !.file = f, !.obj = o, !.binding = b]
<1>1. x \in Session /\ SessionShape(x) /\ x.obj = o /\ x.stage = "compiled"
  BY IdleShape DEF Session, Idle, Stage, SessionShape, FileStage, VersionStage
<1>2. /\ Unused(o) /\ sess' = [sess EXCEPT ![s] = x] /\ objects' = objects \cup {o}
      /\ UNCHANGED <<tables, storage, jobs, unacked>>
  BY DEF CompileSource, Fresh, Begins
<1> HIDE DEF x
<1> QED
  BY <1>1, <1>2, SessionStores

----------------------------------------------------------------------------
(* Steps that write a version and no file.                                 *)

LEMMA VersionWritten ==
    ASSUME TemplateInv, active' \in Versions \cup {NoVersion}, ver' \in [Versions -> VersionRow],
           UNCHANGED <<file, storage, objects, jobs, unacked>>, SessionsKept,
           \A t \in Sessions : Fields(sess'[t], sess[t]) \/ sess'[t] = Idle,
           \A w \in Versions : VersionStep(w),
           \A v \in Versions : ver'[v].status = "active" <=> active' = v
    PROVE  StepTrue
<1>1. Shapes'
  BY ShapesNow, ShapesFrom DEF TemplateInv, ContentInv, storage
<1>2. LedgerTrue'
  BY LedgerRests DEF TemplateInv, storage
<1>3. \A f \in Files : Points(f)' = Points(f) /\ (FileExists(f)' <=> FileExists(f))
  BY DEF Points, FileExists
<1>4. ASSUME NEW t \in Sessions, Holds(sess'[t])
      PROVE  Holds(sess[t]) /\ sess'[t].obj = sess[t].obj /\ sess'[t].stage = sess[t].stage
  BY <1>4, IdleTrue DEF Fields, Holds
<1>5. ObjectsTrue'
  BY <1>3, <1>4, ObjectsRest DEF TemplateInv, ContentInv
<1>6. ASSUME NEW t \in Sessions, sess'[t] = Idle PROVE ValidationTrue(sess[t])' /\ FreezeTrue(sess[t])'
  BY <1>6 DEF ValidationTrue, FreezeTrue, Idle, VersionStage
<1>7. SourcesApart'
  BY DEF TemplateInv, SourcesApart, FileExists
<1> QED
  BY <1>1, <1>2, <1>5, <1>6, <1>7, JobsRest, InvFrom

\* The sessions, when those of some versions and files are outdated and s ends.
LEMMA OthersOutdated ==
    ASSUME Shapes, NEW vs, NEW fs,
           sess' = Outdated(vs, fs) \/ \E s \in Sessions : Ends(s, Outdated(vs, fs))
    PROVE  /\ SessionsKept
           /\ \A t \in Sessions : Fields(sess'[t], sess[t]) \/ sess'[t] = Idle
           /\ \A t \in Sessions : sess'[t].stage \in VersionStage /\ sess'[t].ver \in vs => ~sess'[t].fresh
<1> DEFINE O == Outdated(vs, fs)
<1>1. /\ O \in [Sessions -> Session]
      /\ \A t \in Sessions : SessionShape(O[t]) /\ Fields(O[t], sess[t])
  BY OutdatedSessions
<1>2. \A t \in Sessions : sess[t].stage \in VersionStage /\ sess[t].ver \in vs => ~O[t].fresh
  BY OutdatedSessions, Zenon
<1> HIDE DEF O
<1>3. \A t \in Sessions : O[t].stage \in VersionStage /\ O[t].ver \in vs => ~O[t].fresh
  BY <1>1, <1>2 DEF Fields
<1>4. CASE sess' = O
  BY <1>1, <1>3, <1>4 DEF SessionsKept
<1>5. ASSUME NEW s \in Sessions, Ends(s, O) PROVE
         /\ SessionsKept
         /\ \A t \in Sessions : Fields(sess'[t], sess[t]) \/ sess'[t] = Idle
         /\ \A t \in Sessions : sess'[t].stage \in VersionStage /\ sess'[t].ver \in vs => ~sess'[t].fresh
  <2>1. SessionsKept
    BY <1>1, <1>5, EndsShape
  <2>2. sess'[s] = Idle /\ Idle.stage \notin VersionStage /\ \A t \in Sessions \ {s} : sess'[t] = O[t]
    BY <1>1, <1>5, IdleShape DEF Ends, VersionStage
  <2> HIDE DEF Idle
  <2> QED
    BY <1>1, <1>3, <2>1, <2>2
<1> QED
  BY <1>4, <1>5 DEF O

LEMMA VersionCreated ==
    ASSUME TemplateInv, NEW v \in Versions, CreateVersion(v)
    PROVE  StepTrue
<1>0. /\ ver[v].status = "unborn" /\ ver' = [ver EXCEPT ![v] = BlankVersion("draft")]
      /\ UNCHANGED <<active, file, storage, objects, jobs, sess, unacked>>
      /\ ver \in [Versions -> VersionRow] /\ Shapes
  BY ShapesNow DEF CreateVersion, TemplateInv, ContentInv
<1>1. BlankVersion("draft") \in VersionRow /\ BlankVersion("draft").status = "draft"
      /\ BlankVersion("draft").report = NoContent
  BY BlankRows DEF VersionStatus
<1>2. ver' \in [Versions -> VersionRow] /\ ver'[v].status = "draft" /\ ver'[v].report = NoContent
      /\ \A w \in Versions \ {v} : ver'[w] = ver[w]
  BY <1>0, <1>1
<1>3. Edited(v)
  <2>1. \A t \in Sessions : sess'[t].stage \in VersionStage => sess'[t].ver # v
    BY <1>0 DEF TemplateInv, ContentInv, ValidationTrue
  <2> QED
    BY <1>0, <1>2, <2>1 DEF Edited
<1>4. \A w \in Versions \ {v} : SameContent(w) /\ ver'[w] = ver[w]
  BY <1>0, <1>2 DEF SameContent, FileExists
<1>5. \A w \in Versions : VersionStep(w)
  BY <1>3, <1>4 DEF VersionStep
<1>6. \A w \in Versions : ver'[w].status = "active" <=> active' = w
  BY <1>0, <1>2 DEF TemplateInv, ContentInv, VersionsTrue
<1>7. SessionsKept /\ \A t \in Sessions : Fields(sess'[t], sess[t])
  BY <1>0, ShapesNow, FieldsSame DEF SessionsKept
<1> QED
  BY <1>0, <1>2, <1>5, <1>6, <1>7, ShapesNow, VersionWritten

LEMMA VersionUpdated ==
    ASSUME TemplateInv, NEW v \in Versions, NEW m \in Manifests, UpdateVersion(v, m)
    PROVE  StepTrue
<1>0. /\ ver[v].status = "draft" /\ ver' = [Invalidate(v) EXCEPT ![v].manifest = m]
      /\ sess' = Outdated({v}, {})
      /\ UNCHANGED <<active, file, storage, objects, jobs, unacked>>
      /\ Shapes
  BY DEF UpdateVersion, TemplateInv, ContentInv
<1>1. /\ Invalidate(v) \in [Versions -> VersionRow]
      /\ Invalidate(v)[v].report = NoContent /\ Invalidate(v)[v].status = "draft"
      /\ \A w \in Versions \ {v} : Invalidate(v)[w] = ver[w]
  BY <1>0, Invalidated
<1>2. /\ ver' \in [Versions -> VersionRow] /\ ver'[v].status = "draft" /\ ver'[v].report = NoContent
      /\ \A w \in Versions \ {v} : ver'[w] = ver[w]
  <2> HIDE DEF Invalidate
  <2> QED
    BY <1>0, <1>1 DEF VersionRow
<1>3. SessionsKept /\ \A t \in Sessions : /\ Fields(sess'[t], sess[t]) \/ sess'[t] = Idle
                                          /\ sess'[t].stage \in VersionStage /\ sess'[t].ver = v => ~sess'[t].fresh
  BY <1>0, OthersOutdated
<1>4. Edited(v)
  BY <1>0, <1>2, <1>3 DEF Edited
<1>5. \A w \in Versions \ {v} : SameContent(w) /\ ver'[w] = ver[w]
  BY <1>0, <1>2 DEF SameContent, FileExists
<1>6. \A w \in Versions : VersionStep(w)
  BY <1>4, <1>5 DEF VersionStep
<1>7. \A w \in Versions : ver'[w].status = "active" <=> active' = w
  BY <1>0, <1>2 DEF TemplateInv, ContentInv, VersionsTrue
<1> QED
  BY <1>0, <1>2, <1>3, <1>6, <1>7, ShapesNow, VersionWritten

\* Activation retires what was active.
LEMMA ActivatedRows ==
    ASSUME TemplateInv, NEW v \in Versions, Activate(v)
    PROVE  /\ ver' \in [Versions -> VersionRow] /\ ver'[v].status = "active"
           /\ ver'[v].report = ver[v].report /\ ver'[v].sha = ver[v].sha
           /\ \A w \in Versions \ {v} :
                \/ active # w /\ ver'[w] = ver[w]
                \/ active = w /\ ver'[w].status = "retired" /\ ver'[w].report = NoContent
           /\ \A w \in Versions : SameContent(w)
<1>0. /\ ver' = [Superseded(v) EXCEPT ![v].status = "active"]
      /\ UNCHANGED <<file, storage, objects, jobs, unacked>>
      /\ Shapes /\ ver \in [Versions -> VersionRow]
  BY ShapesNow DEF Activate, TemplateInv, ContentInv
<1>1. /\ Superseded(v) \in [Versions -> VersionRow] /\ Superseded(v)[v] = ver[v]
      /\ \A w \in Versions \ {v} :
           \/ active # w /\ Superseded(v)[w] = ver[w]
           \/ /\ active = w /\ Superseded(v)[w].status = "retired" /\ Superseded(v)[w].report = NoContent
              /\ Superseded(v)[w].manifest = ver[w].manifest
  <2>1. CASE active \in Versions \ {v}
    <3>1. PICK u \in Versions \ {v} : u = active
      BY <2>1
    <3>2. Superseded(v) = Retire(u)
      BY <2>1, <3>1 DEF Superseded
    <3> QED
      BY <1>0, <3>1, <3>2, Retired
  <2>2. CASE active \notin Versions \ {v}
    BY <1>0, <2>2 DEF Superseded
  <2> QED
    BY <2>1, <2>2
<1>2. /\ ver' \in [Versions -> VersionRow] /\ ver'[v].status = "active"
      /\ ver'[v].report = ver[v].report /\ ver'[v].sha = ver[v].sha /\ ver'[v].manifest = ver[v].manifest
      /\ \A w \in Versions \ {v} : ver'[w] = Superseded(v)[w]
  <2> HIDE DEF Superseded
  <2> QED
    BY <1>0, <1>1 DEF VersionRow, VersionStatus
<1>3. \A w \in Versions : ver'[w].manifest = ver[w].manifest
  BY <1>1, <1>2
<1>4. \A w \in Versions : SameContent(w)
  BY <1>0, <1>3 DEF SameContent
<1> QED
  BY <1>1, <1>2, <1>4

LEMMA VersionActivated ==
    ASSUME TemplateInv, NEW v \in Versions, Activate(v)
    PROVE  StepTrue
<1>0. /\ ver[v].status \in {"ready", "retired"} /\ ver[v].report # NoContent
      /\ \A f \in FilesOf(v) : file[f].status = "ready"
      /\ active' = v
      /\ sess' = Outdated({v, active}, {})
      /\ UNCHANGED <<file, storage, objects, jobs, unacked>>
      /\ Shapes
  BY DEF Activate, TemplateInv, ContentInv
<1>1. \A w \in Versions : ver[w].status = "active" <=> active = w
  BY DEF TemplateInv, ContentInv, VersionsTrue
<1>2. SessionsKept /\ \A t \in Sessions : Fields(sess'[t], sess[t]) \/ sess'[t] = Idle
  BY <1>0, OthersOutdated
<1>3. ASSUME NEW w \in Versions PROVE VersionStep(w)
  BY <1>0, <1>1, ActivatedRows DEF VersionStep
<1>4. \A w \in Versions : ver'[w].status = "active" <=> active' = w
  BY <1>0, <1>1, ActivatedRows
<1> QED
  BY <1>0, <1>2, <1>3, <1>4, ShapesNow, ActivatedRows, VersionWritten

LEMMA VersionDeactivated ==
    ASSUME TemplateInv, NEW v \in Versions, Deactivate(v)
    PROVE  StepTrue
<1>0. /\ active = v /\ ver[v].status = "active" /\ ver' = Retire(v) /\ active' = NoVersion
      /\ sess' = Outdated({v}, {})
      /\ UNCHANGED <<file, storage, objects, jobs, unacked>>
      /\ Shapes
  BY DEF Deactivate, TemplateInv, ContentInv
<1>1. /\ ver' \in [Versions -> VersionRow] /\ ver'[v].status = "retired" /\ ver'[v].report = NoContent
      /\ ver'[v].manifest = ver[v].manifest
      /\ \A w \in Versions \ {v} : ver'[w] = ver[w]
  BY <1>0, Retired
<1>2. \A f \in Files : file'[f] = file[f]
  BY <1>0
<1>3. \A w \in Versions : VersionStep(w)
  BY <1>0, <1>1, <1>2 DEF VersionStep, SameContent
<1>4. \A w \in Versions : ver'[w].status = "active" <=> active' = w
  BY <1>0, <1>1, TemplateAssumption DEF TemplateInv, ContentInv, VersionsTrue
<1>5. SessionsKept /\ \A t \in Sessions : Fields(sess'[t], sess[t]) \/ sess'[t] = Idle
  BY <1>0, OthersOutdated
<1> QED
  BY <1>0, <1>1, <1>3, <1>4, <1>5, VersionWritten

LEMMA ValidationRecorded ==
    ASSUME TemplateInv, NEW s \in Sessions, RecordValidation(s)
    PROVE  StepTrue
<1>0. /\ sess[s] \in Session /\ SessionShape(sess[s]) /\ ValidationTrue(sess[s]) /\ Shapes
      /\ sess[s].stage = "validated" /\ ver \in [Versions -> VersionRow]
      /\ UNCHANGED <<active, file, storage, objects, jobs, unacked>>
  BY ShapesNow DEF TemplateInv, ContentInv, RecordValidation
<1>1. PICK v \in Versions : v = sess[s].ver
  BY <1>0 DEF SessionShape, VersionStage
<1>2. CASE ~MayValidate(s)
  <2>1. Ends(s, sess) /\ UNCHANGED ver
    BY <1>2, Zenon DEF RecordValidation
  <2> QED
    BY <1>0, <2>1, SessionEnds DEF tables
<1>3. CASE MayValidate(s)
  <2>1. sess[s].fresh /\ ver[v].status \in {"draft", "ready", "retired"}
    BY <1>1, <1>3, Zenon DEF MayValidate
  <2> DEFINE result == IF sess[s].passed THEN sess[s].content ELSE NoContent
             status == IF ver[v].status = "retired" THEN "retired"
                       ELSE IF sess[s].passed THEN "ready" ELSE "draft"
             row == [[[ver[v] EXCEPT !.sha = result] EXCEPT !.report = result] EXCEPT !.status = status]
  <2>2. result \in Hash /\ (result = NoContent \/ (result = Content(v) /\ Sound(v)))
    <3>1. sess[s].content \in ContentType
      BY <1>0 DEF SessionShape, VersionStage
    <3>2. sess[s].passed => sess[s].content = Content(v) /\ Sound(v)
      BY <1>0, <1>1, <2>1, Zenon DEF ValidationTrue
    <3> QED
      BY <3>1, <3>2 DEF Hash
  <2>3. /\ status \in {"draft", "ready", "retired"} /\ status \in VersionStatus
        /\ status = "retired" <=> ver[v].status = "retired"
    BY DEF VersionStatus
  <2>4. ver' = [ver EXCEPT ![v] = row]
    <3>1. ver' = [ver EXCEPT ![v].sha = result, ![v].report = result,
                             ![v].status = IF @ = "retired" THEN @
                                           ELSE IF sess[s].passed THEN "ready" ELSE "draft"]
      BY <1>1, <1>3 DEF RecordValidation
    <3> HIDE DEF result
    <3> QED
      BY <1>0, <3>1 DEF VersionRow
  <2> HIDE DEF result, status
  <2>5. /\ row \in VersionRow /\ row.status = status /\ row.sha = result /\ row.report = result
        /\ row.manifest = ver[v].manifest
    BY <1>0, <2>2, <2>3 DEF VersionRow
  <2> HIDE DEF row
  <2>6. ver' \in [Versions -> VersionRow] /\ ver'[v] = row /\ \A w \in Versions \ {v} : ver'[w] = ver[w]
    BY <1>0, <2>4, <2>5
  <2>7. \A f \in Files : file'[f] = file[f]
    BY <1>0
  <2>8. SameContent(v)
    BY <2>5, <2>6, <2>7 DEF SameContent
  <2>9. \A w \in Versions \ {v} : SameContent(w) /\ ver'[w] = ver[w]
    BY <2>6, <2>7 DEF SameContent
  <2>10. VersionStep(v)
    BY <2>1, <2>2, <2>3, <2>5, <2>6, <2>8 DEF VersionStep
  <2>11. \A w \in Versions : VersionStep(w)
    BY <2>9, <2>10 DEF VersionStep
  <2>12. \A w \in Versions : ver'[w].status = "active" <=> active' = w
    BY <1>0, <2>1, <2>3, <2>5, <2>6 DEF TemplateInv, ContentInv, VersionsTrue
  <2>13. SessionsKept /\ \A t \in Sessions : Fields(sess'[t], sess[t]) \/ sess'[t] = Idle
    <3>1. Ends(s, Outdated({v}, {}))
      BY <1>1, <1>3 DEF RecordValidation
    <3> QED
      BY <1>0, <3>1, OthersOutdated
  <2> QED
    BY <1>0, <2>6, <2>11, <2>12, <2>13, ShapesNow, VersionWritten
<1> QED
  BY <1>2, <1>3

----------------------------------------------------------------------------
(* Steps that edit a file of a draft.                                      *)

RowLives(row) == row.status \notin {"unborn", "deleted"}
RowRefs(row, f) == {<<row.src, f>>} \cup ({<<row.comp, f>>} \cap (Objects \X Files))

\* Row f of a file of the draft v becomes row; the session of the request ends,
\* or undoes its upload.
FileEdit(v, f, row) ==
    /\ ver[v].status = "draft" /\ ver' = Invalidate(v) /\ file' = [file EXCEPT ![f] = row]
    /\ FileExists(f) => file[f].ver = v
    /\ RowLives(row) => row.ver = v /\ row.src \in Objects /\ row.src # row.comp
    /\ UNCHANGED <<active, objects, jobs>>
    /\ SessionsKept
    /\ \A t \in Sessions : \/ Fields(sess'[t], sess[t]) \/ sess'[t] = Idle
                           \/ sess'[t].stage = "undo"
    /\ \A t \in Sessions : sess'[t].stage \in VersionStage /\ sess'[t].ver = v => ~sess'[t].fresh

LEMMA FileEdited ==
    ASSUME TemplateInv, NEW v \in Versions, NEW f \in Files, NEW row \in FileRow, FileEdit(v, f, row),
           NEW a \in SUBSET (Objects \X {f}), NEW b \in SUBSET (Objects \X {f}), Release(a, b),
           RowLives(row) => RowRefs(row, f) \subseteq (owners \ a) \cup b,
           unacked' \subseteq Objects, ObjectsTrue'
    PROVE  StepTrue
<1>0. Shapes /\ file \in [Files -> FileRow] /\ LedgerTrue
  BY ShapesNow DEF TemplateInv, ContentInv
<1>1. file' \in [Files -> FileRow] /\ file'[f] = row /\ \A g \in Files \ {f} : file'[g] = file[g]
  BY <1>0 DEF FileEdit
<1>2. /\ Invalidate(v) \in [Versions -> VersionRow] /\ Invalidate(v)[v].status = ver[v].status
      /\ \A w \in Versions \ {v} : Invalidate(v)[w] = ver[w]
  BY <1>0, Invalidated
<1>3. Shapes'
  <2>1. FilesFit(file')
    BY <1>0, <1>1, ShapesNow DEF FilesFit, FileEdit, RowLives
  <2>2. owners' \subseteq Objects \X Files /\ ledger' \in [Objects -> Retention]
    <3>1. a \in SUBSET (Objects \X Files) /\ b \in SUBSET (Objects \X Files)
      OBVIOUS
    <3> QED
      BY <1>0, <3>1, Released DEF Shapes
  <2>3. ver' \in [Versions -> VersionRow] /\ UNCHANGED <<active, objects, jobs>> /\ SessionsKept
    BY <1>2 DEF FileEdit
  <2> QED
    BY <1>0, <1>1, <2>1, <2>2, <2>3, ShapesNow, ShapesFrom
<1>4. \A w \in Versions : VersionStep(w)
  BY <1>0, DraftEdited DEF FileEdit, RowLives
<1>5. \A w \in Versions : ver'[w].status = "active" <=> active' = w
  BY <1>2 DEF FileEdit, TemplateInv, ContentInv, VersionsTrue
<1>6. LedgerTrue'
  <2>1. FileExists(f)' => Refs(f)' \subseteq (owners \ a) \cup b
    BY <1>1 DEF FileExists, RowLives, Refs, Derived, RowRefs
  <2> QED
    BY <1>0, <1>1, <1>3, <2>1, EditReleases
<1>7. ASSUME NEW t \in Sessions
      PROVE Fields(sess'[t], sess[t]) \/ (ValidationTrue(sess[t])' /\ FreezeTrue(sess[t])')
  <2>1. CASE Fields(sess'[t], sess[t])
    BY <2>1
  <2>2. CASE sess'[t] = Idle
    BY <2>2 DEF ValidationTrue, FreezeTrue, Idle, VersionStage
  <2>3. CASE sess'[t].stage = "undo"
    BY <2>3 DEF ValidationTrue, FreezeTrue, VersionStage
  <2> QED
    BY <2>1, <2>2, <2>3 DEF FileEdit
<1>8. JobFilesApproved'
  BY JobsRest DEF FileEdit
<1>9. SourcesApart'
  BY <1>1 DEF TemplateInv, SourcesApart, FileExists, FileEdit, RowLives
<1> QED
  BY <1>3, <1>4, <1>5, <1>6, <1>7, <1>8, <1>9, InvFrom

\* The row keeps its source and its compiled template, or loses them.
LEMMA FileCleared ==
    ASSUME TemplateInv, NEW f \in Files, NEW row \in FileRow, Drafted(f),
           ver' = Invalidate(file[f].ver), file' = [file EXCEPT ![f] = row],
           RowLives(row) => /\ row.ver = file[f].ver /\ row.src = file[f].src
                            /\ row.comp \in {file[f].comp, NoObject},
           NEW a \in SUBSET Refs(f), Release(a, {}),
           RowLives(row) => RowRefs(row, f) \subseteq Refs(f) \ a,
           UNCHANGED <<active, objects, jobs, unacked>>,
           \/ sess' = Outdated({file[f].ver}, {f})
           \/ \E s \in Sessions : Ends(s, Outdated({file[f].ver}, {f}))
    PROVE  StepTrue
<1>0. /\ Shapes /\ FileExists(f) /\ file[f].src \in Objects /\ file \in [Files -> FileRow]
      /\ ver[file[f].ver].status = "draft"
  BY ShapesNow DEF TemplateInv, ContentInv, Drafted, FilesFit, FileExists
<1>1. PICK v \in Versions : v = file[f].ver
  BY <1>0 DEF Shapes
<1>2. /\ SessionsKept /\ \A t \in Sessions : Fields(sess'[t], sess[t]) \/ sess'[t] = Idle
      /\ \A t \in Sessions : sess'[t].stage \in VersionStage /\ sess'[t].ver = v => ~sess'[t].fresh
  <2>1. /\ SessionsKept
        /\ \A t \in Sessions : Fields(sess'[t], sess[t]) \/ sess'[t] = Idle
        /\ \A t \in Sessions : sess'[t].stage \in VersionStage /\ sess'[t].ver \in {v} => ~sess'[t].fresh
    BY <1>0, <1>1, OthersOutdated
  <2> QED
    BY <2>1
<1>3. FileEdit(v, f, row)
  <2>1. RowLives(row) => row.ver = v /\ row.src \in Objects /\ row.src # row.comp
    BY <1>0, <1>1, TemplateAssumption DEF TemplateInv, SourcesApart
  <2> QED
    BY <1>0, <1>1, <1>2, <2>1 DEF FileEdit
<1>4. /\ Refs(f) \subseteq owners /\ Refs(f) \subseteq Objects \X {f}
  <2>1. Refs(f) \subseteq owners
    BY <1>0 DEF TemplateInv, LedgerTrue
  <2>2. Refs(f) \subseteq Objects \X {f}
    BY <1>0 DEF Refs, Derived
  <2> QED
    BY <2>1, <2>2
<1>5. a \in SUBSET (Objects \X {f}) /\ (RowLives(row) => RowRefs(row, f) \subseteq (owners \ a) \cup {})
  BY <1>4
<1>6. ObjectsTrue'
  <2>1. file'[f] = row /\ \A g \in Files \ {f} : file'[g] = file[g]
    BY <1>0
  <2>2. ASSUME NEW t \in Sessions, Holds(sess'[t])
        PROVE  Holds(sess[t]) /\ sess'[t].obj = sess[t].obj /\ sess'[t].stage = sess[t].stage
    BY <1>2, <2>2, IdleTrue DEF Fields, Holds
  <2>3. ASSUME NEW g \in Files, FileExists(g)' PROVE FileExists(g) /\ Points(g)' \subseteq Points(g)
    BY <1>0, <2>1, <2>3 DEF FileExists, RowLives, Points
  <2> QED
    BY <1>0, <2>2, <2>3, ObjectsRest DEF TemplateInv
<1> QED
  BY <1>0, <1>3, <1>5, <1>6, FileEdited, ShapesNow

----------------------------------------------------------------------------
LEMMA DraftedRow ==
    ASSUME Shapes, NEW f \in Files, Drafted(f)
    PROVE  /\ file \in [Files -> FileRow] /\ file[f] \in FileRow /\ FileExists(f)
           /\ file[f].src \in Objects /\ file[f].ver \in Versions
           /\ Derived(f) \subseteq Refs(f) /\ \A p \in Derived(f) : p # <<file[f].src, f>> \/ file[f].src = file[f].comp
BY ShapesNow DEF Drafted, Shapes, FileExists, Derived, Refs

LEMMA FileRenamed ==
    ASSUME TemplateInv, NEW f \in Files, RenameFile(f)
    PROVE  StepTrue
<1>0. /\ Drafted(f) /\ ver' = Invalidate(file[f].ver) /\ sess' = Outdated({file[f].ver}, {f})
      /\ UNCHANGED <<active, file, storage, objects, jobs, unacked>> /\ Shapes
  BY DEF RenameFile, TemplateInv, ContentInv
<1>1. file' = [file EXCEPT ![f] = file[f]] /\ file[f] \in FileRow
  BY <1>0, DraftedRow
<1>2. Release({}, {})
  <2>1. ledger = [o \in Objects |-> ledger[o]]
    BY <1>0, ShapesNow
  <2> QED
    BY <1>0, <2>1 DEF Release, storage
<1>3. RowRefs(file[f], f) \subseteq Refs(f) \ {}
  BY DEF RowRefs, Refs, Derived
<1> QED
  BY <1>0, <1>1, <1>2, <1>3, FileCleared

LEMMA FileDeleted ==
    ASSUME TemplateInv, NEW f \in Files, DeleteFile(f)
    PROVE  StepTrue
<1>0. /\ Drafted(f) /\ ver' = Invalidate(file[f].ver) /\ sess' = Outdated({file[f].ver}, {f})
      /\ file' = [file EXCEPT ![f] = BlankFile("deleted")] /\ Release(Refs(f), {})
      /\ UNCHANGED <<active, objects, jobs, unacked>>
  BY DEF DeleteFile
<1>1. BlankFile("deleted") \in FileRow /\ ~RowLives(BlankFile("deleted"))
  BY BlankRows DEF FileStatus, RowLives
<1> QED
  BY <1>0, <1>1, FileCleared

\* A row that loses its compiled template.  The reference to its source would go
\* with it if source and template were one object.
Uncompiled(f, b, st) ==
    [[[[file[f] EXCEPT !.binding = b] EXCEPT !.comp = NoObject] EXCEPT !.built = NoBinding] EXCEPT !.status = st]

LEMMA UncompiledRow ==
    ASSUME Shapes, NEW f \in Files, Drafted(f), NEW b \in Bindings \cup {NoBinding},
           NEW st \in {"mapping", "invalid"}, file[f].src # file[f].comp
    PROVE  LET row == Uncompiled(f, b, st) IN
           /\ row \in FileRow /\ row.ver = file[f].ver /\ row.src = file[f].src /\ row.comp = NoObject
           /\ RowRefs(row, f) \subseteq Refs(f) \ Derived(f)
<1> DEFINE row == Uncompiled(f, b, st)
<1>1. row \in FileRow /\ row.ver = file[f].ver /\ row.src = file[f].src /\ row.comp = NoObject
  BY DraftedRow DEF Uncompiled, FileRow, FileStatus
<1> HIDE DEF row
<1>2. RowRefs(row, f) = {<<file[f].src, f>>}
  BY <1>1, TemplateAssumption DEF RowRefs
<1>3. <<file[f].src, f>> \in Refs(f) /\ <<file[f].src, f>> \notin Derived(f)
  BY DEF Refs, Derived
<1> QED
  BY <1>1, <1>2, <1>3 DEF row

LEMMA FileUpdated ==
    ASSUME TemplateInv, NEW f \in Files, NEW b \in Bindings \cup {file[f].binding}, UpdateFile(f, b)
    PROVE  StepTrue
<1>0. /\ Drafted(f) /\ ver' = Invalidate(file[f].ver) /\ sess' = Outdated({file[f].ver}, {f})
      /\ file' = [file EXCEPT ![f].binding = b, ![f].comp = NoObject,
                              ![f].built = NoBinding, ![f].status = "mapping"]
      /\ Release(Derived(f), {}) /\ UNCHANGED <<active, objects, jobs, unacked>> /\ Shapes
  BY DEF UpdateFile, TemplateInv, ContentInv
<1>1. file \in [Files -> FileRow] /\ file[f] \in FileRow /\ file[f].src # file[f].comp /\ Derived(f) \subseteq Refs(f)
  BY <1>0, DraftedRow DEF TemplateInv, SourcesApart
<1>2. b \in Bindings \cup {NoBinding}
  BY <1>1 DEF FileRow
<1>3. file' = [file EXCEPT ![f] = Uncompiled(f, b, "mapping")]
  BY <1>0, <1>1 DEF Uncompiled, FileRow
<1>4. /\ Uncompiled(f, b, "mapping") \in FileRow /\ Uncompiled(f, b, "mapping").ver = file[f].ver
      /\ Uncompiled(f, b, "mapping").src = file[f].src /\ Uncompiled(f, b, "mapping").comp = NoObject
      /\ RowRefs(Uncompiled(f, b, "mapping"), f) \subseteq Refs(f) \ Derived(f)
  BY <1>0, <1>1, <1>2, UncompiledRow
<1> QED
  BY <1>0, <1>1, <1>3, <1>4, FileCleared

LEMMA InspectionRecorded ==
    ASSUME TemplateInv, NEW s \in Sessions, RecordInspection(s)
    PROVE  StepTrue
<1>0. /\ sess[s].stage = "inspected" /\ sess[s] \in Session /\ SessionShape(sess[s]) /\ Shapes
      /\ UNCHANGED <<active, objects, jobs, unacked>>
  BY ShapesNow DEF TemplateInv, ContentInv, RecordInspection
<1>1. PICK f \in Files : f = sess[s].file
  BY <1>0 DEF SessionShape, FileStage
<1>2. CASE ~(sess[s].fresh /\ Drafted(f))
  <2>1. Ends(s, sess) /\ UNCHANGED <<file, ver, storage>>
    BY <1>1, <1>2, Zenon DEF RecordInspection
  <2> QED
    BY <1>0, <2>1, SessionEnds DEF tables
<1>3. CASE sess[s].fresh /\ Drafted(f)
  <2>1. /\ Release(Derived(f), {}) /\ ver' = Invalidate(file[f].ver)
        /\ Ends(s, Outdated({file[f].ver}, {f}))
        /\ \E st \in {"mapping", "invalid"} :
             file' = [file EXCEPT ![f].comp = NoObject, ![f].built = NoBinding, ![f].status = st]
    BY <1>1, <1>3, Zenon DEF RecordInspection
  <2>2. PICK st \in {"mapping", "invalid"} :
             file' = [file EXCEPT ![f].comp = NoObject, ![f].built = NoBinding, ![f].status = st]
    BY <2>1
  <2>3. Drafted(f)
    BY <1>3
  <2>4. file \in [Files -> FileRow] /\ file[f] \in FileRow /\ file[f].src # file[f].comp /\ Derived(f) \subseteq Refs(f)
    BY <1>0, <2>3, DraftedRow DEF TemplateInv, SourcesApart
  <2>5. PICK b \in Bindings \cup {NoBinding} : b = file[f].binding
    BY <2>4 DEF FileRow
  <2>6. file' = [file EXCEPT ![f] = Uncompiled(f, b, st)]
    BY <2>2, <2>4, <2>5 DEF Uncompiled, FileRow
  <2>7. /\ Uncompiled(f, b, st) \in FileRow /\ Uncompiled(f, b, st).ver = file[f].ver
        /\ Uncompiled(f, b, st).src = file[f].src /\ Uncompiled(f, b, st).comp = NoObject
        /\ RowRefs(Uncompiled(f, b, st), f) \subseteq Refs(f) \ Derived(f)
    BY <1>0, <2>3, <2>4, UncompiledRow
  <2> QED
    BY <1>0, <2>1, <2>3, <2>4, <2>6, <2>7, FileCleared
<1> QED
  BY <1>2, <1>3

----------------------------------------------------------------------------
(* Steps that register the object of an upload.                            *)

\* Session s, which holds o, registers it in the row of f and ends or undoes.
Records(s, f, row, o, vs, fs) ==
    /\ sess[s].stage \in {"uploaded", "compiled"} /\ o = sess[s].obj
    /\ file' = [file EXCEPT ![f] = row]
    /\ \A p \in {row.src, row.comp} \ {NoObject} : p = o \/ (FileExists(f) /\ p \in Points(f))
    /\ objects' = objects
    /\ Answered(s, Outdated(vs, fs)) \/ Unanswered(s, Outdated(vs, fs))

LEMMA ObjectRecorded ==
    ASSUME TemplateInv, NEW s \in Sessions, NEW f \in Files, NEW row \in FileRow, NEW o \in Objects,
           NEW vs, NEW fs, Records(s, f, row, o, vs, fs)
    PROVE  /\ ObjectsTrue' /\ unacked' \subseteq Objects /\ SessionsKept
           /\ \A t \in Sessions : Fields(sess'[t], sess[t]) \/ sess'[t] = Idle \/ sess'[t].stage = "undo"
           /\ \A t \in Sessions : sess'[t].stage \in VersionStage /\ sess'[t].ver \in vs => ~sess'[t].fresh
<1> DEFINE O == Outdated(vs, fs)
           u == Undoing(s)
<1> USE DEF Records
<1>0. /\ Shapes /\ file \in [Files -> FileRow] /\ Holds(sess[s]) /\ o \in objects
      /\ \A g \in Files : FileExists(g) => o \notin Points(g)
  <2>1. Holds(sess[s])
    BY DEF Holds
  <2> QED
    BY <2>1, ShapesNow DEF TemplateInv, ContentInv, ObjectsTrue
<1>1. /\ O \in [Sessions -> Session]
      /\ \A t \in Sessions : SessionShape(O[t]) /\ Fields(O[t], sess[t])
  BY <1>0, OutdatedSessions
<1>2. \A t \in Sessions : sess[t].stage \in VersionStage /\ sess[t].ver \in vs => ~O[t].fresh
  BY <1>0, OutdatedSessions, Zenon
<1>3. u \in Session /\ SessionShape(u) /\ u.obj = o /\ u.stage = "undo"
  BY <1>0, UndoingShape
<1>4. \/ sess' = [O EXCEPT ![s] = Idle] /\ unacked' = unacked
      \/ sess' = [O EXCEPT ![s] = u] /\ unacked' = unacked \cup {o}
  BY DEF Answered, Unanswered, Ends
<1> HIDE DEF O, u
<1>5. \A t \in Sessions : O[t].stage \in VersionStage /\ O[t].ver \in vs => ~O[t].fresh
  BY <1>1, <1>2 DEF Fields
<1>6. PICK x \in Session : /\ sess' = [O EXCEPT ![s] = x] /\ SessionShape(x)
                           /\ \/ x = Idle /\ ~Holds(x) /\ x.stage = "idle" /\ unacked' = unacked
                              \/ x.stage = "undo" /\ x.obj = o /\ unacked' = unacked \cup {o}
  <2> HIDE DEF Idle
  <2> QED
    BY <1>3, <1>4, IdleShape, IdleTrue
<1>7. sess'[s] = x /\ \A t \in Sessions \ {s} : sess'[t] = O[t]
  BY <1>1, <1>6
<1>8. SessionsKept
  BY <1>1, <1>6, SessionPut DEF SessionsKept
<1>9. \A t \in Sessions : Fields(sess'[t], sess[t]) \/ sess'[t] = Idle \/ sess'[t].stage = "undo"
  BY <1>1, <1>6, <1>7
<1>10. \A t \in Sessions : sess'[t].stage \in VersionStage /\ sess'[t].ver \in vs => ~sess'[t].fresh
  <2>1. x.stage \notin VersionStage
    BY <1>6 DEF VersionStage
  <2> QED
    BY <1>5, <1>7, <2>1
<1>11. unacked' \subseteq Objects /\ unacked \subseteq unacked'
  BY <1>0, <1>6, ShapesNow
<1>12. /\ \A g \in Files \ {f} : Points(g)' = Points(g) /\ (FileExists(g)' <=> FileExists(g))
       /\ Points(f)' \subseteq {o} \cup (IF FileExists(f) THEN Points(f) ELSE {})
  BY <1>0 DEF Points, FileExists
<1>13. ObjectsTrue'
  <2>1. ASSUME NEW g \in Files, FileExists(g)' PROVE Points(g)' \subseteq objects \cup unacked'
    BY <1>0, <1>11, <1>12, <2>1 DEF TemplateInv, ObjectsTrue
  <2>2. ASSUME NEW t \in Sessions \ {s}, Holds(sess'[t])
        PROVE  /\ Holds(sess[t]) /\ sess'[t].obj = sess[t].obj /\ sess'[t].stage = sess[t].stage
               /\ sess[t].obj # o /\ sess[t].obj \in objects
    <3>1. Holds(sess[t]) /\ sess'[t].obj = sess[t].obj /\ sess'[t].stage = sess[t].stage
      BY <1>1, <1>7, <2>2 DEF Fields, Holds
    <3> QED
      BY <1>0, <3>1 DEF TemplateInv, ObjectsTrue
  <2>3. ASSUME NEW t \in Sessions \ {s}, Holds(sess'[t])
        PROVE  \/ \A g \in Files : FileExists(g)' => sess'[t].obj \notin Points(g)'
               \/ sess'[t].stage = "undo" /\ sess'[t].obj \in unacked'
    <3>1. \/ \A g \in Files : FileExists(g) => sess[t].obj \notin Points(g)
          \/ sess[t].stage = "undo" /\ sess[t].obj \in unacked
      BY <2>2, <2>3 DEF TemplateInv, ObjectsTrue
    <3>2. CASE sess[t].stage = "undo" /\ sess[t].obj \in unacked
      BY <1>11, <2>2, <2>3, <3>2
    <3>3. CASE \A g \in Files : FileExists(g) => sess[t].obj \notin Points(g)
      BY <1>12, <2>2, <2>3, <3>3
    <3> QED
      BY <3>1, <3>2, <3>3
  <2>4. Holds(sess'[s]) => sess'[s].obj = o /\ sess'[s].stage = "undo" /\ o \in unacked'
    BY <1>6, <1>7
  <2>5. ASSUME NEW t \in Sessions, Holds(sess'[t]), NEW r \in Sessions \ {t}, Holds(sess'[r])
        PROVE  sess'[r].obj # sess'[t].obj
    <3>1. CASE t = s
      BY <2>2, <2>4, <2>5, <3>1
    <3>2. CASE r = s
      BY <2>2, <2>4, <2>5, <3>2
    <3>3. CASE t # s /\ r # s
      BY <2>2, <2>5, <3>3 DEF TemplateInv, ObjectsTrue
    <3> QED
      BY <3>1, <3>2, <3>3
  <2>6. ASSUME NEW t \in Sessions, Holds(sess'[t]) PROVE sess'[t].obj \in objects
    BY <1>0, <2>2, <2>4, <2>6
  <2>7. \A t \in Sessions : Holds(sess[t])' => Holds(sess'[t])
    BY DEF Holds
  <2>8. ASSUME NEW t \in Sessions, Holds(sess'[t])
        PROVE  \/ \A g \in Files : FileExists(g)' => sess'[t].obj \notin Points(g)'
               \/ sess'[t].stage = "undo" /\ sess'[t].obj \in unacked'
    BY <2>3, <2>4, <2>8
  <2> QED
    BY <2>1, <2>5, <2>6, <2>7, <2>8 DEF ObjectsTrue
<1> QED
  BY <1>8, <1>9, <1>10, <1>11, <1>13

LEMMA FileAdded ==
    ASSUME TemplateInv, NEW s \in Sessions, NEW f \in Files, AddFile(s, f)
    PROVE  StepTrue
<1>0. /\ sess[s].stage = "uploaded" /\ sess[s] \in Session /\ SessionShape(sess[s]) /\ Shapes
      /\ file \in [Files -> FileRow] /\ file[f].status = "unborn"
      /\ UNCHANGED <<active, objects, jobs>>
  BY ShapesNow DEF TemplateInv, ContentInv, AddFile, AddFileRow
<1>1. PICK v \in Versions, o \in Objects : v = sess[s].ver /\ o = sess[s].obj
  BY <1>0 DEF SessionShape
<1> DEFINE row == [BlankFile("mapping") EXCEPT !.ver = v, !.src = o]
<1>2. /\ ver[v].status = "draft" /\ file' = [file EXCEPT ![f] = row] /\ ver' = Invalidate(v)
      /\ Release({}, {<<o, f>>})
      /\ Answered(s, Outdated({v}, {})) \/ Unanswered(s, Outdated({v}, {}))
  BY <1>1 DEF AddFile, AddFileRow
<1>3. /\ row \in FileRow /\ row.ver = v /\ row.src = o /\ row.comp = NoObject
  BY TemplateAssumption DEF BlankFile, FileRow, FileStatus
<1> HIDE DEF row
<1>4. /\ ObjectsTrue' /\ unacked' \subseteq Objects /\ SessionsKept
      /\ \A t \in Sessions : Fields(sess'[t], sess[t]) \/ sess'[t] = Idle \/ sess'[t].stage = "undo"
      /\ \A t \in Sessions : sess'[t].stage \in VersionStage /\ sess'[t].ver \in {v} => ~sess'[t].fresh
  <2>1. Records(s, f, row, o, {v}, {})
    BY <1>0, <1>1, <1>2, <1>3 DEF Records
  <2> QED
    BY <1>3, <2>1, ObjectRecorded
<1>5. FileEdit(v, f, row)
  <2>1. ~FileExists(f) /\ row.src # row.comp
    BY <1>0, <1>3, TemplateAssumption DEF FileExists
  <2>2. \A t \in Sessions : sess'[t].stage \in VersionStage /\ sess'[t].ver = v => ~sess'[t].fresh
    BY <1>4
  <2> QED
    BY <1>0, <1>2, <1>3, <1>4, <2>1, <2>2 DEF FileEdit
<1>6. RowRefs(row, f) \subseteq (owners \ {}) \cup {<<o, f>>}
  BY <1>3, TemplateAssumption DEF RowRefs
<1>7. {<<o, f>>} \in SUBSET (Objects \X {f}) /\ {} \in SUBSET (Objects \X {f})
  OBVIOUS
<1> QED
  BY <1>2, <1>3, <1>4, <1>5, <1>6, <1>7, FileEdited

LEMMA CompilationRecorded ==
    ASSUME TemplateInv, NEW s \in Sessions, RecordCompilation(s)
    PROVE  StepTrue
<1>0. /\ sess[s].stage = "compiled" /\ sess[s] \in Session /\ SessionShape(sess[s]) /\ Shapes
      /\ UNCHANGED <<active, objects, jobs>>
  BY ShapesNow DEF TemplateInv, ContentInv, RecordCompilation, RecordCompiled
<1>1. PICK f \in Files, o \in Objects, b \in Bindings :
        f = sess[s].file /\ o = sess[s].obj /\ b = sess[s].binding
  BY <1>0 DEF SessionShape, FileStage
<1>2. Drafted(f)
  BY <1>1, Zenon DEF RecordCompilation, RecordCompiled, MayRecord
<1>3. /\ file \in [Files -> FileRow] /\ file[f] \in FileRow /\ FileExists(f) /\ file[f].src \in Objects
  BY <1>0, <1>2, DraftedRow
<1>4. PICK v \in Versions : v = file[f].ver
  BY <1>0, <1>2, DraftedRow
<1> DEFINE row == [[[[file[f] EXCEPT !.binding = b] EXCEPT !.built = b] EXCEPT !.comp = o] EXCEPT !.status = "ready"]
<1>5. /\ ver[v].status = "draft" /\ ver' = Invalidate(v) /\ Release(Derived(f), {<<o, f>>})
      /\ file' = [file EXCEPT ![f].binding = b, ![f].built = b, ![f].comp = o, ![f].status = "ready"]
      /\ Answered(s, Outdated({v}, {f})) \/ Unanswered(s, Outdated({v}, {f}))
  BY <1>1, <1>2, <1>4 DEF RecordCompilation, RecordCompiled, Drafted
<1>6. row \in FileRow /\ row.ver = v /\ row.src = file[f].src /\ row.comp = o
  BY <1>3, <1>4 DEF FileRow, FileStatus
<1>7. file' = [file EXCEPT ![f] = row]
  BY <1>3, <1>5 DEF FileRow
<1> HIDE DEF row
<1>8. Records(s, f, row, o, {v}, {f})
  <2>1. \A p \in {row.src, row.comp} \ {NoObject} : p = o \/ (FileExists(f) /\ p \in Points(f))
    BY <1>3, <1>6 DEF Points
  <2> QED
    BY <1>0, <1>1, <1>5, <1>7, <2>1 DEF Records
<1>9. /\ ObjectsTrue' /\ unacked' \subseteq Objects /\ SessionsKept
      /\ \A t \in Sessions : Fields(sess'[t], sess[t]) \/ sess'[t] = Idle \/ sess'[t].stage = "undo"
      /\ \A t \in Sessions : sess'[t].stage \in VersionStage /\ sess'[t].ver \in {v} => ~sess'[t].fresh
  BY <1>6, <1>8, ObjectRecorded
<1>10. file[f].src # o /\ file[f].src # file[f].comp
  <2>1. o \notin Points(f)
    BY <1>0, <1>1, <1>3 DEF TemplateInv, ObjectsTrue, Holds
  <2> QED
    BY <1>3, <2>1, TemplateAssumption DEF Points, TemplateInv, SourcesApart
<1>11. FileEdit(v, f, row)
  <2>1. \A t \in Sessions : sess'[t].stage \in VersionStage /\ sess'[t].ver = v => ~sess'[t].fresh
    BY <1>9
  <2> QED
    BY <1>0, <1>3, <1>4, <1>5, <1>6, <1>7, <1>9, <1>10, <2>1 DEF FileEdit
<1>12. RowRefs(row, f) \subseteq (owners \ Derived(f)) \cup {<<o, f>>}
  <2>1. <<file[f].src, f>> \in owners
    BY <1>3 DEF TemplateInv, LedgerTrue, Refs
  <2>2. <<file[f].src, f>> \notin Derived(f)
    BY <1>10 DEF Derived
  <2> QED
    BY <1>6, <2>1, <2>2 DEF RowRefs
<1>13. Derived(f) \in SUBSET (Objects \X {f}) /\ {<<o, f>>} \in SUBSET (Objects \X {f})
  BY DEF Derived
<1> QED
  BY <1>5, <1>6, <1>9, <1>11, <1>12, <1>13, FileEdited

----------------------------------------------------------------------------
(* Steps that write a version and its files, or the ledger alone.          *)

LEMMA VersionCloned ==
    ASSUME TemplateInv, NEW v \in Versions, NEW c \in Versions, CloneVersion(v, c)
    PROVE  StepTrue
<1> DEFINE unborn == {f \in Files : file[f].status = "unborn"}
           Copies(g) == {f \in DOMAIN g : g[f] # NoFile}
           Copied(g) == {<<file[g[f]].src, f>> : f \in Copies(g)}
           Copy(r) == [r EXCEPT !.ver = c, !.comp = NoObject, !.built = NoBinding, !.status = "mapping"]
<1>0. /\ Shapes /\ ver \in [Versions -> VersionRow] /\ file \in [Files -> FileRow]
      /\ ver[c].status = "unborn"
      /\ ver' = [ver EXCEPT ![c] = [BlankVersion("draft") EXCEPT !.manifest = ver[v].manifest]]
      /\ UNCHANGED <<active, objects, jobs, sess, unacked>>
  BY ShapesNow DEF TemplateInv, ContentInv, CloneVersion
<1>1. PICK origin \in [unborn -> FilesOf(v) \cup {NoFile}] :
        /\ file' = [f \in Files |-> IF f \in Copies(origin) THEN Copy(file[origin[f]]) ELSE file[f]]
        /\ Release({}, Copied(origin))
  BY DEF CloneVersion
<1>2. ASSUME NEW f \in Copies(origin)
      PROVE  /\ f \in Files /\ ~FileExists(f) /\ origin[f] \in Files /\ FileExists(origin[f])
             /\ file'[f] = Copy(file[origin[f]]) /\ file[origin[f]] \in FileRow
             /\ file[origin[f]].src \in Objects
  <2>1. f \in Files /\ ~FileExists(f) /\ origin[f] \in Files /\ FileExists(origin[f])
    BY <1>1 DEF FilesOf, FileExists
  <2> QED
    BY <1>0, <1>1, <2>1 DEF Shapes
<1>3. \A f \in Files : f \notin Copies(origin) => file'[f] = file[f]
  BY <1>1
<1>4. ASSUME NEW f \in Copies(origin)
      PROVE  /\ file'[f] \in FileRow /\ file'[f].ver = c /\ file'[f].src = file[origin[f]].src
             /\ file'[f].comp = NoObject /\ file'[f].status = "mapping"
  <2>1. PICK r \in FileRow : r = file[origin[f]]
    BY <1>2
  <2>2. Copy(r) \in FileRow /\ Copy(r).ver = c /\ Copy(r).src = r.src /\ Copy(r).comp = NoObject
        /\ Copy(r).status = "mapping"
    BY DEF FileRow, FileStatus
  <2> QED
    BY <1>2, <2>1, <2>2
<1>5. file' \in [Files -> FileRow] /\ FilesFit(file')
  <2> HIDE DEF Copy, Copies
  <2>1. \A f \in Files : file'[f] \in FileRow
    BY <1>0, <1>3, <1>4
  <2>2. file' = [f \in Files |-> file'[f]]
    BY <1>1
  <2>3. file' \in [Files -> FileRow]
    BY <2>1, <2>2
  <2>4. FilesFit(file')
    BY <1>0, <1>2, <1>3, <1>4, ShapesNow DEF FilesFit
  <2> QED
    BY <2>3, <2>4
<1>6. Copied(origin) \in SUBSET (Objects \X Files) /\ {} \in SUBSET (Objects \X Files)
  <2> HIDE DEF Copies, Copy
  <2> QED
    BY <1>2
<1>7. /\ ver' \in [Versions -> VersionRow] /\ ver'[c].status = "draft" /\ ver'[c].report = NoContent
      /\ \A w \in Versions \ {c} : ver'[w] = ver[w]
  <2> DEFINE row == [BlankVersion("draft") EXCEPT !.manifest = ver[v].manifest]
  <2>1. row \in VersionRow /\ row.status = "draft" /\ row.report = NoContent
    BY <1>0, TemplateAssumption DEF BlankVersion, VersionRow, VersionStatus, Hash
  <2> HIDE DEF row
  <2>2. ver' = [ver EXCEPT ![c] = row]
    BY <1>0 DEF row
  <2> QED
    BY <1>0, <2>1, <2>2
<1>8. SessionsKept /\ \A t \in Sessions : Fields(sess'[t], sess[t])
  BY <1>0, ShapesNow, FieldsSame DEF SessionsKept
<1>9. Shapes'
  <2>1. owners' \subseteq Objects \X Files /\ ledger' \in [Objects -> Retention]
    <3> HIDE DEF Copied
    <3> QED
      BY <1>0, <1>1, <1>6, Released DEF Shapes
  <2> QED
    BY <1>0, <1>5, <1>7, <1>8, <2>1, ShapesNow, ShapesFrom
<1> HIDE DEF Copy, Copies
<1>10. ASSUME NEW w \in Versions PROVE VersionStep(w)
  <2>1. CASE w = c
    <3>1. \A t \in Sessions : sess'[t].stage \in VersionStage => sess'[t].ver # c
      BY <1>0 DEF TemplateInv, ContentInv, ValidationTrue
    <3>2. Edited(c)
      BY <1>0, <1>7, <3>1 DEF Edited
    <3> QED
      BY <2>1, <3>2 DEF VersionStep
  <2>2. CASE w # c
    <3>1. ASSUME NEW f \in Files, f \in Copies(origin) PROVE ~FileExists(f) /\ file'[f].ver # w
      BY <1>2, <1>4, <2>2, <3>1
    <3>2. SameContent(w) /\ ver'[w] = ver[w]
      BY <1>3, <1>7, <2>2, <3>1 DEF SameContent, FileExists
    <3> QED
      BY <3>2 DEF VersionStep
  <2> QED
    BY <2>1, <2>2
<1>11. \A w \in Versions : ver'[w].status = "active" <=> active' = w
  BY <1>0, <1>7 DEF TemplateInv, ContentInv, VersionsTrue
<1>12. LedgerTrue'
  <2>1. ASSUME NEW f \in Files, FileExists(f)' PROVE Refs(f)' \subseteq owners \cup Copied(origin)
    <3>1. CASE f \in Copies(origin)
      <4>1. Refs(f)' = {<<file[origin[f]].src, f>>}
        BY <1>4, <3>1, TemplateAssumption DEF Refs, Derived
      <4> QED
        BY <3>1, <4>1
    <3>2. CASE f \notin Copies(origin)
      BY <1>0, <1>3, <2>1, <3>2, RefsKept DEF TemplateInv
    <3> QED
      BY <3>1, <3>2
  <2>2. \A f \in Files : FileExists(f)' => Refs(f)' \subseteq (owners \ {}) \cup Copied(origin)
    BY <2>1
  <2> HIDE DEF Copied
  <2> QED
    BY <1>0, <1>1, <1>6, <1>9, <2>2, LedgerKept DEF TemplateInv
<1>13. ASSUME NEW f \in Files, FileExists(f)'
       PROVE  /\ \E g \in Files : FileExists(g) /\ Points(f)' \subseteq Points(g)
              /\ file'[f].src # file'[f].comp
  <2>1. CASE f \in Copies(origin)
    BY <1>2, <1>4, <2>1, TemplateAssumption DEF Points
  <2>2. CASE f \notin Copies(origin)
    BY <1>3, <1>13, <2>2 DEF Points, FileExists, TemplateInv, SourcesApart
  <2> QED
    BY <2>1, <2>2
<1>14. ObjectsTrue' /\ SourcesApart'
  <2>1. SourcesApart'
    BY <1>13 DEF SourcesApart, FileExists
  <2>2. ObjectsTrue'
    BY <1>0, <1>13, ObjectsRest DEF TemplateInv
  <2> QED
    BY <2>1, <2>2
<1>15. JobFilesApproved'
  BY <1>0, JobsRest
<1> QED
  BY <1>8, <1>9, <1>10, <1>11, <1>12, <1>14, <1>15, InvFrom

LEMMA VersionDeleted ==
    ASSUME TemplateInv, NEW v \in Versions, DeleteVersion(v)
    PROVE  StepTrue
<1> DEFINE gone == UNION {Refs(f) : f \in FilesOf(v)}
<1>0. /\ Shapes /\ ver \in [Versions -> VersionRow] /\ file \in [Files -> FileRow]
      /\ active # v /\ ver' = [ver EXCEPT ![v] = BlankVersion("deleted")]
      /\ file' = [f \in Files |-> IF f \in FilesOf(v) THEN BlankFile("deleted") ELSE file[f]]
      /\ Release(gone, {}) /\ sess' = Outdated({v}, FilesOf(v))
      /\ UNCHANGED <<active, objects, jobs, unacked>>
  BY ShapesNow DEF TemplateInv, ContentInv, DeleteVersion
<1>1. /\ BlankVersion("deleted") \in VersionRow /\ BlankVersion("deleted").status = "deleted"
      /\ BlankVersion("deleted").report = NoContent
      /\ BlankFile("deleted") \in FileRow /\ BlankFile("deleted").status = "deleted"
  BY BlankRows DEF VersionStatus, FileStatus
<1>2. /\ ver' \in [Versions -> VersionRow] /\ ver'[v].status = "deleted" /\ ver'[v].report = NoContent
      /\ \A w \in Versions \ {v} : ver'[w] = ver[w]
  BY <1>0, <1>1
<1>3. /\ file' \in [Files -> FileRow]
      /\ \A f \in Files : f \notin FilesOf(v) => file'[f] = file[f]
      /\ \A f \in FilesOf(v) : file'[f].status = "deleted"
  <2>1. FilesOf(v) \subseteq Files
    BY DEF FilesOf
  <2> HIDE DEF BlankFile
  <2> QED
    BY <1>0, <1>1, <2>1
<1>4. \A f \in Files : FileExists(f)' => f \notin FilesOf(v) /\ FileExists(f) /\ file'[f] = file[f] /\ file[f].ver # v
  BY <1>3 DEF FileExists, FilesOf
<1>5. gone \in SUBSET (Objects \X Files) /\ \A p \in gone : p[2] \in FilesOf(v)
  <2>1. ASSUME NEW f \in FilesOf(v) PROVE Refs(f) \subseteq Objects \X Files /\ \A p \in Refs(f) : p[2] = f
    BY <1>0 DEF FilesOf, FileExists, Refs, Derived, Shapes
  <2> QED
    BY <2>1
<1> HIDE DEF gone
<1>6. /\ SessionsKept /\ \A t \in Sessions : Fields(sess'[t], sess[t]) \/ sess'[t] = Idle
      /\ \A t \in Sessions : sess'[t].stage \in VersionStage /\ sess'[t].ver \in {v} => ~sess'[t].fresh
  BY <1>0, OthersOutdated
<1>7. Shapes'
  <2>1. owners' \subseteq Objects \X Files /\ ledger' \in [Objects -> Retention]
    BY <1>0, <1>5, Released DEF Shapes
  <2>2. FilesFit(file')
    BY <1>0, <1>4, ShapesNow DEF FilesFit, FileExists
  <2> QED
    BY <1>0, <1>2, <1>3, <1>6, <2>1, <2>2, ShapesNow, ShapesFrom
<1>8. ASSUME NEW w \in Versions PROVE VersionStep(w)
  <2>1. CASE w = v
    <3>1. Edited(v)
      BY <1>2, <1>4, <1>6 DEF Edited
    <3> QED
      BY <2>1, <3>1 DEF VersionStep
  <2>2. CASE w # v
    <3>1. ASSUME NEW f \in Files, (FileExists(f) /\ file[f].ver = w) \/ (FileExists(f)' /\ file'[f].ver = w)
          PROVE  file'[f] = file[f]
      BY <1>3, <1>4, <2>2, <3>1 DEF FilesOf
    <3> QED
      BY <1>2, <2>2, <3>1 DEF VersionStep, SameContent
  <2> QED
    BY <2>1, <2>2
<1>9. \A w \in Versions : ver'[w].status = "active" <=> active' = w
  BY <1>0, <1>2 DEF TemplateInv, ContentInv, VersionsTrue
<1>10. LedgerTrue'
  <2>1. ASSUME NEW f \in Files, FileExists(f)' PROVE Refs(f)' \subseteq (owners \ gone) \cup {}
    <3>1. f \notin FilesOf(v) /\ file'[f] = file[f]
      BY <1>4, <2>1
    <3>2. Refs(f)' \subseteq owners /\ Refs(f)' = Refs(f) /\ \A p \in Refs(f) : p[2] = f
      BY <1>0, <2>1, <3>1, RefsKept DEF TemplateInv
    <3> QED
      BY <1>5, <3>1, <3>2
  <2>2. {} \in SUBSET (Objects \X Files)
    OBVIOUS
  <2> QED
    BY <1>0, <1>5, <1>7, <2>1, <2>2, LedgerKept DEF TemplateInv
<1>11. ObjectsTrue' /\ SourcesApart'
  <2>1. ASSUME NEW t \in Sessions, Holds(sess'[t])
        PROVE  Holds(sess[t]) /\ sess'[t].obj = sess[t].obj /\ sess'[t].stage = sess[t].stage
    BY <1>6, <2>1, IdleTrue DEF Fields, Holds
  <2>2. ASSUME NEW f \in Files, FileExists(f)'
        PROVE  FileExists(f) /\ Points(f)' \subseteq Points(f) /\ file'[f].src # file'[f].comp
    BY <1>4, <2>2 DEF Points, TemplateInv, SourcesApart
  <2>3. ObjectsTrue'
    BY <1>0, <2>1, <2>2, ObjectsRest DEF TemplateInv
  <2>4. SourcesApart'
    BY <2>2 DEF SourcesApart, FileExists
  <2> QED
    BY <2>3, <2>4
<1>12. JobFilesApproved'
  BY <1>0, JobsRest
<1>13. \A t \in Sessions : Fields(sess'[t], sess[t]) \/ (ValidationTrue(sess[t])' /\ FreezeTrue(sess[t])')
  <2>1. ASSUME NEW t \in Sessions, sess'[t] = Idle PROVE ValidationTrue(sess[t])' /\ FreezeTrue(sess[t])'
    BY <2>1 DEF ValidationTrue, FreezeTrue, Idle, VersionStage
  <2> QED
    BY <1>6, <2>1
<1> QED
  BY <1>7, <1>8, <1>9, <1>10, <1>11, <1>12, <1>13, InvFrom

LEMMA ReclamationPlanned ==
    ASSUME TemplateInv, NEW o \in Objects, PlanReclamation(o)
    PROVE  StepTrue
<1>0. /\ Shapes /\ ledger \in [Objects -> Retention]
      /\ \A f \in Files : <<o, f>> \notin owners
      /\ ledger' = [ledger EXCEPT ![o] = "reclaim_candidate"]
      /\ UNCHANGED <<active, ver, file, owners, objects, jobs, sess, unacked>>
  BY ShapesNow DEF TemplateInv, ContentInv, PlanReclamation, tables
<1>1. ledger' \in [Objects -> Retention] /\ \A p \in Objects \ {o} : ledger'[p] = ledger[p]
  BY <1>0 DEF Retention
<1>2. SessionsKept /\ \A t \in Sessions : Fields(sess'[t], sess[t])
  BY <1>0, ShapesNow, FieldsSame DEF SessionsKept
<1>3. Shapes'
  BY <1>0, <1>1, <1>2, ShapesNow, ShapesFrom
<1>4. LedgerTrue'
  BY <1>0, <1>1 DEF TemplateInv, LedgerTrue, FileExists, Refs, Derived
<1>5. ObjectsTrue' /\ SourcesApart'
  BY <1>0 DEF TemplateInv, ObjectsTrue, SourcesApart, Points, FileExists
<1>6. \A w \in Versions : VersionStep(w)
  BY <1>0, RowsRest
<1>7. \A w \in Versions : ver'[w].status = "active" <=> active' = w
  BY <1>0 DEF TemplateInv, ContentInv, VersionsTrue
<1>8. JobFilesApproved'
  BY <1>0, JobsRest
<1> QED
  BY <1>2, <1>3, <1>4, <1>5, <1>6, <1>7, <1>8, InvFrom

----------------------------------------------------------------------------
(* The theorems.                                                           *)

LEMMA InitialInv == Init => TemplateInv
<1> SUFFICES ASSUME Init PROVE TemplateInv
  OBVIOUS
<1>1. Shapes
  BY InitialShapes
<1>2. \A f \in Files : ~FileExists(f)
  BY DEF Init, FileExists, BlankFile
<1>3. \A v \in Versions : ver[v].status = "unborn" /\ ver[v].report = NoContent
  BY DEF Init, BlankVersion
<1>4. VersionsTrue
  BY <1>2, <1>3, TemplateAssumption DEF VersionsTrue, VersionExists, Init
<1>5. \A s \in Sessions : ValidationTrue(sess[s]) /\ FreezeTrue(sess[s]) /\ ~Holds(sess[s])
  BY IdleTrue DEF Init
<1>6. JobFilesApproved /\ LedgerTrue /\ ObjectsTrue /\ SourcesApart
  BY <1>2, <1>5 DEF Init, JobFilesApproved, LedgerTrue, ObjectsTrue, SourcesApart
<1> QED
  BY <1>1, <1>4, <1>5, <1>6 DEF TemplateInv, ContentInv

\* Every request and every step of a session keeps the invariant.
LEMMA NextInv ==
    ASSUME TemplateInv, Next
    PROVE  StepTrue
<1>1. ASSUME NEW v \in Versions, VersionRequest(v) PROVE StepTrue
  BY <1>1, VersionCreated, VersionDeleted, VersionActivated, VersionDeactivated, VersionUpdated,
     VersionCloned DEF VersionRequest
<1>2. ASSUME NEW f \in Files, FileRequest(f) PROVE StepTrue
  BY <1>2, FileRenamed, FileDeleted, FileUpdated DEF FileRequest
<1>3. ASSUME NEW o \in Objects, PlanReclamation(o) PROVE StepTrue
  BY <1>3, ReclamationPlanned
<1>4. ASSUME NEW s \in Sessions, SessionRequest(s) PROVE StepTrue
  BY <1>4, SourceUploaded, SourceCompiled, SessionBeginsRead DEF SessionRequest
<1>5. ASSUME NEW s \in Sessions, SessionStep(s) PROVE StepTrue
  <2>1. ASSUME Abandon(s) PROVE StepTrue
    BY <2>1, SessionEnds DEF Abandon
  <2> QED
    BY <1>5, <2>1, FileAdded, InspectionRecorded, CompilationRecorded, WriteFailed, UploadUndone,
       FilesRead, ValidationRecorded, FilesFrozen, JobInserted DEF SessionStep
<1> QED
  BY <1>1, <1>2, <1>3, <1>4, <1>5 DEF Next

LEMMA StutterInv ==
    ASSUME TemplateInv, UNCHANGED vars
    PROVE  StepTrue
<1>0. /\ UNCHANGED <<tables, storage, objects, jobs, unacked>> /\ UNCHANGED sess
  BY DEF vars, tables, storage
<1>1. SessionsKept /\ \A t \in Sessions : Fields(sess'[t], sess[t])
  BY <1>0, ShapesNow, FieldsSame DEF SessionsKept, TemplateInv, ContentInv
<1>2. \A w \in Versions : VersionStep(w)
  BY <1>0, RowsRest DEF tables
<1>3. \A v \in Versions : ver'[v].status = "active" <=> active' = v
  BY <1>0 DEF TemplateInv, ContentInv, VersionsTrue, tables
<1> QED
  BY <1>0, <1>1, <1>2, <1>3, ShapesNow, VersionWritten DEF tables, TemplateInv, ContentInv

\* The invariant above, in every reachable state.
THEOREM TemplateInvariant == Spec => []TemplateInv
<1>1. TemplateInv /\ [Next]_vars => TemplateInv'
  BY NextInv, StutterInv DEF StepTrue
<1> QED
  BY InitialInv, <1>1, PTL DEF Spec

\* Every row, session and job keeps the shape its table declares.
THEOREM TemplateTypeCorrect == Spec => []TypeOK
<1>1. TemplateInv => TypeOK
  BY DEF TemplateInv, ContentInv, Shapes
<1> QED
  BY TemplateInvariant, <1>1, PTL

\* The activation gate: what is active is what its last validation approved,
\* whatever was being uploaded, compiled, inspected or validated meanwhile.
THEOREM ActiveIsApprovedHolds == Spec => []ActiveIsApproved
<1>1. TemplateInv => ActiveIsApproved
  <2> SUFFICES ASSUME TemplateInv PROVE ActiveIsApproved
    OBVIOUS
  <2>1. VersionsTrue /\ active \in Versions \cup {NoVersion}
    BY ShapesNow DEF TemplateInv, ContentInv
  <2>2. ASSUME active # NoVersion PROVE Approved(active)
    BY <2>1, <2>2 DEF VersionsTrue, VersionExists
  <2> QED
    BY <2>1, <2>2 DEF ActiveIsApproved, VersionsTrue, Approved, Sound
<1> QED
  BY TemplateInvariant, <1>1, PTL

\* A version that has once been active keeps its manifest and its files until it
\* is deleted as a whole.
THEOREM OnceActiveFixedHolds == Spec => OnceActiveFixed
<1> DEFINE Fixed == \A v \in Versions :
             ver[v].status \in {"active", "retired"} =>
               \/ ver'[v].status = "deleted"
               \/ ver'[v].status \in {"active", "retired"} /\ Content(v)' = Content(v)
<1>1. ASSUME TemplateInv, [Next]_vars PROVE Fixed
  <2>1. \A w \in Versions : VersionStep(w)
    BY <1>1, NextInv, StutterInv DEF StepTrue
  <2>2. ASSUME NEW v \in Versions, ver[v].status \in {"active", "retired"}
        PROVE  \/ ver'[v].status = "deleted"
               \/ ver'[v].status \in {"active", "retired"} /\ Content(v)' = Content(v)
    <3>1. CASE Edited(v)
      BY <2>2, <3>1 DEF Edited
    <3>2. CASE ~Edited(v)
      <4>1. SameContent(v) /\ ver'[v].status \in {"active", "retired"}
        BY <2>1, <2>2, <3>2 DEF VersionStep
      <4> QED
        BY <4>1, SameContentMeans
    <3> QED
      BY <3>1, <3>2
  <2> QED
    BY <2>2
<1>2. TemplateInv /\ [Next]_vars => [Fixed]_vars
  BY <1>1
<1>3. Spec => [][Fixed]_vars
  <2> HIDE DEF Fixed
  <2> QED
    BY TemplateInvariant, <1>2, PTL DEF Spec
<1> QED
  BY <1>3 DEF OnceActiveFixed

\* What a file row points to is active in the ledger, shared or not.
THEOREM FileObjectsKeptHolds == Spec => []FileObjectsKept
<1>1. TemplateInv => FileObjectsKept
  <2> SUFFICES ASSUME TemplateInv, NEW f \in Files, FileExists(f), NEW o \in Points(f)
               PROVE  ledger[o] = "active"
    BY DEF FileObjectsKept, Points
  <2>1. o \in Objects
    BY ShapesNow DEF TemplateInv, ContentInv, Points, FileRow
  <2>2. <<o, f>> \in owners
    BY <2>1 DEF TemplateInv, LedgerTrue, Points, Refs, Derived
  <2> QED
    BY <2>1, <2>2 DEF TemplateInv, LedgerTrue
<1> QED
  BY TemplateInvariant, <1>1, PTL

\* What a file row points to is stored, unless the answer to its registration
\* was lost: no clean-up after another failed request deletes it.
THEOREM FileObjectsStoredHolds == Spec => []FileObjectsStored
<1>1. TemplateInv => FileObjectsStored
  BY DEF TemplateInv, ObjectsTrue, FileObjectsStored, Points
<1> QED
  BY TemplateInvariant, <1>1, PTL

\* A job freezes the files whose hash was approved.
THEOREM JobFilesApprovedHolds == Spec => []JobFilesApproved
<1>1. TemplateInv => JobFilesApproved
  BY DEF TemplateInv, ContentInv
<1> QED
  BY TemplateInvariant, <1>1, PTL

----------------------------------------------------------------------------
(* The refinement of TemplateRelease.                                      *)

\* A session that goes on, or is outdated by somebody's edit, holds what it held.
LEMMA HeldSame ==
    ASSUME NEW x, NEW y, Fields(x, y)
    PROVE  HeldBy(x) = HeldBy(y)
BY DEF Fields, HeldBy

\* A session that is not between the two reads of a snapshot holds nothing.
LEMMA HeldNothing ==
    ASSUME NEW x, x.stage \notin {"freezing", "frozen"}
    PROVE  HeldBy(x) = Promise!Nothing
BY DEF HeldBy, Promise!Nothing

LEMMA IdleHeld == Idle.stage = "idle"
BY DEF Idle

\* The sessions before and after a step, when others are outdated by it.
LEMMA OthersHeld ==
    ASSUME TemplateInv, NEW vs, NEW fs
    PROVE  /\ Outdated(vs, fs) \in [Sessions -> Session]
           /\ \A t \in Sessions : Fields(Outdated(vs, fs)[t], sess[t])
           /\ sess \in [Sessions -> Session] /\ \A t \in Sessions : Fields(sess[t], sess[t])
BY OutdatedSessions, FieldsSame, ShapesNow DEF TemplateInv, ContentInv

\* No version is deleted.
NoneDeleted == \A w \in Versions : ver'[w].status = "deleted" => ver[w].status = "deleted"

\* Only deletion and a change of the active version are seen from outside:
\* whatever else happens to a version, it stays open, or withdrawn as it was.
LEMMA VersionsUnseen ==
    ASSUME TemplateInv, StepTrue, active' = active, NoneDeleted
    PROVE  SeenStage' = SeenStage /\ SeenContent' = SeenContent
<1>1. /\ \A w \in Versions : ver[w].status = "active" <=> active = w
      /\ \A w \in Versions : ver'[w].status = "active" <=> active = w
  BY DEF StepTrue, TemplateInv, ContentInv, VersionsTrue
<1>2. ASSUME NEW w \in Versions
      PROVE  /\ Seen(ver'[w].status) = Seen(ver[w].status)
             /\ ver'[w].status \in {"active", "retired"} <=> ver[w].status \in {"active", "retired"}
             /\ ver[w].status \in {"active", "retired"} => SameContent(w)
  <2>1. VersionStep(w) /\ (ver'[w].status = "deleted" => ver[w].status = "deleted")
    BY DEF StepTrue, NoneDeleted
  <2>2. CASE SameContent(w) /\ ver'[w] = ver[w]
    BY <2>2
  <2>3. CASE Edited(w)
    BY <2>1, <2>3 DEF Edited, Seen
  <2>4. CASE SameContent(w) /\ ver[w].status = "active" /\ ver'[w].status = "retired"
    BY <1>1, <2>4
  <2>5. CASE SameContent(w) /\ ver[w].status \in {"ready", "retired"} /\ ver'[w].status = "active"
    BY <1>1, <2>5
  <2>6. CASE /\ SameContent(w) /\ ver[w].status \in {"draft", "ready", "retired"}
             /\ ver'[w].status \in {"draft", "ready", "retired"}
             /\ ver'[w].status = "retired" <=> ver[w].status = "retired"
    BY <2>6 DEF Seen
  <2> QED
    BY <2>1, <2>2, <2>3, <2>4, <2>5, <2>6 DEF VersionStep
<1>3. ASSUME NEW w \in Versions, ver[w].status \in {"active", "retired"}
      PROVE  Content(w)' = Content(w)
  BY <1>2, <1>3, SameContentMeans
<1> QED
  BY <1>2, <1>3 DEF SeenStage, SeenContent

\* A step that no job sees.
LEMMA StepUnseen ==
    ASSUME TemplateInv, StepTrue, UNCHANGED <<active, jobs>>, NoneDeleted,
           \A t \in Sessions : HeldBy(sess'[t]) = HeldBy(sess[t])
    PROVE  UNCHANGED Promise!vars
<1>1. Held' = Held
  BY DEF Held
<1> QED
  BY <1>1, VersionsUnseen DEF Promise!vars

\* A session that goes on or ends without a snapshot gives back what it held.
LEMMA SessionGivesBack ==
    ASSUME TemplateInv, StepTrue, UNCHANGED <<active, jobs>>, NoneDeleted,
           NEW others \in [Sessions -> Session], \A t \in Sessions : Fields(others[t], sess[t]),
           NEW s \in Sessions, NEW x, x.stage \notin {"freezing", "frozen"},
           sess' = [others EXCEPT ![s] = x]
    PROVE  Promise!GiveBack(s)
<1>1. sess'[s] = x /\ \A t \in Sessions \ {s} : sess'[t] = others[t]
  OBVIOUS
<1>2. HeldBy(sess'[s]) = Promise!Nothing /\ \A t \in Sessions \ {s} : HeldBy(sess'[t]) = HeldBy(sess[t])
  BY <1>1, HeldSame, HeldNothing
<1>3. Held' = [Held EXCEPT ![s] = Promise!Nothing]
  <2> HIDE DEF Promise!Nothing
  <2>1. Held' = [t \in Sessions |-> HeldBy(sess'[t])]
    BY DEF Held
  <2> QED
    BY <1>2, <2>1 DEF Held
<1> QED
  BY <1>3, VersionsUnseen DEF Promise!GiveBack

\* Which steps delete no version, by what they do to the rows of versions.
LEMMA NoneDeletedBy ==
    ASSUME Shapes, \/ ver' = ver
                   \/ \E u \in Versions : ver' = Invalidate(u)
                   \/ \E u \in Versions : \E row : row.status # "deleted" /\ ver' = [ver EXCEPT ![u] = row]
    PROVE  NoneDeleted
<1>1. ver \in [Versions -> VersionRow]
  BY ShapesNow
<1>2. CASE \E u \in Versions : ver' = Invalidate(u)
  BY <1>2, Invalidated DEF NoneDeleted
<1>3. CASE \E u \in Versions : \E row : row.status # "deleted" /\ ver' = [ver EXCEPT ![u] = row]
  BY <1>1, <1>3 DEF NoneDeleted
<1> QED
  BY <1>2, <1>3 DEF NoneDeleted

\* Requests about a version, other than the three that jobs see.
LEMMA VersionRequestUnseen ==
    ASSUME TemplateInv, StepTrue, NEW v \in Versions,
           \/ CreateVersion(v)
           \/ \E m \in Manifests : UpdateVersion(v, m)
           \/ \E c \in Versions : CloneVersion(v, c)
    PROVE  UNCHANGED Promise!vars
<1>1. UNCHANGED <<active, jobs>> /\ (sess' = sess \/ \E vs, fs : sess' = Outdated(vs, fs))
  BY DEF CreateVersion, UpdateVersion, CloneVersion
<1>2. \A t \in Sessions : HeldBy(sess'[t]) = HeldBy(sess[t])
  BY <1>1, OthersHeld, HeldSame
<1>3. Shapes /\ ver \in [Versions -> VersionRow]
  BY ShapesNow DEF TemplateInv, ContentInv
<1>4. NoneDeleted
  <2>1. CASE CreateVersion(v)
    <3>1. BlankVersion("draft").status # "deleted"
      BY DEF BlankVersion
    <3> QED
      BY <1>3, <2>1, <3>1, NoneDeletedBy DEF CreateVersion
  <2>2. CASE \E c \in Versions : CloneVersion(v, c)
    <3> DEFINE row == [BlankVersion("draft") EXCEPT !.manifest = ver[v].manifest]
    <3>1. row.status # "deleted"
      BY DEF BlankVersion
    <3>2. \E c \in Versions : ver' = [ver EXCEPT ![c] = row]
      BY <2>2 DEF CloneVersion
    <3> HIDE DEF row
    <3> QED
      BY <1>3, <3>1, <3>2, NoneDeletedBy
  <2>3. CASE \E m \in Manifests : UpdateVersion(v, m)
    <3>1. PICK m \in Manifests : ver' = [Invalidate(v) EXCEPT ![v].manifest = m]
      BY <2>3 DEF UpdateVersion
    <3>2. /\ Invalidate(v) \in [Versions -> VersionRow] /\ Invalidate(v)[v].status = ver[v].status
          /\ \A w \in Versions \ {v} : Invalidate(v)[w] = ver[w]
      BY <1>3, Invalidated
    <3>3. \A w \in Versions : ver'[w].status = ver[w].status
      BY <3>1, <3>2 DEF VersionRow
    <3> QED
      BY <3>3 DEF NoneDeleted
  <2> QED
    BY <2>1, <2>2, <2>3
<1> QED
  BY <1>1, <1>2, <1>4, StepUnseen

\* Requests about a file: of a draft, hence of nothing released.
LEMMA FileRequestUnseen ==
    ASSUME TemplateInv, StepTrue, NEW f \in Files,
           \/ RenameFile(f) \/ DeleteFile(f)
           \/ \E b \in Bindings \cup {file[f].binding} : UpdateFile(f, b)
    PROVE  UNCHANGED Promise!vars
<1>1. /\ UNCHANGED <<active, jobs>> /\ \E vs, fs : sess' = Outdated(vs, fs)
      /\ Drafted(f) /\ ver' = Invalidate(file[f].ver)
  BY DEF RenameFile, DeleteFile, UpdateFile
<1>2. \A t \in Sessions : HeldBy(sess'[t]) = HeldBy(sess[t])
  BY <1>1, OthersHeld, HeldSame
<1>3. NoneDeleted
  BY <1>1, DraftedRow, NoneDeletedBy DEF TemplateInv, ContentInv
<1> QED
  BY <1>1, <1>2, <1>3, StepUnseen

\* A session that begins, other than the first read of a snapshot.
LEMMA BeginningUnseen ==
    ASSUME TemplateInv, StepTrue, NEW s \in Sessions,
           \/ \E v \in Versions, o \in Objects : UploadSource(s, v, o)
           \/ \E f \in Files, b \in Bindings, o \in Objects : CompileSource(s, f, b, o)
           \/ \E f \in Files : BeginInspection(s, f)
           \/ \E v \in Versions : ReadVersion(s, v)
    PROVE  Promise!GiveBack(s)
<1>1. UNCHANGED <<active, jobs>> /\ ver' = ver
  BY DEF UploadSource, CompileSource, BeginInspection, ReadVersion, tables
<1>2. \E x : x.stage \notin {"freezing", "frozen"} /\ sess' = [sess EXCEPT ![s] = x]
  <2>1. CASE \E v \in Versions, o \in Objects : UploadSource(s, v, o)
    <3>1. PICK v \in Versions, o \in Objects : UploadSource(s, v, o)
      BY <2>1
    <3> DEFINE x == [Idle EXCEPT !.stage = "uploaded", !.ver = v, !.obj = o]
    <3>2. x.stage = "uploaded" /\ sess' = [sess EXCEPT ![s] = x]
      BY <3>1 DEF UploadSource, Begins, Idle
    <3> QED
      BY <3>2
  <2>2. CASE \E f \in Files, b \in Bindings, o \in Objects : CompileSource(s, f, b, o)
    <3>1. PICK f \in Files, b \in Bindings, o \in Objects : CompileSource(s, f, b, o)
      BY <2>2
    <3> DEFINE x == [Idle EXCEPT !.stage = "compiled", !.file = f, !.obj = o, !.binding = b]
    <3>2. x.stage = "compiled" /\ sess' = [sess EXCEPT ![s] = x]
      BY <3>1 DEF CompileSource, Begins, Idle
    <3> QED
      BY <3>2
  <2>3. CASE \E f \in Files : BeginInspection(s, f)
    <3>1. PICK f \in Files : BeginInspection(s, f)
      BY <2>3
    <3> DEFINE x == [Idle EXCEPT !.stage = "inspected", !.file = f]
    <3>2. x.stage = "inspected" /\ sess' = [sess EXCEPT ![s] = x]
      BY <3>1 DEF BeginInspection, Begins, Idle
    <3> QED
      BY <3>2
  <2>4. CASE \E v \in Versions : ReadVersion(s, v)
    <3>1. PICK v \in Versions : ReadVersion(s, v)
      BY <2>4
    <3> DEFINE x == [Idle EXCEPT !.stage = "reading", !.ver = v,
                                 !.content = [manifest |-> ver[v].manifest, files |-> {}]]
    <3>2. x.stage = "reading" /\ sess' = [sess EXCEPT ![s] = x]
      BY <3>1 DEF ReadVersion, Begins, Idle
    <3> QED
      BY <3>2
  <2> QED
    BY <2>1, <2>2, <2>3, <2>4
<1> QED
  BY <1>1, <1>2, OthersHeld, NoneDeletedBy, SessionGivesBack DEF TemplateInv, ContentInv

\* A session that goes on or ends, other than a job request that keeps or
\* records its snapshot.
LEMMA GoingOnUnseen ==
    ASSUME TemplateInv, StepTrue, NEW s \in Sessions,
           \/ \E f \in Files : AddFile(s, f)
           \/ RecordInspection(s) \/ RecordCompilation(s) \/ WriteFails(s) \/ Undo(s)
           \/ RecordValidation(s) \/ Abandon(s)
    PROVE  Promise!GiveBack(s)
<1>0. Shapes /\ sess[s] \in Session /\ SessionShape(sess[s]) /\ ver \in [Versions -> VersionRow]
  BY ShapesNow DEF TemplateInv, ContentInv
<1>1. /\ UNCHANGED <<active, jobs>>
      /\ \E others, x : /\ others = sess \/ \E vs, fs : others = Outdated(vs, fs)
                        /\ x = Idle \/ x = Undoing(s)
                        /\ sess' = [others EXCEPT ![s] = x]
  <2>1. CASE \E f \in Files : AddFile(s, f)
    BY <2>1, Zenon DEF AddFile, AddFileRow, Answered, Unanswered, Ends
  <2>2. CASE RecordCompilation(s)
    BY <2>2, Zenon DEF RecordCompilation, RecordCompiled, Answered, Unanswered, Ends
  <2>3. CASE RecordInspection(s)
    <3>1. CASE sess[s].fresh /\ Drafted(sess[s].file)
      BY <2>3, <3>1, Zenon DEF RecordInspection, Ends
    <3>2. CASE ~(sess[s].fresh /\ Drafted(sess[s].file))
      BY <2>3, <3>2, Zenon DEF RecordInspection, Ends
    <3> QED
      BY <3>1, <3>2
  <2>4. CASE RecordValidation(s)
    <3>1. CASE MayValidate(s)
      BY <2>4, <3>1, Zenon DEF RecordValidation, Ends
    <3>2. CASE ~MayValidate(s)
      BY <2>4, <3>2, Zenon DEF RecordValidation, Ends
    <3> QED
      BY <3>1, <3>2
  <2>5. CASE WriteFails(s)
    BY <2>5, Zenon DEF WriteFails, tables
  <2>6. CASE Undo(s) \/ Abandon(s)
    BY <2>6, Zenon DEF Undo, Abandon, Ends, tables
  <2> QED
    BY <2>1, <2>2, <2>3, <2>4, <2>5, <2>6
<1>2. Undoing(s).stage \notin {"freezing", "frozen"} /\ Idle.stage \notin {"freezing", "frozen"}
  BY <1>0, IdleHeld DEF Undoing, Session
<1>3. NoneDeleted
  <2>1. CASE \E f \in Files : AddFile(s, f)
    <3>1. sess[s].stage = "uploaded" /\ ver' = Invalidate(sess[s].ver)
      BY <2>1 DEF AddFile, AddFileRow
    <3>2. sess[s].ver \in Versions
      BY <1>0, <3>1 DEF SessionShape
    <3> QED
      BY <1>0, <3>1, <3>2, NoneDeletedBy
  <2>2. CASE RecordCompilation(s)
    <3>1. sess[s].stage = "compiled" /\ ver' = Invalidate(file[sess[s].file].ver) /\ Drafted(sess[s].file)
      BY <2>2 DEF RecordCompilation, RecordCompiled, MayRecord
    <3>2. sess[s].file \in Files
      BY <1>0, <3>1 DEF SessionShape, FileStage
    <3> QED
      BY <1>0, <3>1, <3>2, DraftedRow, NoneDeletedBy
  <2>3. CASE RecordInspection(s)
    <3>1. CASE sess[s].fresh /\ Drafted(sess[s].file)
      <4>1. sess[s].stage = "inspected" /\ ver' = Invalidate(file[sess[s].file].ver)
        BY <2>3, <3>1 DEF RecordInspection
      <4>2. sess[s].file \in Files
        BY <1>0, <4>1 DEF SessionShape, FileStage
      <4> QED
        BY <1>0, <3>1, <4>1, <4>2, DraftedRow, NoneDeletedBy
    <3>2. CASE ~(sess[s].fresh /\ Drafted(sess[s].file))
      <4>1. ver' = ver
        BY <2>3, <3>2, Zenon DEF RecordInspection
      <4> QED
        BY <1>0, <4>1, NoneDeletedBy
    <3> QED
      BY <3>1, <3>2
  <2>4. CASE RecordValidation(s)
    <3>1. PICK v \in Versions : v = sess[s].ver
      BY <1>0, <2>4 DEF SessionShape, VersionStage, RecordValidation
    <3>2. \/ ver' = ver
          \/ \E result, status : /\ status \in {ver[v].status, "ready", "draft"} /\ MayValidate(s)
                                 /\ ver' = [ver EXCEPT ![v].sha = result, ![v].report = result, ![v].status = status]
      <4>1. CASE ~MayValidate(s)
        BY <2>4, <4>1, Zenon DEF RecordValidation
      <4>2. CASE MayValidate(s)
        <5> DEFINE result == IF sess[s].passed THEN sess[s].content ELSE NoContent
                   status == IF ver[v].status = "retired" THEN "retired"
                             ELSE IF sess[s].passed THEN "ready" ELSE "draft"
        <5>1. ver' = [ver EXCEPT ![v].sha = result, ![v].report = result,
                                 ![v].status = IF @ = "retired" THEN @
                                               ELSE IF sess[s].passed THEN "ready" ELSE "draft"]
          BY <2>4, <3>1, <4>2 DEF RecordValidation
        <5> HIDE DEF result
        <5>2. ver' = [ver EXCEPT ![v].sha = result, ![v].report = result, ![v].status = status]
          BY <1>0, <5>1 DEF VersionRow
        <5>3. status \in {ver[v].status, "ready", "draft"}
          OBVIOUS
        <5> HIDE DEF status
        <5> QED
          BY <4>2, <5>2, <5>3
      <4> QED
        BY <4>1, <4>2
    <3>3. ASSUME NEW result, NEW status, status \in {ver[v].status, "ready", "draft"},
                 ver' = [ver EXCEPT ![v].sha = result, ![v].report = result, ![v].status = status]
          PROVE  NoneDeleted
      BY <1>0, <3>3 DEF NoneDeleted, VersionRow
    <3> QED
      BY <1>0, <3>2, <3>3, NoneDeletedBy
  <2>5. CASE WriteFails(s) \/ Undo(s) \/ Abandon(s)
    BY <1>0, <2>5, NoneDeletedBy DEF WriteFails, Undo, Abandon, tables
  <2> QED
    BY <2>1, <2>2, <2>3, <2>4, <2>5
<1>4. PICK others, x : /\ others = sess \/ \E vs, fs : others = Outdated(vs, fs)
                       /\ x = Idle \/ x = Undoing(s)
                       /\ sess' = [others EXCEPT ![s] = x]
  BY <1>1
<1>5. others \in [Sessions -> Session] /\ \A t \in Sessions : Fields(others[t], sess[t])
  BY <1>4, OthersHeld
<1>6. x.stage \notin {"freezing", "frozen"}
  BY <1>2, <1>4
<1> QED
  BY <1>1, <1>3, <1>4, <1>5, <1>6, SessionGivesBack

LEMMA HeldTyped ==
    ASSUME TemplateInv
    PROVE  /\ TypeOK /\ VersionsTrue /\ sess \in [Sessions -> Session]
           /\ \A s \in Sessions : SessionShape(sess[s]) /\ FreezeTrue(sess[s])
           /\ ver \in [Versions -> VersionRow] /\ active \in Versions \cup {NoVersion}
BY ShapesNow DEF TemplateInv, ContentInv, Shapes

\* Activation is a release: of whatever the version has come to be, or, when it
\* is active again, of what it was.
LEMMA ActivateReleases ==
    ASSUME TemplateInv, StepTrue, NEW v \in Versions, Activate(v)
    PROVE  Promise!Release(v)
<1>1. /\ ver[v].status \in {"ready", "retired"} /\ active' = v
      /\ sess' = Outdated({v, active}, {}) /\ jobs' = jobs
  BY DEF Activate
<1>2. /\ ver'[v].status = "active"
      /\ \A w \in Versions \ {v} : \/ active # w /\ ver'[w] = ver[w]
                                   \/ active = w /\ ver'[w].status = "retired"
      /\ \A w \in Versions : Content(w)' = Content(w)
      /\ \A w \in Versions : ver[w].status = "active" <=> active = w
  BY ActivatedRows, SameContentMeans, HeldTyped DEF VersionsTrue
<1>3. Held' = Held
  BY <1>1, OthersHeld, HeldSame DEF Held
<1>4. SeenStage[v] = IF ver[v].status = "ready" THEN "open" ELSE "withdrawn"
  BY <1>1 DEF SeenStage, Seen
<1>5. SeenStage' = [w \in Versions |-> IF w = v THEN "released"
                                       ELSE IF w = active THEN "withdrawn" ELSE SeenStage[w]]
  BY <1>2 DEF SeenStage, Seen
<1> DEFINE c == Content(v)
<1>6. SeenContent' = [SeenContent EXCEPT ![v] = c]
  <2>1. \A w \in Versions \ {v} :
            ver'[w].status \in {"active", "retired"} <=> ver[w].status \in {"active", "retired"}
    BY <1>2
  <2> QED
    BY <1>2, <2>1 DEF SeenContent
<1>7. c \in IF SeenStage[v] = "open" THEN ContentType ELSE {SeenContent[v]}
  <2>1. c \in ContentType
    BY HeldTyped, ContentTyped
  <2>2. ver[v].status = "retired" => SeenContent[v] = c
    BY DEF SeenContent
  <2> QED
    BY <1>1, <1>4, <2>1, <2>2
<1> HIDE DEF c
<1> QED
  BY <1>1, <1>3, <1>4, <1>5, <1>6, <1>7 DEF Promise!Release

\* Deactivation withdraws the version.
LEMMA DeactivateWithdraws ==
    ASSUME TemplateInv, StepTrue, NEW v \in Versions, Deactivate(v)
    PROVE  Promise!Withdraw(v)
<1>1. /\ active = v /\ ver[v].status = "active" /\ ver' = Retire(v) /\ active' = NoVersion
      /\ sess' = Outdated({v}, {}) /\ UNCHANGED <<jobs, file>> /\ Shapes
  BY DEF Deactivate, TemplateInv, ContentInv
<1>2. /\ ver'[v].status = "retired" /\ ver'[v].manifest = ver[v].manifest
      /\ \A w \in Versions \ {v} : ver'[w] = ver[w]
  BY <1>1, Retired
<1>3. \A w \in Versions : Content(w)' = Content(w)
  <2>1. \A w \in Versions : SameContent(w)
    BY <1>1, <1>2 DEF SameContent
  <2> QED
    BY <2>1, SameContentMeans
<1>4. Held' = Held
  BY <1>1, OthersHeld, HeldSame DEF Held
<1>5. SeenStage' = [SeenStage EXCEPT ![v] = "withdrawn"]
  BY <1>2 DEF SeenStage, Seen
<1>6. SeenContent' = SeenContent
  BY <1>1, <1>2, <1>3 DEF SeenContent
<1> QED
  BY <1>1, <1>4, <1>5, <1>6 DEF Promise!Withdraw

\* A version that goes is not the one released and not on record with a job.
LEMMA DeleteDiscards ==
    ASSUME TemplateInv, StepTrue, NEW v \in Versions, DeleteVersion(v)
    PROVE  Promise!Discard(v)
<1>1. /\ ver[v].status \in {"draft", "retired"} /\ \A j \in jobs : j.ver # v
      /\ ver' = [ver EXCEPT ![v] = BlankVersion("deleted")]
      /\ sess' = Outdated({v}, FilesOf(v)) /\ UNCHANGED <<active, jobs>>
      /\ ver \in [Versions -> VersionRow]
  BY HeldTyped DEF DeleteVersion
<1>2. ver'[v].status = "deleted" /\ \A w \in Versions \ {v} : ver'[w] = ver[w]
  BY <1>1 DEF BlankVersion
<1>3. \A w \in Versions \ {v} : ver[w].status \in {"active", "retired"} => Content(w)' = Content(w)
  <2>1. \A w \in Versions \ {v} : ver[w].status \in {"active", "retired"} => SameContent(w)
    BY <1>2 DEF StepTrue, VersionStep, Edited
  <2> QED
    BY <2>1, SameContentMeans
<1>4. Held' = Held
  BY <1>1, OthersHeld, HeldSame DEF Held
<1>5. SeenStage' = [SeenStage EXCEPT ![v] = "gone"]
  BY <1>2 DEF SeenStage, Seen
<1>6. SeenContent' = [SeenContent EXCEPT ![v] = NoContent]
  BY <1>2, <1>3 DEF SeenContent
<1>7. SeenStage[v] \in {"open", "withdrawn"}
  BY <1>1 DEF SeenStage, Seen
<1> QED
  BY <1>1, <1>4, <1>5, <1>6, <1>7 DEF Promise!Discard

\* The first read of a snapshot hands out what is released: the hash of the
\* active version is its content.
LEMMA FreezeHands ==
    ASSUME TemplateInv, StepTrue, NEW s \in Sessions, NEW v \in Versions, FreezeVersion(s, v)
    PROVE  Promise!Hand(s)
<1> DEFINE x == [Idle EXCEPT !.stage = "freezing", !.ver = v, !.content = ver[v].sha]
<1>1. /\ active = v /\ ver[v].status = "active" /\ sess' = [sess EXCEPT ![s] = x]
      /\ UNCHANGED <<active, jobs>> /\ ver' = ver
  BY DEF FreezeVersion, Begins, tables
<1>2. x.stage = "freezing" /\ x.ver = v /\ x.content = ver[v].sha
  BY DEF Idle
<1> HIDE DEF x
<1>3. ver[v].sha = Content(v) /\ v # NoVersion
  BY <1>1, HeldTyped, TemplateAssumption DEF VersionsTrue, VersionExists, Approved
<1>4. HeldBy(x) = [ver |-> active, content |-> SeenContent[active]]
  BY <1>1, <1>2, <1>3 DEF HeldBy, SeenContent
<1>5. \A t \in Sessions : sess'[t] = IF t = s THEN x ELSE sess[t]
  BY <1>1, HeldTyped
<1>6. Held' = [Held EXCEPT ![s] = [ver |-> active, content |-> SeenContent[active]]]
  BY <1>4, <1>5 DEF Held
<1>7. SeenStage' = SeenStage /\ SeenContent' = SeenContent
  <2>1. NoneDeleted
    BY <1>1 DEF NoneDeleted
  <2> QED
    BY <1>1, <2>1, VersionsUnseen
<1> QED
  BY <1>1, <1>3, <1>6, <1>7 DEF Promise!Hand

\* The later reads of a job request and of a validation leave it what it holds.
LEMMA ReadUnseen ==
    ASSUME TemplateInv, StepTrue, NEW s \in Sessions, ReadFiles(s) \/ FreezeFiles(s)
    PROVE  UNCHANGED Promise!vars \/ Promise!GiveBack(s)
<1>1. /\ UNCHANGED <<active, jobs>> /\ NoneDeleted
      /\ sess \in [Sessions -> Session] /\ sess[s] \in Session
  BY HeldTyped DEF ReadFiles, FreezeFiles, tables, NoneDeleted
<1>2. ASSUME NEW x, sess' = [sess EXCEPT ![s] = x],
             HeldBy(x) = HeldBy(sess[s])
      PROVE  UNCHANGED Promise!vars
  BY <1>1, <1>2, StepUnseen
<1>3. CASE ReadFiles(s)
  <2> DEFINE c == [sess[s].content EXCEPT !.files = FilesContent(FilesOf(sess[s].ver))]
  <2>1. PICK passed : sess' = [sess EXCEPT ![s].stage = "validated", ![s].passed = passed,
                                           ![s].content.files = FilesContent(FilesOf(sess[s].ver))]
    BY <1>3 DEF ReadFiles
  <2> DEFINE x == [[[sess[s] EXCEPT !.stage = "validated"] EXCEPT !.passed = passed] EXCEPT !.content = c]
  <2>2. sess' = [sess EXCEPT ![s] = x]
    BY <1>1, <2>1 DEF Session
  <2>3. x.stage = "validated" /\ sess[s].stage = "reading"
    BY <1>1, <1>3 DEF Session, ReadFiles
  <2> HIDE DEF x
  <2>4. HeldBy(x) = HeldBy(sess[s])
    BY <2>3, HeldNothing
  <2> QED
    BY <1>2, <2>2, <2>4
<1>4. CASE FreezeFiles(s)
  <2> DEFINE fs == {f \in FilesOf(sess[s].ver) : file[f].status = "ready"}
  <2>1. CASE SomeFiles(fs)
    <3> DEFINE fc == FilesContent(fs)
               x == [[sess[s] EXCEPT !.stage = "frozen"] EXCEPT !.files = fc]
    <3>1. sess' = [sess EXCEPT ![s].stage = "frozen", ![s].files = fc] /\ sess[s].stage = "freezing"
      BY <1>4, <2>1 DEF FreezeFiles
    <3> HIDE DEF fc
    <3>2. sess' = [sess EXCEPT ![s] = x]
      BY <1>1, <3>1 DEF Session
    <3>3. HeldBy(x) = HeldBy(sess[s])
      BY <1>1, <3>1 DEF HeldBy, Session
    <3> HIDE DEF x
    <3> QED
      BY <1>2, <3>2, <3>3
  <2>2. CASE ~SomeFiles(fs)
    <3>1. sess' = [sess EXCEPT ![s] = Idle]
      BY <1>4, <2>2, Zenon DEF FreezeFiles, Ends
    <3> QED
      BY <1>1, <3>1, IdleHeld, OthersHeld, SessionGivesBack
  <2> QED
    BY <2>1, <2>2
<1> QED
  BY <1>3, <1>4

\* The job records the snapshot it was handed, with all of its files.
LEMMA InsertRecords ==
    ASSUME TemplateInv, StepTrue, NEW s \in Sessions, InsertJob(s)
    PROVE  Promise!Record(s)
<1>1. /\ sess[s].stage = "frozen" /\ sess' = [sess EXCEPT ![s] = Idle]
      /\ jobs' = jobs \cup {[ver |-> sess[s].ver, sha |-> sess[s].content, files |-> sess[s].files]}
      /\ active' = active /\ ver' = ver
  BY DEF InsertJob, Ends, tables
<1>2. sess[s].files = sess[s].content.files /\ sess[s].ver \in Versions
  BY <1>1, HeldTyped DEF FreezeTrue, SessionShape
<1>3. Held[s] = [ver |-> sess[s].ver, content |-> sess[s].content]
  BY <1>1 DEF Held, HeldBy
<1>4. Held[s] # Promise!Nothing
  BY <1>2, <1>3, TemplateAssumption DEF Promise!Nothing
<1>5. Held' = [Held EXCEPT ![s] = Promise!Nothing]
  <2>1. \A t \in Sessions : sess'[t] = IF t = s THEN Idle ELSE sess[t]
    BY <1>1, HeldTyped
  <2>2. HeldBy(Idle) = Promise!Nothing
    BY IdleHeld, HeldNothing
  <2>3. Held' = [t \in Sessions |-> HeldBy(sess'[t])]
    BY DEF Held
  <2> HIDE DEF Promise!Nothing, Idle
  <2> QED
    BY <2>1, <2>2, <2>3 DEF Held
<1>6. SeenStage' = SeenStage /\ SeenContent' = SeenContent
  <2>1. NoneDeleted
    BY <1>1 DEF NoneDeleted
  <2> QED
    BY <1>1, <2>1, VersionsUnseen
<1> QED
  BY <1>1, <1>2, <1>3, <1>4, <1>5, <1>6 DEF Promise!Record

\* Nothing is released, handed out or recorded at first.
LEMMA PromiseInit == Init => Promise!Init
<1> SUFFICES ASSUME Init PROVE Promise!Init
  OBVIOUS
<1>1. \A v \in Versions : ver[v].status = "unborn"
  BY DEF Init, BlankVersion
<1>2. \A s \in Sessions : HeldBy(sess[s]) = Promise!Nothing
  BY IdleHeld, HeldNothing DEF Init
<1> QED
  BY <1>1, <1>2 DEF Init, Promise!Init, SeenStage, SeenContent, Held, Seen

\* Every step is a step of TemplateRelease, or is not seen there.
LEMMA PromiseStep ==
    ASSUME TemplateInv, [Next]_vars
    PROVE  [Promise!Next]_(Promise!vars)
<1>0. StepTrue
  BY NextInv, StutterInv
<1>1. CASE UNCHANGED vars
  BY <1>0, <1>1, StepUnseen DEF vars, NoneDeleted
<1>2. ASSUME NEW v \in Versions, VersionRequest(v)
      PROVE  Promise!Next \/ UNCHANGED Promise!vars
  <2>1. CASE CreateVersion(v) \/ (\E m \in Manifests : UpdateVersion(v, m)) \/ \E c \in Versions : CloneVersion(v, c)
    BY <1>0, <2>1, VersionRequestUnseen
  <2>2. CASE Activate(v) \/ Deactivate(v) \/ DeleteVersion(v)
    BY <1>0, <2>2, ActivateReleases, DeactivateWithdraws, DeleteDiscards DEF Promise!Next
  <2> QED
    BY <1>2, <2>1, <2>2 DEF VersionRequest
<1>3. ASSUME NEW f \in Files, FileRequest(f) PROVE UNCHANGED Promise!vars
  BY <1>0, <1>3, FileRequestUnseen DEF FileRequest
<1>4. ASSUME NEW o \in Objects, PlanReclamation(o) PROVE UNCHANGED Promise!vars
  BY <1>0, <1>4, StepUnseen DEF PlanReclamation, tables, NoneDeleted
<1>5. ASSUME NEW s \in Sessions, SessionRequest(s) PROVE Promise!Next
  BY <1>0, <1>5, BeginningUnseen, FreezeHands DEF SessionRequest, Promise!Next
<1>6. ASSUME NEW s \in Sessions, SessionStep(s)
      PROVE  Promise!Next \/ UNCHANGED Promise!vars
  <2>1. CASE ReadFiles(s) \/ FreezeFiles(s)
    BY <1>0, <2>1, ReadUnseen DEF Promise!Next
  <2>2. CASE InsertJob(s)
    BY <1>0, <2>2, InsertRecords DEF Promise!Next
  <2>3. CASE ~(ReadFiles(s) \/ FreezeFiles(s) \/ InsertJob(s))
    BY <1>0, <1>6, <2>3, GoingOnUnseen DEF SessionStep, Promise!Next
  <2> QED
    BY <2>1, <2>2, <2>3
<1> QED
  BY <1>1, <1>2, <1>3, <1>4, <1>5, <1>6 DEF Next

\* Template governance keeps its promise to the jobs: what is released is fixed,
\* a job is handed what is released at that moment, and records just that,
\* whatever is edited, validated, retired or deleted between the two reads of
\* the snapshot and the insertion of the job.
THEOREM ReleaseImplemented == Spec => ImplementsRelease
<1>1. Init => Promise!Init
  BY PromiseInit
<1>2. TemplateInv /\ [Next]_vars => [Promise!Next]_(Promise!vars)
  BY PromiseStep
<1> QED
  BY <1>1, <1>2, TemplateInvariant, PTL DEF Spec, ImplementsRelease, Promise!Spec
=============================================================================
