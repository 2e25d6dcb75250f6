\* Gate: one item, finding and confirmation, two review levels, two issuers.
\* Knowledge: two rules, two clerks.  Conversation: two callers, three requests.
\* Upload: two requests, two workers.  Graph: two jobs about two facts and a
\* finding.  Migration: three runs over two categories and one live upload.
\* Thread: two requests at a time, three in all, two cases, two tasks.
SPECIFICATION Spec
CONSTANTS
    Items = {i1}
    PackItems = {i1}
    Depth = 2
    Findings = {f1}
    Confirmations = {c1}
    Staff = {s1}
    Issuers = {u1, u2}
    NoIssuer = NoIssuer
    MaxClock = 2
    MaxBinding = 2
    MaxEdits = 6
    Versions = {v1}
    Releases = {r1}
    Rules = {a1, a2}
    Rulesets = {s1}
    RulesetOf <- MCRulesetOf
    Clerks = {k1, k2}
    NoVersion = NoVersion
    Callers = {q1, q2}
    NoCaller = NoCaller
    Keys = {t1}
    NoKey = NoKey
    Window = 2
    MaxRequests = 3
    Requests = {p1, p2}
    Workers = {w1, w2}
    MaxRequested = 2
    GraphJobs = {j1, j2}
    Facts = {x1, x2, z1}
    RuleFacts = {z1}
    MaxJobs = 2
    b1 = b1
    b2 = b2
    b3 = b3
    o1 = o1
    o2 = o2
    Contents <- MCContents
    Folders <- MCFolders
    FilesIn <- MCFilesIn
    Datasets = {"journal", "balance"}
    NoDataset = NoDataset
    DetectedAs <- MCDetectedAs
    ExpectedDataset <- MCExpectedDataset
    Batches = 2
    Reviewed = 1
    Uploaders = {l1}
    Operator = Operator
    MaxRuns = 3
    MaxUploads = 1
    Visitors = {n1, n2}
    Entities = {e1, e2}
    NoVisitor = NoVisitor
    MaxCases = 2
    MaxTasks = 2
    MaxVisits = 3
SYMMETRY Symmetry
INVARIANTS
    TypeOK
    PassedGateSawAll
    PublishedRulesVetted
    AnswerVersionsDistinct
    RememberedIsRecorded
    IdleMeansSettled
    CompletedWhenGraphed
    TrailTellsTrue
    CompletedBatchWhole
    RowsImportedOnce
    ViewAgreesWithGate
    TurnsStayInCase
    NoTwins
CHECK_DEADLOCK FALSE
