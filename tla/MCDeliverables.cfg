\* Attachments: three requests over two inputs and two keys (or none), one fault.
\* Drafts: two generations at a time, three in all.  Facts: two writes by two
\* actors, one job.  Tickets: two requests at a time, five in all, two tickets.
SPECIFICATION MCSpec
CONSTANTS
    Requests = {r1, r2, r3}
    Inputs = {a, b}
    Keys = {k, l}
    NoKey = NoKey
    NoJob = NoJob
    MaxFaults = 1
    Makers = {m1, m2}
    MaxFacts = 1
    MaxEvidence = 1
    MaxGenerations = 3
    Kinds = {"manual_review", "material_extraction"}
    Actors = {g1, g2}
    Refs = {d1}
    NoRef = NoRef
    Values = {y1, y2}
    Slots <- MCSlots
    MaxPuts = 2
    Holders = {h1, h2}
    MaxTickets = 2
    MaxAccesses = 5
SYMMETRY Symmetry
INVARIANTS
    DeliverablesTypeOK
    LiveAnswersAgree
    ContextPresent
    OrphansOnlyAfterFaults
    VersionCoherent
    DeliveredCitationsKept
    RendersWhatWasAgreed
    DownloadedOnce
PROPERTY
    ImplementsRegister
CHECK_DEADLOCK FALSE
