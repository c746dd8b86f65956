SPECIFICATION FairLinkSpec
CONSTANTS
    Slots = {s1, s2}
    TaskIDs = {t1, t2}
    NoTask = NoTask
    MaxGrants = 2
    MaxFailures = 3
INVARIANTS
    LinkTypeOK
    OutageAccounted
    ShownTasksExecute
PROPERTIES
    WorkerStops
