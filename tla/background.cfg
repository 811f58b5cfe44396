SPECIFICATION FairSpec
CONSTANTS
    Posts = {p1}
    Workers = {w1, w2}
    Scheduler = job
    MaxRequests = 2
    MaxPublishes = 1
    MaxEdits = 1
    MaxFaults = 1
    Audits = {a1}
    Places = {x, y}
    NoPlace = none
    MaxSelects = 2
    MaxDeaths = 1
CHECK_DEADLOCK FALSE
INVARIANTS TypeOK PublishedOnce PublicationsAreRecorded ResultIsOfThePlace
PROPERTIES JobPublishesApproved ApprovedIsHandled AuditsEnd
