SPECIFICATION DeletionSpec
CONSTANTS
    m1 = m1  m2 = m2
    tick = tick
    h1 = h1  h2 = h2
    d1 = d1  d2 = d2
    NoMessage = NoMessage  NoFile = NoFile  NoCandidate = NoCandidate
    Messages = {m1, m2}
    Pollers = {tick}
    Ticks = {tick}
    Names = {"cv.pdf", "scan.pdf"}
    Hashes = {h1, h2}
    Inbox <- RepeatedInbox
    SafeId <- MCSafeId
    MaxAttempts = 1
    RaiseAt = {"commit"}
    OutageKinds = {"crash"}
    MaxOutages = 1
    Clients = {d1, d2}
    RequestFailAt = {"qdrant", "commit", "unlink"}
INVARIANTS RequestsTypeOK DeletedStaysDeleted LostOnlyByDeletion FilesIntact DownloadsAudited
PROPERTIES ReviewsGoWithCandidate
SYMMETRY ClientSymmetry
