SPECIFICATION Spec
CONSTANTS
    m1 = m1  m2 = m2
    tick = tick  sync = sync
    h1 = h1  h2 = h2  h3 = h3
    NoMessage = NoMessage  NoFile = NoFile
    Messages = {m1}
    Pollers = {tick, sync}
    Ticks = {}
    Names = {"cv.pdf", "cv.docx", "big.pdf", "scan.pdf"}
    Hashes = {h1, h2, h3}
    Inbox <- SingleInbox
    SafeId <- MCSafeId
    MaxAttempts = 2
    RaiseAt <- Awaits
    OutageKinds <- AllOutages
    MaxOutages = 1
INVARIANTS NoResumeLost NothingStranded UniqueContent CandidatesIndexed AttemptsBounded
SYMMETRY PollerSymmetry
