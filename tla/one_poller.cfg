SPECIFICATION Spec
CONSTANTS
    m1 = m1  m2 = m2
    tick = tick  sync = sync
    h1 = h1  h2 = h2  h3 = h3
    NoMessage = NoMessage  NoFile = NoFile
    Messages = {m1, m2}
    Pollers = {tick}
    Ticks = {tick}
    Names = {"cv.pdf", "cv.docx", "big.pdf", "scan.pdf"}
    Hashes = {h1, h2, h3}
    Inbox <- MixedInbox
    SafeId <- MCSafeId
    MaxAttempts = 2
    RaiseAt <- Awaits
    OutageKinds = {"crash", "record"}
    MaxOutages = 1
INVARIANTS TypeOK NoResumeLost NothingStranded ReviewedOnce
PROPERTIES ImplementsLifecycle EventuallySettled
