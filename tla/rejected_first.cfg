SPECIFICATION Spec
CONSTANTS
    m1 = m1  m2 = m2
    tick = tick  sync = sync
    h1 = h1  h2 = h2  h3 = h3
    NoMessage = NoMessage  NoFile = NoFile
    Messages = {m1}
    Pollers = {tick}
    Ticks = {tick}
    Names = {"cv.pdf", "photo.png"}
    Hashes = {h1, h2, h3}
    Inbox <- RejectedFirstInbox
    SafeId <- MCSafeId
    MaxAttempts = 3
    RaiseAt = {}
    OutageKinds = {}
    MaxOutages = 1
INVARIANT EveryAttachmentHandled
