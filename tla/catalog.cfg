SPECIFICATION MCSpec
CONSTANTS
    a = a
    Clients = {a}
    Titles = {"python", "data"}
    Languages = {"ru"}
    NoLanguage = NoLanguage
    SeedTitle <- MCSeedTitle
    SeedLanguage <- MCSeedLanguage
    MayBreak = {1}
    MaxId = 3
    MaxStarts = 2
    Names = {"cv"}
    MaxCandidate = 2
    Golden <- MCGolden
    Methods <- MCMethods
    Docs = {1, 2, 3, 4}
    FusionK = 60
    Scale = 7624512
INVARIANTS JobsTypeOK SeedsInOrder LabelsSound ReportComplete FusionSound MetricsSound PercentileNear
