\* Two runs of one mode and three moves of the operator; the second may be
\* the retry of the first.  Runs end: no deadlock check.
SPECIFICATION Spec
CONSTANTS
    r1 = r1
    r2 = r2
    Runs = {r1, r2}
    Modes <- MCModes
    Estates <- MCEstates
    IDOrder <- MCOrder
    Segment <- MCSegment
    MaxMoves = 3
    NoValue = NoValue
    Names = {"s3", "ec2"}
    Actions = {}
    Fields = {"type", "source", "created"}
    Values = {"service_account", "aws_iam", "old"}
    AgeOf <- MCAgeOf
    RotationMaxAge = 3
    IAMUsers = {"a_b_2"}
INVARIANTS
    ManifestIsTrue
    PRHoldsOnlyArtifacts
    AgeTellsStale
    SavesNeverDeadlock
CHECK_DEADLOCK FALSE
