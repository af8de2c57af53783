\* A history is done when the whole feed is in it: no deadlock check.
SPECIFICATION FeedSpec
CONSTANTS
    Unknown = Unknown
    Feeds <- MCFeeds
    Km <- MCKm
    MaxKmPerUnit = 10
    HourLength = 2
    HoursPerDay = 6
    MFAWindow = 4
    MFAThreshold = 3
    MinLoginsToScore = 2
    MaxOrigins = 2
    DLPWindow = 3
    DLPThreshold = 2
    RecentWindow = 4
    RepeatThreshold = 2
    RepeatedIncidents = 2
    SustainedIncidents = 4
INVARIANTS
    BurstIsFound
    TravelIsFound
PROPERTIES
    NoHindsight
CHECK_DEADLOCK FALSE
