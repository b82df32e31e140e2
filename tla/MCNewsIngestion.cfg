CONSTANTS
    News <- MCNews
    Companies <- MCCompanies
    Listing <- MCListing
    Concurrency = 1
    MaxEvents = 2
    MaxDays = 3
SPECIFICATION FairSpec
INVARIANTS
    NewsOnce
    DetailsRecent
CHECK_DEADLOCK FALSE
PROPERTIES
    NewsPublished
