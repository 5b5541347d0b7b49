\* Addresses that name a row that is gone.
CONSTANTS
    Typed = {"w", "bad"}
    Unfit = "bad"
    Repos = {"o/app", "o/lib"}
    Counts = {2, 60, 8192}
    Numbers = {0, 1, 2, 3, 4, 5, 6, 7, 8, 9, 10, 11, 30, 60, 4096, 8192}
    Numeral <- Decimal
    DashJobs = 1
    DashCards = 1
    JobsLimit = 2
    RepoJobs = 1
    Starts <- FirstDay
    Bookmarks <- OldBookmarks
    MaxSubmits = 1
    MaxOthers = 1
    MaxRedirects = 4
SPECIFICATION Spec
INVARIANT StaleIdsLandOnAPage
