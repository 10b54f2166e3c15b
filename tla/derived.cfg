\* The parts downstream of a scan.  They end, and a pure part stops at once.
SPECIFICATION Spec
CONSTANTS
    Photo = {1, 2, 3, 4}
    Slots = 2
    FetchLimit = 3
    Picture = {1, 2}
    Digest = {"a", "b"}
    Rebuild = {1, 2, 3}
    MaxChanges = 1
    Attempt = {1, 2}
    MaxRenames = 2
INVARIANTS
    DerivedTypeOK
    PoolBounds GroupsFromWholeLibrary
    OneGroupPerPhoto ListedWhole
    SentWhole TagNeverAhead
    SimilarGroupsExact EventsExact PagesExact PicturesUpright ScoresFair
PROPERTIES
    PassProgress LoneRebuildExact
CHECK_DEADLOCK FALSE
