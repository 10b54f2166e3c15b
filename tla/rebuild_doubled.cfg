SPECIFICATION GroupSpec
CONSTANTS
    Picture = {1, 2}
    Digest = {"a"}
    Rebuild = {1, 2}
    MaxChanges = 0
INVARIANT OneSimilarGroupPerPhoto
CHECK_DEADLOCK FALSE
