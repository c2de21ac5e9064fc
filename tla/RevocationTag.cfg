\* A tag that names a commit outside main.
SPECIFICATION Spec
CONSTANTS
    Tags = {t1}
    MaxLists = 1
    None = None
INVARIANT SignedTagIsOnMain
CHECK_DEADLOCK FALSE
