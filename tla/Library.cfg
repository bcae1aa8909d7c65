SPECIFICATION Spec
CONSTANTS
    Requests = {r1, r2}
    Platforms = {ios, pc}
    PagePlatform = ios
    MaxUploads = 3
SYMMETRY Symmetry
CHECK_DEADLOCK FALSE
INVARIANTS TypeOK LoneUploadIsServed DeletedContentGone
