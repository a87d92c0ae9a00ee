\* One request task fills the cache, then shrink(0).
CONSTANTS
    Chapters <- MCChaptersFixed
    Images <- MCImagesFixed
    Digest <- MCDigest
    KeySpace <- MCKeySpaceFixed
    ImageLen <- MCImageLen
    MaxImageLen = 2
    ValueHeader = 1
    KeyOverhead = 1
    Word = 16
    OverflowChecks = FALSE
    IOFaults = FALSE
    Procs = {p1}
    MinSizes = {0}
    MaxTime = 0
    MaxFiles = 1
    MaxShrinks = 1
SPECIFICATION Spec
INVARIANT NoUnderflow
