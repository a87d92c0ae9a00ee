\* Chapter hashes and image names of varying length, one request task.
CONSTANTS
    Chapters <- MCChaptersVar
    Images <- MCImagesVar
    Digest <- MCDigest
    KeySpace <- MCKeySpaceVar
    ImageLen <- MCImageLen
    MaxImageLen = 2
    ValueHeader = 1
    KeyOverhead = 1
    Word = 16
    OverflowChecks = FALSE
    IOFaults = FALSE
    Procs = {p1}
    MinSizes = {0}
    MaxTime = 0
    MaxFiles = 1
    MaxShrinks = 0
SPECIFICATION Spec
INVARIANT ServedIsRequested
