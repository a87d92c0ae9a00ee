\* Two request tasks on the two variants of one image, one shrinker, faults on.
CONSTANTS
    Chapters <- MCChaptersFixed
    Images <- MCImagesFixed
    Digest <- MCDigest
    KeySpace <- MCKeySpaceFixed
    ImageLen <- MCImageLen
    MaxImageLen = 2
    ValueHeader = 1
    KeyOverhead = 1
    Word = 16
    OverflowChecks = FALSE
    IOFaults = TRUE
    Procs = {p1, p2}
    MinSizes = {0, 4}
    MaxTime = 1
    MaxFiles = 1
    MaxShrinks = 1
SPECIFICATION Spec
INVARIANT ServedIsRequested
SYMMETRY MCSymmetry
