\* Two request tasks, up to two SSTs per CF (so compaction merges shadowed values), one shrink(4) in a debug build.
CONSTANTS
    Chapters <- MCChaptersFixed
    Images <- MCImagesFixed
    Digest <- MCDigest
    KeySpace <- MCKeySpaceFixed
    ImageLen <- MCImageLen
    MaxImageLen = 2
    ValueHeader = 1
    KeyOverhead = 1
    Word = 16
    OverflowChecks = TRUE
    IOFaults = FALSE
    Procs = {p1, p2}
    MinSizes = {4}
    MaxTime = 1
    MaxFiles = 2
    MaxShrinks = 1
SPECIFICATION Spec
PROPERTY ContractSpec
SYMMETRY MCSymmetry
