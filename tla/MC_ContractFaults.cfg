\* Two request tasks and one shrink(4) in a debug build, with every RocksDB read, write, iteration, delete and flush allowed to fail.
CONSTANTS
    Chapters <- MCChaptersFixed
    Images <- MCImagesFixed
    Digest <- MCDigest
    KeySpace <- MCKeySpaceFixed
    ImageLen <- MCImageLen
    MaxImageLen = 2
    ValueHeader = 1
    KeyOverhead = 1
    Word = 16
    OverflowChecks = TRUE
    IOFaults = TRUE
    Procs = {p1, p2}
    MinSizes = {4}
    MaxTime = 1
    MaxFiles = 1
    MaxShrinks = 1
SPECIFICATION Spec
PROPERTY ContractSpec
SYMMETRY MCSymmetry
