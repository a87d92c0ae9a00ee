\* new, up to two respawns, shutdown; two clients; bind may fail.
\* The process ends after a shutdown or a failed new, so deadlock is allowed.
CONSTANTS
    c1 = c1
    c2 = c2
    bad = bad
    k1 = k1
    k2 = k2
    Certs <- MCCerts
    ValidCerts <- MCValidCerts
    Clients <- MCClients
    BindFaults = TRUE
    MaxServers = 3
SPECIFICATION Spec
INVARIANTS HandleOwnsListener FailedRespawnLeavesNoListener
PROPERTY BindAfterRelease
SYMMETRY MCSymmetry
CHECK_DEADLOCK FALSE
