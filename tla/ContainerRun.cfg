SPECIFICATION Spec
CONSTANTS
    Launch = {a, b}
    Tool = {wwn_containerd, apple_container}
    Signed = {wwn_containerd}
    Apart = TRUE
    Bridge = wwn_containerd
    Id = {wawona}
    None = None
INVARIANTS
    TypeOK
    OnlySignedRuns
    ContainerHasItsRun
    RunEndsWell
PROPERTY
    EveryLaunchEnds
