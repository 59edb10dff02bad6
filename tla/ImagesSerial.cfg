SPECIFICATION FairSpec
CONSTANTS
    p1 = p1
    p2 = p2
    r1 = r1
    r2 = r2
    m1 = m1
    m2 = m2
    m3 = m3
    c1 = c1
    l1 = l1
    l2 = l2
    l3 = l3
    o1 = o1
    o2 = o2
    Proc = {p1, p2}
    Ref = {r1, r2}
    Manifest = {m1, m2, m3}
    Digest = {c1, l1, l2, l3}
    Blobs <- MCBlobs
    Gzip = {l1, l2}
    Published <- MCMoving
    Unpack <- MCMixed
    Root = {o1}
    OneWriter = FALSE
    Serialized = TRUE
    Killed = {"pull"}
    NoDigest = NoDigest
    NoFile = NoFile
    NoJob = NoJob
    NoManifest = NoManifest
    Torn = Torn
INVARIANTS
    MarkerComplete
    EntryUsable
PROPERTIES
    
    SavedReadable
    RmiRemovesRootfs
    EveryCommandEnds
