SPECIFICATION Spec
CONSTANTS
    Proc = {p1, p2, p3}
    Digest = {d1}
    Sha512 = {}
    Inode = {i1, i2, i3, i4, i5}
    Size = 1
    Serialized = TRUE
    Faults = {"cut", "corrupt", "kill"}
    NoDigest = NoDigest
    NoInode = NoInode
SYMMETRY Symmetry
INVARIANTS
    TypeOK
    BlobsVerified
    ReadersSeeVerified
PROPERTIES
    CommittedNeverRewritten
    CasSpec
