SPECIFICATION FairSpec
CONSTANTS
    Proc = {p1, p2, p3}
    Digest = {d1}
    Sha512 = {}
    Inode = {i1, i2, i3, i4, i5}
    Size = 2
    Serialized = FALSE
    Faults = {}
    NoDigest = NoDigest
    NoInode = NoInode
PROPERTIES
    RaceConverges
    CasSpec
