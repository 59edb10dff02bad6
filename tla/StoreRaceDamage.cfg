SPECIFICATION Spec
CONSTANTS
    Proc = {p1, p2}
    Digest = {d1}
    Sha512 = {}
    Inode = {i1, i2, i3, i4}
    Size = 1
    Serialized = FALSE
    Faults = {}
    NoDigest = NoDigest
    NoInode = NoInode
SYMMETRY Symmetry
INVARIANT BlobsVerified
