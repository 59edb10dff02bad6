SPECIFICATION FairSpec
CONSTANTS
    i1 = i1
    i2 = i2
    Image = {i1, i2}
    MaxEntries = 2
    Index <- MCIndex
    Damaged <- MCDamaged
    Misnamed = {i2}
    Pins <- MCPins
    Target <- MCTarget
    Access = {"open", "public", "private"}
    Bearers = {"none", "good", "weak", "expired"}
    MaxBlobs = 2
    NoDoc = NoDoc
    NoPlatform = NoPlatform
    NoVariant = NoVariant
INVARIANTS
    TypeOK
    PinnedUsed
    PlatformFirst
    HonestDigest
    RefusedWithReason
PROPERTIES
    PullEnds
