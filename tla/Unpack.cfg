SPECIFICATION Spec
CONSTANTS
    a = a
    ab = ab
    abc = abc
    e = e
    ec = ec
    f = f
    Path = {a, ab, abc, e, ec}
    Above <- MCAbove
    Root = Root
    Far = {f}
    Outer = Outer
    Target = {ab, Outer}
    Grafted <- MCGrafted
    NoPlace = NoPlace
    MaxLayers = 2
    MaxLinks = 2
    NoNode = NoNode
    Label = {"gzip", "tar", "zstd", "other"}
INVARIANTS
    TypeOK
    TreeClosed
PROPERTIES
    OverlaySteps
    OutsideKept
