SPECIFICATION Spec
CONSTANTS
    DotWord = {"ghcr.io"}
    PlainWord = {"app"}
    Hex = {"hex"}
    Hex128 = {"hexhex"}
    Inputs <- McInputs
    MaxEntries = 2
    None = None
INVARIANTS
    TypeOK
    FindsItsImage
    OneEntryPerImage
    ListedNameFinds
    RunsWhatWasPulled
