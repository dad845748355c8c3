SPECIFICATION Spec
CONSTANTS
    Writes = {w1, w2, w3}
    Encodings = {"utf-8", "base64"}
    Old = Old
    Nowhere = Nowhere
CHECK_DEADLOCK FALSE
SYMMETRY Symmetry
INVARIANTS
    TypeOK
    LastWriteStands
    PartOnlyWhileDecoding
PROPERTIES
    CutOnlyUnlinks
    ImplementsContract
