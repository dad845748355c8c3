SPECIFICATION Spec
CONSTANTS
    Writes = {w1}
    Encodings = {"utf-8", "base64"}
    Old = Old
    Nowhere = Nowhere
CHECK_DEADLOCK FALSE
PROPERTY CutUploadsTouchNothing
