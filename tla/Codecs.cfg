SPECIFICATION CodecSpec
CONSTANTS
    Messages <- MCMessages
    Values = {0, 1, 46, 47, 255}
    MaxResizes = 2
    Inputs <- MCInputs
    Alternatives <- MCAlternatives
    MaxTampers = 2
INVARIANTS
    RoundTrip
    Canonical
    DecodedIsUsable
CHECK_DEADLOCK FALSE
