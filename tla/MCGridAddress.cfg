CONSTANTS
    LocalSizes = {1, 2}
    Widths = {0, 1}
    Pads = {0, 1}
    LocalOffset <- MCLocalOffset

SPECIFICATION Spec

INVARIANT TypeOK
INVARIANT AddrRoundTrip
INVARIANT VariantsAgree
