SPECIFICATION FlashSpec
CONSTANTS
    k1 = k1
    k2 = k2
    Key = {k1, k2}
SYMMETRY SameKeys
INVARIANTS
    FlashLastsOneRequest
    PlainValuesStay
