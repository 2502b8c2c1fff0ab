\* Two bitmaps and a temporary one, every call in every order.
CONSTANTS
    BITS_PER_LONG = 2
    MAX_ULONGS = 3
    Owned = {b1, b2}
    Temporary = tmp
SYMMETRY MCSymmetry
VIEW MCView
SPECIFICATION Spec
INVARIANTS TypeOK AnswersExact OrdersBySets InclusionExact
PROPERTIES Implements
