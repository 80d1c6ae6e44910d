SPECIFICATION Spec
CONSTANTS
    Clients = {c1, c2}
    Names = {n1, n2}
    Devices = {d1, d2}
    NoDevice = NoDevice
    Pairs = {cel, fah}
    Defaults = cel
    LayoutLimit = 1
    MaxTroubles = 2
    MaxWishes = 3
SYMMETRY Symmetry
CHECK_DEADLOCK FALSE
INVARIANTS
    OfferIsTrue
PROPERTIES
    NothingOverwrittenUnseen
