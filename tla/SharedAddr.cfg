SPECIFICATION AddrSpec
CONSTANTS
    PeerAddr <- TwoV4
    WgAddr <- WgDualStack
    Storers = {i1, i2}
    Tracker = {e}
    Readers = {r}
INVARIANTS
    FieldwiseRegular
    TracksWgPeer
SYMMETRY IngressSymmetry
