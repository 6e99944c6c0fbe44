SPECIFICATION Spec
CONSTANTS
    Workers = {w1, w2, w3}
    Segments = {s1}
    Ttls <- AnyTtl
INVARIANT TypeOK
PROPERTIES
    OnlyForgets
    StaleReadersRunOut
