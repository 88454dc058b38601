CONSTANTS
    Contents = {c1, c2}
    Servers = {s}
    MaxVersions = 3
SPECIFICATION RegistrySpec
SYMMETRY Symmetry
INVARIANTS
    RegistryConsistent
    ServesPromoted
PROPERTIES
    ImplementsServedVersions
