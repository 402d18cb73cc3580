SPECIFICATION Spec
CONSTANTS
    d1 = d1
    d2 = d2
    i1 = i1
    i2 = i2
    Daemon = {d1, d2}
    Install = {i1, i2}
    Garbled = Garbled
    MaxStarts = 4
SYMMETRY Symmetry
INVARIANTS OwnerIsMarked OwnSentinelRecognised CredentialsOpenAccount BootstrapComplete
