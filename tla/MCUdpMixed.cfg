CONSTANTS
    Session = {s1, s2, s3}
    FirstPort = 70
    EndPort = 76
    Bindable <- MCAlwaysAPair
    MaxConnects = 5
    MaxExtraSetups = 2
SPECIFICATION Spec
SYMMETRY Symmetry
CHECK_DEADLOCK FALSE
INVARIANTS UdpSessionHasPorts
