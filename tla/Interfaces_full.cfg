SPECIFICATION Spec
CONSTANTS
    eth = eth
    wlan = wlan
    tun = tun
    Name <- MCName
    Flags <- MCFlags
    Cap = 2
    AddrCap = 2
    MaxEntries = 5
SYMMETRY MCSymmetry
INVARIANTS
    StopsWhenFull
