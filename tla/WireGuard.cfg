\* Three overlays, two of which share an interface name; one fault.
SPECIFICATION Spec
CONSTANTS
    Overlays <- MCOverlays
    MaxName = 2
    Peers = {p1}
    MaxChanges = 3
    MaxFaults = 1
INVARIANTS
    TypeOK
    ReadableOverlaysServed
PROPERTIES
    SkippedLeftAlone
    InterfacesConverge
