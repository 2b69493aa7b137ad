SPECIFICATION BusySpec
CONSTANTS
    Ports <- MCPorts
    SDPPort = 1
    MaxPackets = 3
INVARIANTS TypeOK OnePeer Accounted
PROPERTIES EndsOnCancel
