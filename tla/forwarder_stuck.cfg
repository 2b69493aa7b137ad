SPECIFICATION FairSpec
CONSTANTS
    Ports <- MCPorts
    SDPPort = 1
    MaxPackets = 1
PROPERTIES CancelWakesReaders
