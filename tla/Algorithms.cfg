SPECIFICATION Spec
CONSTANTS
    MaxByte = 3
    HeaderVersions = {1, 2}
    Simple = 0
    Extended = 2
    XorByte <- MCXorByte
    Digest <- MCDigest
    DigestSize = 2
    MaxPacketSize = 5
    FlagUnencrypted = 1
    Dialogues <- MCDialogues
    V4 <- MCV4
    V6 <- MCV6
    Ports <- MCPorts
    MaxUnits = 19
    Commands <- MCCommands
    Secret = "secret"
    Wrong = "wrong"
    Empty = ""
    Packets <- MCPackets
    Datas <- MCDatas
    Arguments <- MCArguments
    ArgTexts <- MCArgTexts
    Requests <- MCRequests
    Replies <- MCReplies
    Headers <- MCHeaders
    Streams <- MCStreams
    Configs <- MCConfigs
    Asks <- MCAsks
    Logins <- MCLogins
INVARIANTS
    WireRoundTrips
    DecodeExact
    StreamFraming
    
    
CHECK_DEADLOCK FALSE
