SPECIFICATION FairSpec
CONSTANTS
    Devices <- MCDevices
    Ip <- MCIp
    Foreign <- MCForeign
    Scenarios <- MCScenarios
    QueueLen = 4
    Addrs = {1, 2, 3, 4}
INVARIANTS MdnsTypeOK MachineHasPacket MarkedIsPushed ProbedBeforeClaimed EstablishedNamesDiffer
PROPERTIES ReadsBack Settles
