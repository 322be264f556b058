CONSTANTS
    Hosts <- MC_Hosts
    InitHost <- MC_InitHost
    NoHost <- MC_NoHost
    MaxOrders = 1
    MaxEdits = 0
SPECIFICATION FairSpec
VIEW MC_View
PROPERTY FirstOrderRecorded
