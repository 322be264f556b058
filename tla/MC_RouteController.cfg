CONSTANTS
    Hosts <- MC_Hosts
    InitHost <- MC_InitHost
    NoHost <- MC_NoHost
    MaxOrders = 2
    MaxEdits = 0
SPECIFICATION Spec
VIEW MC_View
INVARIANT TypeOK
INVARIANT ExposedBeforeAccept
INVARIANT RecordedOrderKnown
