CONSTANTS
    Hosts <- MC_Hosts
    InitHost <- MC_InitHost
    NoHost <- MC_NoHost
    MaxOrders = 1
    MaxEdits = 1
SPECIFICATION Spec
VIEW MC_View
PROPERTY CertForOwnHost
PROPERTY ImplementsProvisioning
