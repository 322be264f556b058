CONSTANTS
    c1 = c1
    c2 = c2
    x1 = x1
    x2 = x2
    NoName = NoName
    NoAccount = NoAccount
    NoHash = NoHash
    CMs <- MC_TwoCMs
    Names <- MC_TwoCMs
    Contacts <- MC_Contacts
    MaxKeys = 2
    MaxFaults = 0
    MaxEdits = 1
SPECIFICATION FairSpec
PROPERTY UriEventuallyRecorded
