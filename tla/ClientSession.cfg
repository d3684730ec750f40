SPECIFICATION Spec
CONSTANTS
    Clients = {201}
    ContractFile <- TwoContracts
    MaxRequests = 5
    MaxOrders = 2
    Packets <- SharedLeg
PROPERTIES
    LogoutClears
INVARIANTS
    TypeOK
    OneSessionPerClient
    EventsReachTheirSender
    LegsAreFed
    CalledOnce
    LotsAreTheContracts
    NoKnownOrderForgotten
    DividesOnlyForStrangers
CHECK_DEADLOCK FALSE
