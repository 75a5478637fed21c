SPECIFICATION Spec
CONSTANTS
    Users <- MCUsers
    Servers <- MCServers
    KexNames <- MCKexNames
    Supported <- MCSupported
    PostQuantum <- MCPostQuantum
    Commands <- MCCommands
    Unreadable = Unreadable
    Documents <- MCDocuments
    Replacements <- MCReplacements
INVARIANTS AcceptedResolves OfferAsPreferred DecisionAsWritten
CHECK_DEADLOCK FALSE
