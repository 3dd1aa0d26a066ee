SPECIFICATION Spec
CONSTANTS
    TlsConfigured = FALSE
    MaxRecipients = 1
    MaxCommands = 4
    Tags = 2
    MaxAhead = 1
INVARIANT
    CapCountsUnproductive
