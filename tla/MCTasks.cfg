\* One part at a time; a process that has exited does nothing more.
SPECIFICATION TasksSpec
CONSTANTS
    TlsConfigured = TRUE
    MaxRecipients = 2
    MaxCommands = 6
    Tags = 2
    MaxAhead = 1
    \* two peers and one session, two webhooks and one permit: one always waits
    Peers = {"p1", "p2"}
    Sessions = 1
    BackoffInitial = 1
    BackoffMax = 3
    HookSlots = 1
    HookMails = 2
    Batches = 1
    Ephemeral = FALSE
    \* two clients compete for one slot; two broadcasts overrun the buffer
    Clients = {"c1", "c2"}
    Slots = 1
    Buffer = 1
    Rate = 2
    PingInterval = 2
    IdleTimeout = 4
    SendTimeout = 1
    PeerKinds = {"prompt", "mute"}
    \* two matching messages asked for, batches of two, up to three sent
    MinCount = 2
    MaxBatch = 2
    Mails = 3
INVARIANTS
    EnvelopeIsOneTransaction
    NothingCrossesStartTls
    SlotsAccountedFor
    IdleMeansSilent
    PassIsEarned
PROPERTIES
    DeadPeersAreCutOff
    WaitersAreServed
    ProcessEnds
CHECK_DEADLOCK FALSE
