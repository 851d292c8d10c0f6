\* Rate limits shorter and longer than the delivery and than what is waited for,
\* and time for three sleeps of the longest backoff; a mail to two recipients;
\* chunks of up to five small blocks, two of which make a message.
SPECIFICATION TransportSpec
CONSTANTS
    Messages = 3
    MaxAttempts = 5
    Timeout = 12
    BackoffBase = 1
    BackoffCap = 3
    MaxRetryAfter = 30
    Asks = {2, 20, 31}
    Recipients = 2
    EmailAttempts = 3
    Targets = {"a", "b"}
    Heading = 1
    Frame = 1
    Limit = 6
    Section = 5
    Sections = 2
    Embedded = 10
    MaxBlocks = 5
    Sizes = {1, 2, 6}
    Digests <- MCDigests
INVARIANT RetryAfterHonored
INVARIANT RepeatsOnlyInDoubt
INVARIANT MailReachesAll
INVARIANT DigestsAreWhole
PROPERTY ImplementsPartwiseSend
