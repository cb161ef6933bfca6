SPECIFICATION FairSpec
CONSTANTS
    h1 = h1
    h2 = h2
    h3 = h3
    Handles = {h1}
    NoHandle = NoHandle
    Items <- MCMessages
PROPERTY LegalMessagesLeave
