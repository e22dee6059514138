CONSTANTS
    Messages = {m1, m2}
    Events = {m1, m2}
    Receipts = {r1}
    Jobs = {s1, s2}
    MaxConvs = 2
    MaxCopies = 2
    MaxRetries = 2
    MaxContacts = 1
    Configs <- MCConfigs
SPECIFICATION Spec
SYMMETRY Symmetry
INVARIANTS
    TypeOK
    StoredIsNew
    WebhookTold
    OneConversation
    CopiesAccounted
CHECK_DEADLOCK FALSE
