SPECIFICATION FairSpec
CONSTANTS
    Workers = {"v", "w"}
    MaxAttempts = 2
    Identities <- MCIdentities
    Safe <- MCSafe
    Unsendable <- MCUnsendable
    CrashLimit = 1
INVARIANTS
    DeliveryTypeOK
    HandledAtMostOnce
    ReceiptIsTrue
    ClassifierAgrees
PROPERTIES
    VerdictIsFinal
    DeliversOnce
    EveryEventSettles
CHECK_DEADLOCK FALSE
