\* The background read of net/http starts after Upgrade.
SPECIFICATION Spec
CONSTANTS
    Notifier = {}
    MaxSession = 1
    MaxRequest = 2
    MaxEvent = 0
    MaxIn = 1
    MaxOut = 1
    MaxOutstanding = 1
CHECK_DEADLOCK FALSE
INVARIANT ResponseBeforeEncryption
