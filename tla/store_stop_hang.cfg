CONSTANTS
    MaxMessages = 2
    MaxCalls = 3
    MaxErrors = 0
SPECIFICATION LiveSpec
PROPERTY StopReturns
