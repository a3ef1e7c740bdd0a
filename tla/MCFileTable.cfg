SPECIFICATION Spec
CONSTANTS
    MaxFd = 5
    Null = null
    NoDev = nodev
    uart = uart
    lcd = lcd
    romfs = romfs
    subfs = subfs
    pUart = pUart
    pLcd = pLcd
    pFile = pFile
    pSub = pSub
    pNull = pNull
    pNone = pNone
    Devices <- MCDevices
    FileSystems <- MCFileSystems
    Names <- MCNames
    Answers <- MCAnswers
    Methods <- MCMethods
    StdName <- MCStdName
    Modes <- MCModes
    Directs <- MCDirects
INVARIANTS
    IInv
    StdioReady
PROPERTIES
    LockKeepsOut
    FailureChangesNothing
CHECK_DEADLOCK FALSE
