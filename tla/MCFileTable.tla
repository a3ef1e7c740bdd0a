----------------------------- MODULE MCFileTable -----------------------------
EXTENDS FileTable, TLC

CONSTANTS uart, lcd, romfs, subfs, pUart, pLcd, pFile, pSub, pNull, pNone

MCDevices == {uart, lcd}
MCFileSystems == {romfs, subfs}
MCNames == {pUart, pLcd, pFile, pSub, pNull, pNone}

\* subfs is mounted below romfs.
MCAnswers == (uart :> {pUart}) @@ (lcd :> {pLcd}) @@ (romfs :> {pFile, pSub})
             @@ (subfs :> {pSub}) @@ (Null :> {pNull})

MCMethods == (uart :> {"read", "write", "close"}) @@ (lcd :> {"write", "ioctl"})
             @@ (romfs :> {"open", "close", "read", "lseek", "fstat"})
             @@ (subfs :> {"open", "read"}) @@ (Null :> {"write"})

\* stdin and stdout on the serial port, stderr on the display.
MCStdName == (0 :> pUart) @@ (1 :> pUart) @@ (2 :> pLcd)
MCModes == {"O_RDWR"}
MCDirects == {FALSE, TRUE}
=============================================================================
