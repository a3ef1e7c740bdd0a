---------------------------- MODULE MCUartDriver ----------------------------
EXTENDS UartDriver

MCBuilds == {FALSE, TRUE}
MCFlows == {FALSE, TRUE}
MCLens == {1, 2}
MCMisframed == {2}
MCFirst == {1}
=============================================================================
