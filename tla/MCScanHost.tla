----------------------------- MODULE MCScanHost -----------------------------
EXTENDS ScanHost

MCBytes == UNION {BytesOf(s) : s \in Scripts} \cup GuiBytes
=============================================================================
