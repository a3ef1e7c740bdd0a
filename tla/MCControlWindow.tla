--------------------------- MODULE MCControlWindow ---------------------------
EXTENDS ControlWindow

MCBytes == {Byte(c, Menu[i]) : c \in Channels, i \in Items \cup {1}}
=============================================================================
