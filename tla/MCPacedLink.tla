----------------------------- MODULE MCPacedLink -----------------------------
EXTENDS PacedLink

\* Off and one frequency on two channels, one of them with the constant code,
\* one command for the third, and a character that selects no bus.
MCBytes == {10, 64, 84, 128, 184, 222}
=============================================================================
