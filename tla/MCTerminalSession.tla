-------------------------- MODULE MCTerminalSession --------------------------
EXTENDS TerminalSession
=============================================================================
