--------------------------- MODULE MCProcControl ---------------------------
\* One slot, or two in the run Slots: processes that are killed, among other threads that write, or a
\* process that is left alone with self tests.
EXTENDS ProcControl, TLC

CONSTANTS p1, c1
MCOnePage == {p1}
MCOneClient == {c1}
MCNone == {}
MCPlain == {{}}
MCSetups == {{"kills", "swWrites"}, {"selftest"}}
=============================================================================
