--------------------------- MODULE MCDesktopCall ---------------------------
(* Small instances of DesktopCall.                                         *)
EXTENDS DesktopCall

CONSTANTS a, b, x, y

Ask(authority, mcp, named, switch) ==
    [authority |-> authority, mcp |-> mcp, named |-> named, switch |-> switch]

\* A status check, a project command, a project switch, a command pinned to a
\* profile, and MCP calls.
MCMenu == {Ask("none", FALSE, None, None), Ask("project", FALSE, None, None),
           Ask("user", FALSE, None, x), Ask("pairing", FALSE, 1, None),
           Ask("project", TRUE, None, None), Ask("user", TRUE, 1, None)}

At(account, project) == [account |-> account, project |-> project]

MCSessions == {At(None, None), At(a, x), At(a, y)}

MCSignIns == {At(a, x), At(b, None)}
=============================================================================
