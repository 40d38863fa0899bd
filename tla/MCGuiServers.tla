---------------------------- MODULE MCGuiServers ----------------------------
\* Instance of GuiServers for TLC.
EXTENDS GuiServers, TLC

MCPorts == {6050, 6051}
=============================================================================
