--------------------------- MODULE MCGatewayClient ---------------------------
(* Instances of GatewayClient for TLC. *)
EXTENDS GatewayClient, GatewayParser, TLC
CONSTANTS t1, t2, sensor1

\* One command that raises on an error and on a timeout; one of every behaviour.
FewCommands == {Disconnect}
EachCommand == {Scan, WriteBestEffort, Disconnect}
NoCommands == {}

\* Whatever the running reader thread is given by the port, the items it routes do
\* not depend on where the reads cut the byte stream.
ReaderParsesAlike == reader = "alive" => CutsDoNotMatter
=============================================================================
