---------------------------- MODULE MCFakeEsp32 ----------------------------
EXTENDS FakeEsp32Inv

Tracing == <<"AGV", "TRACING", "real", "int", "int", "int", "real", "real">>

\* MODE_SCRIPTS: "error", then a hang-up; "sandwich" with one frame before the ACK; "legacy".
TwoScripts == <<<<<<"ARM_ACK", "ERROR">>, Disconnect>>, <<Tracing, <<"ARM_ACK", "OK">>, Tracing>>>>
LegacyOk == <<<<"OK">>>>
\* Telemetry, and the acknowledgement nobody asked for of the backend's tests.
DestThenAck == <<<<"AGV", "DEST">>, <<"ARM_ACK", "OK">>>>
=============================================================================
