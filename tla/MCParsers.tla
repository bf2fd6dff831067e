------------------------------ MODULE MCParsers ------------------------------
(***************************************************************************)
(* Instance of both parsers for TLC, on the same lines.  They do not       *)
(* influence each other, so that a behaviour follows one of them.          *)
(***************************************************************************)
EXTENDS DeviceParser, WireInstance

VARIABLES hostRead, hostBuffer, hostDelivered

Host == INSTANCE HostParser WITH
    read <- hostRead, _buffer <- hostBuffer, delivered <- hostDelivered

hostVars == <<hostRead, hostBuffer, hostDelivered>>

Init == ParserInit /\ Host!Fresh

Next ==
    \/ hostRead = 0 /\ protocol_parser_feed /\ UNCHANGED hostVars
    \/ read = 0 /\ Host!feed /\ UNCHANGED <<read, buffer, delivered>>

Spec == Init /\ [][Next]_<<parserVars, hostVars>>

\* PacketParser waits for the rest of one packet and no more, whatever length a
\* header claims.
HostHoldsOneFrame == Host!HoldsOneFrame

\* PacketParser.feed returns the same packets however the port splits the bytes.
ChunksDoNotMatter == Host!ChunksDoNotMatter

\* PacketParser.feed returns only frames of the stream, and none of them twice.
HostDeliversFrames == Host!DeliversFrames

\* PacketParser.feed misses a whole frame only to a stray magic before it.
HostClearFramesArrive == Host!ClearFramesArrive
=============================================================================
