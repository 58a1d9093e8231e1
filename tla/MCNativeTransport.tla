------------------------- MODULE MCNativeTransport --------------------------
EXTENDS NativeTransport

=============================================================================
