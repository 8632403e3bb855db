---------------------------- MODULE MCHandshake ----------------------------
EXTENDS Handshake

MCModes == {"tcp", "http"}
MCClientCodecs == {"gob", "json"}

=============================================================================
