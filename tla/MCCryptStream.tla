--------------------------- MODULE MCCryptStream ---------------------------
(* CryptStream for TLC.                                                    *)
EXTENDS CryptStream
=============================================================================
