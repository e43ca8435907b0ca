---------------------- MODULE MCAudioProcessingWrapper ----------------------
(* Two threads racing over two fields, one of them an enumeration.         *)
EXTENDS AudioProcessingWrapper

CONSTANTS t1, t2

MCThreads == {t1, t2}
MCFields == {"ns_enabled", "agc1_mode"}

=============================================================================
