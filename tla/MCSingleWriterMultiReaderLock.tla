------------------- MODULE MCSingleWriterMultiReaderLock -------------------
(* Instances of the reader-writer lock for TLC.                            *)
EXTENDS SingleWriterMultiReaderLock
=============================================================================
