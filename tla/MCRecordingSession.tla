-------------------------- MODULE MCRecordingSession --------------------------
(* RecordingSession on a small instance for TLC; the cfg gives its bound.        *)
EXTENDS RecordingSession
=============================================================================
