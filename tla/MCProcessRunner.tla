--------------------------- MODULE MCProcessRunner ---------------------------
(* Model-checking instance of ProcessRunner: both platforms, a pipe smaller *)
(* than the stream and a limit smaller than both.                           *)
EXTENDS ProcessRunner

MCMaxBytes == [stdout |-> 3, stderr |-> 1]
MCStrategies == {"windows_job_object", "direct_child"}
=============================================================================
