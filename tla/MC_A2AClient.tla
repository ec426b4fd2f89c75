---------------------------- MODULE MC_A2AClient ----------------------------
(* One delegation, small enough for TLC: from the start of the stream, or  *)
(* past the artifact event of a task that ran to its end.                  *)
EXTENDS A2AClient

ResumeAnywhere == {0, 3}

=============================================================================
