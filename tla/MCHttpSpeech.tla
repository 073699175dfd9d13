---------------------------- MODULE MCHttpSpeech ----------------------------
(***************************************************************************)
(* A statement about complete bodies that an engine failure breaks.         *)
(***************************************************************************)
EXTENDS HttpSpeech

\* A mid-stream failure is for streams, whose headers are sent (app.py:582-584):
\* without stream=true a 200 answer is a complete one.
WholeBodyIsWhole ==
    \A c \in HttpCalls :
        at[c] = "over" /\ shape[c] = "whole" => stream[c] # "failed"

=============================================================================
