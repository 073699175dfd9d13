---------------------------- MODULE MCSpeechPath ----------------------------
(***************************************************************************)
(* A statement about speech.audio.done that a crash of cosyvoice-svc breaks. *)
(***************************************************************************)
EXTENDS SpeechPath

\* "Mid-stream failures emit event: error" and the stream ends with
\* speech.audio.done (app.py:121-126, CLIENT_GUIDE.md:89, 127-128): done is said
\* only when every chunk that the model made has come through.
DoneIsWhole ==
    \A c \in instructed :
        event[c] = "done" => yielded[c] = made[c]

=============================================================================
