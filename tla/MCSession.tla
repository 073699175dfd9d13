------------------------------ MODULE MCSession ------------------------------
(***************************************************************************)
(* Statements of the documentation about one session that the code does    *)
(* not keep; each is checked by a run of its own.                           *)
(***************************************************************************)
EXTENDS Session

\* tts.done comes after all audio frames (PROTOCOL.md:150, session.py:257-258):
\* when it is written, every chunk the engine yielded has been written.
DoneAfterAllAudio ==
    \A i \in 1..Len(wire) : wire[i] = "done" =>
        generated = Len(SelectSeq(wire, LAMBDA f : f = "audio"))

\* A timeout, START_TIMEOUT included, is a tts.error after which the connection
\* closes (PROTOCOL.md:171, 182; loops.py:129-131): a terminal frame that has
\* been set leads to CLOSED.
TerminalLeadsToClosed ==
    ClientReads => ((terminal # "none") ~> (state = "CLOSED"))

\* Closing does not stall on a stuck client (session.py:265-266).
ClosingNeedsNoClient == (state = "CLOSING") ~> (state = "CLOSED")

=============================================================================
