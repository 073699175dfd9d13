---------------------------- MODULE SessionService ----------------------------
(***************************************************************************)
(* What a WebSocket session promises its client, whatever its tasks do:    *)
(* the outcome is decided once and is "done" only of a whole stream; the   *)
(* session closes for a reason the client is told, or because the client   *)
(* is gone; and the frame that tells it is the last one.                   *)
(***************************************************************************)
EXTENDS Naturals, Sequences

CONSTANTS
    Frames,     \* what a client may be sent in the course of a session
    Terminals   \* "done", "cancelled" and "error": what may end it

VARIABLES
    phase,      \* "open", "closing" or "closed"
    outcome,    \* the terminal frame, "none" before it is decided
    finished,   \* the stream has ended by itself
    said,       \* frames handed to the client
    tried,      \* sending the terminal frame has been tried
    conn        \* the connection: "open", "lost" by the client, "closed"

serviceVars == <<phase, outcome, finished, said, tried, conn>>

ServiceInit ==
    /\ phase = "open"
    /\ outcome = "none"
    /\ finished = FALSE
    /\ said = <<>>
    /\ tried = FALSE
    /\ conn = "open"

\* The first to decide wins; some decide and start to close in one step.
Decide(kind) ==
    /\ outcome = "none"
    /\ outcome' = kind
    /\ finished' \in {finished, TRUE}
    /\ kind = "done" => finished' \/ conn # "open"
    /\ phase' = phase \/ (phase = "open" /\ phase' = "closing")
    /\ UNCHANGED <<said, tried, conn>>

Finish ==
    /\ phase # "closed"
    /\ finished' = TRUE
    /\ UNCHANGED <<phase, outcome, said, tried, conn>>

StartClosing ==
    /\ phase = "open"
    /\ outcome # "none" \/ conn # "open"
    /\ phase' = "closing"
    /\ UNCHANGED <<outcome, finished, said, tried, conn>>

\* The terminal frame is due in a session that closes, once.
Due == phase = "closing" /\ outcome # "none" /\ ~tried

\* A send that is cut may have reached the client.
Say(frame) ==
    /\ phase # "closed" /\ conn = "open"
    /\ ~tried
    /\ said' = Append(said, frame)
    /\ tried' = tried \/ (Due /\ tried' = TRUE)
    /\ UNCHANGED <<phase, outcome, finished, conn>>

Try ==
    /\ Due
    /\ tried' = TRUE
    /\ UNCHANGED <<phase, outcome, finished, said, conn>>

SayOutcome ==
    /\ phase = "closing" /\ conn = "open"
    /\ tried
    /\ \A i \in 1..Len(said) : said[i] \notin Terminals
    /\ said' = Append(said, outcome)
    /\ UNCHANGED <<phase, outcome, finished, tried, conn>>

EndClosing ==
    /\ phase = "closing"
    /\ tried \/ conn = "lost"
    /\ phase' = "closed"
    /\ UNCHANGED <<outcome, finished, said, tried, conn>>

HangUp ==
    /\ conn = "open"
    /\ \/ conn' = "lost"
       \/ phase = "closed" /\ conn' = "closed"
    /\ UNCHANGED <<phase, outcome, finished, said, tried>>

ServiceNext ==
    \/ \E kind \in Terminals : Decide(kind)
    \/ Finish \/ StartClosing \/ Try \/ SayOutcome \/ EndClosing \/ HangUp
    \/ \E frame \in Frames : Say(frame)

ServiceSpec == ServiceInit /\ [][ServiceNext]_serviceVars

=============================================================================
