------------------------------ MODULE TextPath ------------------------------
(***************************************************************************)
(* The text of a WebSocket session, from its frames to the request that    *)
(* VllmOminiEngine sends: first-frame authentication and the handlers of   *)
(* app.py, the SentenceBuffer, text_queue, text_iterator, and the engine,  *)
(* which gathers everything up to the end marker and posts it at once.     *)
(*                                                                         *)
(* Characters are of four kinds: a letter, a strong and a weak mark, and a *)
(* space.  How a session closes is the matter of Session; here it only     *)
(* stops taking frames, and its run_tts is cancelled some time later.      *)
(***************************************************************************)
EXTENDS Integers, Sequences, SequencesExt, FiniteSetsExt

CONSTANTS
    FirstMin,  \* first_min_chars
    MinChars,  \* min_chars
    MaxChars,  \* max_chars
    TextCap,   \* maxsize of text_queue
    MaxFrame,  \* bound on the length of one frame's text
    MaxText    \* bound on all text of the session

ASSUME TextAssumption ==
    /\ {FirstMin, MinChars, MaxChars, TextCap} \subseteq Nat \ {0}
    /\ {MaxFrame, MaxText} \subseteq Nat

Letter == "a"
Strong == {"!"}
Weak == {","}
Space == " "
Chars == {Letter, Space} \cup Strong \cup Weak

VARIABLES
    state,     \* state of the session
    buf,       \* SentenceBuffer.buf
    first,     \* SentenceBuffer.first
    tq,        \* text_queue; the end marker None is the empty sentence
    epc,       \* run_tts and the engine's stream_tts
    chunks,    \* what stream_tts has gathered
    accepted,  \* history: all text taken from frames
    emitted,   \* history: all sentences that the buffer returned
    plain      \* history: no flush yet, and no cut at max_chars

textVars == <<state, buf, first, tq, epc, chunks, accepted, emitted, plain>>

END == <<>>
Over == {"posted", "silent", "stopped"}

TextInit ==
    /\ state = "connected"
    /\ buf = <<>> /\ first = TRUE
    /\ tq = <<>>
    /\ epc = "off" /\ chunks = <<>>
    /\ accepted = <<>> /\ emitted = <<>> /\ plain = TRUE

-----------------------------------------------------------------------------
(* SentenceBuffer.                                                          *)

Blank(s) == \A i \in DOMAIN s : s[i] = Space
NonBlank(s) == {i \in DOMAIN s : s[i] # Space}

\* str.strip()
Strip(s) == IF Blank(s) THEN <<>> ELSE SubSeq(s, Min(NonBlank(s)), Max(NonBlank(s)))

Threshold(isFirst) == IF isFirst THEN FirstMin ELSE MinChars

\* Where _find_cut stops.
IsCut(b, i, isFirst) == b[i] \in Strong \/ (b[i] \in Weak /\ i >= Threshold(isFirst))

Cuts(b, isFirst) == {i \in DOMAIN b : IsCut(b, i, isFirst)}

\* Mutant of CutAt: the cap is looked at before the marks.
CapFirst(b, isFirst) ==
    IF Len(b) >= MaxChars THEN MaxChars
    ELSE IF Cuts(b, isFirst) # {} THEN Min(Cuts(b, isFirst)) ELSE 0

\* Mutant of CutAt: the scan goes on to the last cut.
LastCut(b, isFirst) ==
    IF Cuts(b, isFirst) # {} THEN Max(Cuts(b, isFirst))
    ELSE IF Len(b) >= MaxChars THEN MaxChars ELSE 0

\* The next sentence of the buffer: up to the first cut, else up to the cap, or
\* none.
CutAt(b, isFirst) ==
    IF Cuts(b, isFirst) # {} THEN Min(Cuts(b, isFirst))
    ELSE IF Len(b) >= MaxChars THEN MaxChars ELSE 0

\* x.strip() as a list: none if nothing is left.
Sentence(s) == IF Blank(s) THEN <<>> ELSE <<Strip(s)>>

\* A SentenceBuffer.
Buffers == [text : Seq(Chars), first : BOOLEAN]
Buffer(b, isFirst) == [text |-> b, first |-> isFirst]

\* The loop of push() over buffer s: the sentences cut off, what is left, and
\* whether the cap was needed.
Pieces[s \in Buffers] ==
    LET k == CutAt(s.text, s.first)
        next == Pieces[Buffer(SubSeq(s.text, k + 1, Len(s.text)), FALSE)]
    IN  IF k = 0 THEN [out |-> <<>>, left |-> s, capped |-> FALSE]
        ELSE [out |-> Sentence(SubSeq(s.text, 1, k)) \o next.out,
              left |-> next.left,
              capped |-> next.capped \/ Cuts(s.text, s.first) = {}]

\* push(t)
Push(t) == Pieces[Buffer(buf \o t, first)]

\* flush() of buffer s.
Flush(s) ==
    [out |-> Sentence(s.text), left |-> Buffer(<<>>, s.first /\ Blank(s.text))]

-----------------------------------------------------------------------------
(* Frames.                                                                  *)

\* The first frame: a valid auth frame, or anything else, a timeout or a hang-up.
Authenticates ==
    /\ state = "connected"
    /\ state' \in {"authenticated", "rejected"}
    /\ UNCHANGED <<buf, first, tq, epc, chunks, accepted, emitted, plain>>

\* tts.start spawns run_tts, which first waits for a slot.
ReceiveStart ==
    /\ state = "authenticated"
    /\ state' = "started"
    /\ epc' = "queued"
    /\ UNCHANGED <<buf, first, tq, chunks, accepted, emitted, plain>>

\* Mutant of PutAll: what does not fit is dropped and the session goes on.
PutWhatFits(items, ok) ==
    /\ tq' = SubSeq(tq \o items, 1, Min({TextCap, Len(tq) + Len(items)}))
    /\ state' = ok

\* Mutant of PutAll: the queue has no maxsize.
PutAlways(items, ok) == tq' = tq \o items /\ state' = ok

\* Sentences are put until one does not fit, which closes the session.
PutAll(items, ok) ==
    \/ /\ Len(tq) + Len(items) <= TextCap
       /\ tq' = tq \o items
       /\ state' = ok
    \/ /\ Len(tq) + Len(items) > TextCap
       /\ tq' = SubSeq(tq \o items, 1, TextCap)
       /\ state' = "closing"

\* The frame's sentences leave the buffer, which is left with the rest.
Emit(r, items, ok) ==
    /\ PutAll(items, ok)
    /\ buf' = r.left.text
    /\ first' = r.left.first
    /\ emitted' = emitted \o r.out

\* tts.text
ReceiveText(t) ==
    /\ state = "started"
    /\ LET p == Push(t)
       IN  Emit(p, p.out, "started") /\ plain' = (plain /\ ~p.capped)
    /\ accepted' = accepted \o t
    /\ UNCHANGED <<epc, chunks>>

\* tts.text with flush: true
ReceiveTextAndFlush(t) ==
    /\ state = "started"
    /\ LET p == Push(t)
           f == Flush(p.left)
           r == [f EXCEPT !.out = p.out \o @]
       IN  Emit(r, r.out, "started")
    /\ plain' = FALSE
    /\ accepted' = accepted \o t
    /\ UNCHANGED <<epc, chunks>>

\* tts.flush
ReceiveFlush ==
    /\ state = "started"
    /\ LET f == Flush(Buffer(buf, first)) IN Emit(f, f.out, "started")
    /\ plain' = FALSE
    /\ UNCHANGED <<epc, chunks, accepted>>

\* Mutant of ReceiveEnd: the end marker is forgotten when nothing was buffered.
EndIfText ==
    /\ state = "started"
    /\ LET f == Flush(Buffer(buf, first))
       IN  Emit(f, IF f.out = <<>> THEN <<>> ELSE Append(f.out, END), "ending")
    /\ plain' = FALSE
    /\ UNCHANGED <<epc, chunks, accepted>>

\* tts.end: flush, then the end marker.
ReceiveEnd ==
    /\ state = "started"
    /\ LET f == Flush(Buffer(buf, first)) IN Emit(f, Append(f.out, END), "ending")
    /\ plain' = FALSE
    /\ UNCHANGED <<epc, chunks, accepted>>

\* tts.cancel, a hang-up, a timeout, the end of run_tts or the server's shutdown.
Closes ==
    /\ state \in {"authenticated", "started", "ending"}
    /\ state' = "closing"
    /\ UNCHANGED <<buf, first, tq, epc, chunks, accepted, emitted, plain>>

-----------------------------------------------------------------------------
(* run_tts, text_iterator and VllmOminiEngine.stream_tts.                   *)

Granted ==
    /\ epc = "queued"
    /\ epc' = "gather"
    /\ UNCHANGED <<state, buf, first, tq, chunks, accepted, emitted, plain>>

\* One item of the queue.
Gathers ==
    /\ epc = "gather" /\ tq # <<>> /\ Head(tq) # END
    /\ chunks' = chunks \o Head(tq)
    /\ tq' = Tail(tq)
    /\ UNCHANGED <<state, buf, first, epc, accepted, emitted, plain>>

\* The end marker: the request is posted, unless there is no text.
Posts ==
    /\ epc = "gather" /\ tq # <<>> /\ Head(tq) = END
    /\ tq' = Tail(tq)
    /\ chunks' = Strip(chunks)
    /\ epc' = IF Blank(chunks) THEN "silent" ELSE "posted"
    /\ UNCHANGED <<state, buf, first, accepted, emitted, plain>>

\* close() cancels run_tts; until it gets there the engine goes on.
Stops ==
    /\ state = "closing" /\ epc \in {"queued", "gather"}
    /\ epc' = "stopped"
    /\ UNCHANGED <<state, buf, first, tq, chunks, accepted, emitted, plain>>

Finished ==
    /\ \/ state = "rejected"
       \/ state = "closing" /\ epc \in Over \cup {"off"}
    /\ UNCHANGED textVars

Texts == SeqOf(Chars, MaxFrame) \ {<<>>}

ReceiveFrame ==
    \/ Authenticates \/ ReceiveStart \/ ReceiveFlush \/ ReceiveEnd
    \/ \E t \in Texts :
        /\ Len(accepted) + Len(t) <= MaxText
        /\ ReceiveText(t) \/ ReceiveTextAndFlush(t)

TextNext ==
    ReceiveFrame \/ Closes \/ Granted \/ Gathers \/ Posts \/ Stops \/ Finished

TextSpec == TextInit /\ [][TextNext]_textVars

\* A slot becomes free at last, and tasks that can run do.
TextFairSpec ==
    TextSpec /\ WF_textVars(Granted) /\ WF_textVars(Gathers \/ Posts) /\ WF_textVars(Stops)

-----------------------------------------------------------------------------
(* Properties.                                                              *)

\* Types; between frames the buffer holds less than max_chars and no cut.
TextTypeOK ==
    /\ state \in {"connected", "rejected", "authenticated", "started", "ending", "closing"}
    /\ buf \in Seq(Chars) /\ CutAt(buf, first) = 0
    /\ first \in BOOLEAN
    /\ tq \in Seq(Seq(Chars)) /\ Len(tq) <= TextCap
    /\ epc \in {"off", "queued", "gather"} \cup Over
    /\ chunks \in Seq(Chars)
    /\ accepted \in Seq(Chars) /\ emitted \in Seq(Seq(Chars)) /\ plain \in BOOLEAN

\* A text without its spaces.
Letters[s \in Seq(Chars)] ==
    IF s = <<>> THEN <<>>
    ELSE (IF Head(s) = Space THEN <<>> ELSE <<Head(s)>>) \o Letters[Tail(s)]

\* The engine posts all the text that was accepted, in order and but for spaces
\* between sentences, or nothing: never a text of which a sentence was dropped,
\* although it goes on reading while the session closes (app.py:930-1052,
\* engine_vllm_omini.py:149-156).
PostsAllOrNothing ==
    /\ epc = "posted" => Letters[chunks] = Letters[accepted]
    /\ epc = "silent" => Blank(accepted)

\* Where the sentences end does not depend on how the client cut its text into
\* frames, as long as it did not flush and no text reached max_chars without a
\* mark (sentence_buffer.py:38-63).
FramingIrrelevant ==
    plain => emitted = Pieces[Buffer(accepted, TRUE)].out

\* max_chars bounds a sentence only in front of its first mark: a longer one ends
\* at that mark (sentence_buffer.py:45-59).
OverlongEndsAtMark ==
    \A i \in DOMAIN emitted :
        LET s == emitted[i]
        IN  Len(s) > MaxChars =>
                /\ s[Len(s)] \in Strong \cup Weak
                /\ \A j \in 1..(Len(s) - 1) : s[j] \notin Strong

\* tts.end reaches the engine behind all the text, unless the session closes.
EndIsHeard ==
    state = "ending" ~> epc \in Over \/ state = "closing"

=============================================================================
