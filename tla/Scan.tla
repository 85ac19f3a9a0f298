-------------------------------- MODULE Scan --------------------------------
(***************************************************************************)
(* laya_scan_untrusted (tools/guard.py) over the windows of chunk_text     *)
(* (engine/chunking.py), and the client that follows resume_from until a   *)
(* call says it is complete.                                               *)
(*                                                                         *)
(* A text is a sequence of " " (blank), "a" (a visible character at which  *)
(* a token begins) and "b" (one that continues the token before it), so    *)
(* that a text carries its own tokenisation.  Offsets count from 0 and a   *)
(* span is [start, end), as in the code.  What the model says about a chunk  *)
(* does not matter here: only which parts of the text it gets to see.      *)
(***************************************************************************)
EXTENDS Integers, Sequences, FiniteSets, Functions

CONSTANTS
    MaxLen,        \* bound: length of the text
    Tokenizers,    \* among "spans", "spaced", "encode", "none": see Chunks
    MaxTokens,     \* CHUNK_TOKENS
    Overlap,       \* CHUNK_OVERLAP
    CharsPerChunk, \* CHARS_PER_CHUNK_BOUND
    RowBudgets,    \* what Settings.sync_row_budget may be
    NQuestions,    \* len(_scan_questions())
    MaxQuestions,  \* Settings.max_questions
    MaxStateChars, \* Settings.max_state_chars, less what {"prompt": ...} adds to a text
    MaxFailures    \* bound: calls that fail and are repeated

ASSUME ScanAssumption ==
    /\ MaxTokens \in Nat \ {0} /\ Overlap \in 0..(MaxTokens - 1)
    /\ MaxLen \in Nat /\ Tokenizers \subseteq {"spans", "spaced", "encode", "none"}
    /\ CharsPerChunk \in Nat \ {0} /\ RowBudgets \subseteq Nat /\ NQuestions \in Nat \ {0}
    /\ MaxQuestions \in Nat /\ MaxStateChars \in Nat

VARIABLES
    text,     \* the client's whole text
    tok,      \* the kind of tokenizer the english checkpoint has
    budget,   \* Settings.sync_row_budget
    base,     \* the next call is made with text[base:]
    pc,       \* the client: "call", or "done", or "refused"
    result,   \* what the last call returned, its chunks included
    covered,  \* offsets of the whole text that lie in a scanned chunk
    failures  \* calls that raised so far

vars == <<text, tok, budget, base, pc, result, covered, failures>>

----------------------------------------------------------------------------
(* chunk_text.                                                             *)

Characters == {" ", "a", "b"}
Visible(t, i) == i \in 0..(Len(t) - 1) /\ t[i + 1] # " "
Shown(t, from, to) == {i \in from..(to - 1) : Visible(t, i)}

\* The numbers of a finite set, in ascending order.
Ascending(S) == [k \in 1..Cardinality(S) |-> CHOOSE i \in S : Cardinality({j \in S : j < i}) = k - 1]

\* The spans a text falls into: words, or tokens where split says so.  One goes on
\* to the next blank, the next beginning or the end of the text.
Begins(t, i, split) == Visible(t, i) /\ (~Visible(t, i - 1) \/ (split /\ t[i + 1] = "a"))
GoesOn(t, i, split) == Visible(t, i) /\ ~Begins(t, i, split)
End(t, i, split) == CHOOSE j \in (i + 1)..Len(t) :
                       ~GoesOn(t, j, split) /\ \A k \in (i + 1)..(j - 1) : GoesOn(t, k, split)
Spans(t, split) ==
    LET starts == Ascending({i \in 0..(Len(t) - 1) : Begins(t, i, split)}) IN
    [k \in DOMAIN starts |-> [start |-> starts[k], end |-> End(t, starts[k], split)]]

\* _offsets: some tokenizers count the blank before a word as part of its token.
Offsets(t, spaced) ==
    LET spans == Spans(t, TRUE) IN
    [k \in DOMAIN spans |->
        LET i == spans[k].start IN
        IF spaced /\ i > 0 /\ ~Visible(t, i - 1) THEN [spans[k] EXCEPT !.start = i - 1] ELSE spans[k]]

Trim(t, start, end) ==
    LET shown == Shown(t, start, end) IN
    IF shown = {} THEN [start |-> end, end |-> end]
    ELSE [start |-> CHOOSE i \in shown : \A j \in shown : i <= j,
          end |-> 1 + CHOOSE i \in shown : \A j \in shown : j <= i]

AtMost(m, n) == IF m < n THEN m ELSE n
AtLeast(m, n) == IF m < n THEN n ELSE m

MaxChunks == AtLeast(1, budget \div NQuestions)
MaxWindow == MaxChunks * CharsPerChunk

\* The spans of each window of `size' spans, one every `step' spans, until one
\* reaches the last of the n spans.
Ends(n, size, step, k) == (k - 1) * step + size >= n
Count(n, size, step) == CHOOSE k \in 1..n : Ends(n, size, step, k) /\ \A l \in 1..(k - 1) : ~Ends(n, size, step, l)
Windows(spans, size, step) ==
    LET n == Len(spans) IN
    [k \in 1..Count(n, size, step) |->
        [start |-> spans[(k - 1) * step + 1].start, end |-> spans[AtMost((k - 1) * step + size, n)].end,
         last |-> Ends(n, size, step, k)]]

\* _windows: token windows; the last one runs to the end of the text, and a window
\* of which nothing is left after trimming is no chunk.
NonEmpty(chunks) ==
    LET kept == Ascending({k \in DOMAIN chunks : chunks[k].end > chunks[k].start}) IN
    [k \in DOMAIN kept |-> chunks[kept[k]]]
Trimmed(t, cut) ==
    NonEmpty([k \in DOMAIN cut |-> Trim(t, cut[k].start, IF cut[k].last THEN Len(t) ELSE cut[k].end)])
\* (Mutant: the windows do not overlap.)
TokenChunksApart(t, offsets) == Trimmed(t, Windows(offsets, MaxTokens, MaxTokens))
TokenChunks(t, offsets) ==
    IF Len(offsets) <= MaxTokens THEN <<Trim(t, 0, Len(t))>>
    ELSE Trimmed(t, Windows(offsets, MaxTokens, MaxTokens - Overlap))

\* _word_chunks: windows of words, sized by the tokens a word has on average
\* (13 tokens for 10 words when the tokenizer cannot be asked).
WordChunks(t, counts) ==
    LET words == Spans(t, FALSE)
        tokens == IF counts THEN Len(Spans(t, TRUE)) ELSE 13
        per == IF counts THEN Len(words) ELSE 10
        size == AtLeast(1, (MaxTokens * per) \div tokens)
        shared == AtMost((Overlap * per) \div tokens, size - 1)
        cut == Windows(words, size, size - shared)
    IN  [k \in DOMAIN cut |-> [start |-> cut[k].start, end |-> cut[k].end]]

\* chunk_text on each text a window can be.
Strings == UNION {[1..n -> Characters] : n \in 0..MaxLen}
Chunks == [k \in Tokenizers |-> [t \in Strings |->
    IF Shown(t, 0, Len(t)) = {} THEN <<>>
    ELSE CASE k = "spans"  -> TokenChunks(t, Offsets(t, FALSE))
           [] k = "spaced" -> TokenChunks(t, Offsets(t, TRUE))
           [] k = "encode" -> WordChunks(t, TRUE)
           [] k = "none"   -> WordChunks(t, FALSE)]]

----------------------------------------------------------------------------
(* laya_scan_untrusted.                                                    *)

\* Where a call that was cut short tells the client to go on.
\* (Mutant: at the last scanned chunk.)
ResumeAtLast(chunks, scanned) == scanned[Len(scanned)].start
ResumeFrom(chunks, scanned) ==
    IF Len(chunks) > MaxChunks THEN chunks[MaxChunks + 1].start ELSE scanned[Len(scanned)].end

\* (Mutant: what lies beyond the window does not make the call incomplete.)
CutShortByChunks(t, window, chunks) == Len(chunks) > MaxChunks
CutShort(t, window, chunks) == Len(chunks) > MaxChunks \/ Len(window) < Len(t)

\* check_sync_budget refuses too many questions, rows, or too long a state.
WithinBudget(scanned) ==
    /\ NQuestions <= MaxQuestions
    /\ Len(scanned) * NQuestions <= budget
    /\ \A c \in Range(scanned) : c.end - c.start <= MaxStateChars

\* A call that finds no chunk in its window answers that it is complete, whatever
\* lies beyond the window.
Call ==
    /\ pc = "call"
    /\ LET t == SubSeq(text, base + 1, Len(text))
           window == SubSeq(t, 1, AtMost(Len(t), MaxWindow))
           chunks == Chunks[tok][window]
           scanned == SubSeq(chunks, 1, AtMost(MaxChunks, Len(chunks)))
       IN
       IF chunks = <<>>
       THEN /\ result' = [window |-> window, scanned |-> <<>>]
            /\ pc' = "done"
            /\ UNCHANGED <<base, covered>>
       ELSE IF ~WithinBudget(scanned)
       THEN pc' = "refused" /\ UNCHANGED <<base, covered, result>>
       ELSE /\ result' = [window |-> window, scanned |-> scanned]
            /\ covered' = covered \cup (UNION {{base + i : i \in c.start..(c.end - 1)} : c \in Range(scanned)})
            /\ IF CutShort(t, window, chunks)
               THEN pc' = "call" /\ base' = base + ResumeFrom(chunks, scanned)
               ELSE pc' = "done" /\ UNCHANGED base
    /\ UNCHANGED <<text, tok, budget, failures>>

\* The engine is busy or the call times out: the client makes it again.
CallRaises ==
    /\ pc = "call" /\ failures < MaxFailures
    /\ failures' = failures + 1
    /\ UNCHANGED <<text, tok, budget, base, pc, result, covered>>

Texts == Strings \ {<<>>}
Init ==
    /\ budget \in RowBudgets /\ text \in Texts /\ tok \in Tokenizers
    /\ base = 0 /\ pc = "call" /\ covered = {} /\ failures = 0
    /\ result = [window |-> <<>>, scanned |-> <<>>]

Next == Call \/ CallRaises
Spec == Init /\ [][Next]_vars

----------------------------------------------------------------------------
(* Properties.                                                             *)

\* When a call says it is complete, every visible character up to the end of its
\* window has been in a scanned chunk of some call, whatever the tokenizer, wherever
\* the windows and the budget cut, and a call that scanned anything looked to the end
\* of the client's text (scanned_chars, resume_from, the last chunk's end).
AllVisibleScanned ==
    pc = "done" =>
        LET looked == base + Len(result.window) IN
        /\ Shown(text, 0, looked) \subseteq covered
        /\ result.scanned # <<>> => looked = Len(text)

\* What a complete answer says of itself ("Text up to this character offset was
\* scanned", with the length of the text): nothing visible was left out.  The code
\* breaks it where a window holds blanks only.
CompleteMeansScanned == pc = "done" => Shown(text, 0, Len(text)) \subseteq covered

\* Where the tokenizer gives offsets no chunk is longer than the model reads, and
\* what belongs together is seen together: a chunk has at most MaxTokens tokens,
\* and any Overlap + 1 consecutive tokens that a call scanned lie in one of its
\* chunks (the size and the step of _windows, and the chunk that ends the text).
WindowsSound ==
    tok \in {"spans", "spaced"} /\ result.scanned # <<>> =>
        LET tokens == Spans(result.window, TRUE)
            inside(i, c) == c.start <= tokens[i].start /\ tokens[i].end <= c.end
            edge == result.scanned[Len(result.scanned)].end
        IN  /\ \A c \in Range(result.scanned) : Cardinality({i \in DOMAIN tokens : inside(i, c)}) <= MaxTokens
            /\ \A i \in 1..(Len(tokens) - Overlap) :
                 tokens[i + Overlap].end <= edge =>
                     \E c \in Range(result.scanned) : inside(i, c) /\ inside(i + Overlap, c)

\* Following resume_from ends: a call that was cut short tells the client to go
\* on strictly further in the text, even though neighbouring chunks overlap, so
\* that only a call that raised is ever made again.
ResumeMovesOn == [][base' > base \/ pc' # "call" \/ failures' > failures]_vars
=============================================================================
