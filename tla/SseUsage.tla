------------------------------ MODULE SseUsage ------------------------------
(***************************************************************************)
(* How ChatProxyService finds the usage in the bytes of a stream           *)
(* (_capture_stream_usage, _sse_data, _extract_usage and _usage_int in     *)
(* src/app/services/chat_proxy.py).                                        *)
(*                                                                         *)
(* httpx cuts the stream into chunks wherever it likes: inside a line,     *)
(* inside the `data:` prefix, inside a character of two bytes.  The bytes  *)
(* are abstracted to the pieces that make a difference:                    *)
(*   "da" "ta"    the two halves of the prefix `data:`                     *)
(*   "hi" "lo"    the two bytes of a character inside a JSON string        *)
(*   "delta"      the rest of a JSON object without a usage object         *)
(*   "[DONE]"     the end marker, and "nl" a newline                       *)
(*   UsageAtoms   the rest of a JSON object with a usage object            *)
(***************************************************************************)
EXTENDS Integers, Sequences, FiniteSetsExt, SequencesExt

CONSTANTS
    UsageAtoms,  \* see above
    RawUsage,    \* [UsageAtoms -> the members of the usage object]
    NotInt,      \* a member that is absent, null, a boolean or a string
    NoUsage,     \* usage is None
    Streams      \* the byte streams the upstream may send

ASSUME RawAssumption ==
    RawUsage \in [UsageAtoms -> [{"prompt_tokens", "completion_tokens", "total_tokens"}
                                     -> Int \cup {NotInt}]]

TokenUsage == [{"prompt_tokens", "completion_tokens", "total_tokens"} -> Nat]
ASSUME NoUsageAssumption == NoUsage \notin TokenUsage

\* The pieces of a stream; "ch" is a piece of text, see Decode.
Pieces == {"da", "ta", "hi", "lo", "delta", "[DONE]", "nl"} \cup UsageAtoms

ASSUME AtomsAssumption ==
    UsageAtoms \cap {"da", "ta", "hi", "lo", "ch", "delta", "[DONE]", "nl"} = {}
ASSUME StreamsAssumption == Streams \subseteq Seq(Pieces)

\* In a line of an event stream no character stands before `data:`, in the
\* middle of it, or after the JSON object.
ASSUME CharactersAssumption ==
    \A bytes \in Streams : \A i \in DOMAIN bytes :
        bytes[i] \in {"hi", "lo"} =>
            i > 1 /\ bytes[i - 1] \notin {"nl", "da"} \cup UsageAtoms

VARIABLES
    received,      \* history: the bytes of the chunks so far
    unread,        \* the bytes that have not arrived
    pending_text,  \* the text after the last newline
    usage

sseVars == <<received, unread, pending_text, usage>>

-----------------------------------------------------------------------------
\* Mutant: a negative count is taken as it is.
UsageIntUnclamped(v) == IF v = NotInt THEN 0 ELSE v

UsageInt(v) == IF v = NotInt \/ v < 0 THEN 0 ELSE v

\* Mutant: a missing total is not made up for.
ExtractUsageNoTotal(raw) ==
    [prompt_tokens |-> UsageInt(raw.prompt_tokens),
     completion_tokens |-> UsageInt(raw.completion_tokens),
     total_tokens |-> UsageInt(raw.total_tokens)]

ExtractUsage(raw) ==
    LET p == UsageInt(raw.prompt_tokens)
        c == UsageInt(raw.completion_tokens)
        t == UsageInt(raw.total_tokens)
    IN  [prompt_tokens |-> p, completion_tokens |-> c,
         total_tokens |-> IF t = 0 THEN p + c ELSE t]

\* bytes.decode("utf-8", errors="ignore"): a whole character becomes "ch",
\* half a character is dropped.
Decode(bytes) ==
    LET whole(i) == bytes[i] = "hi" /\ i < Len(bytes) /\ bytes[i + 1] = "lo"
    IN  FoldLeftDomain(LAMBDA text, i :
            IF bytes[i] \notin {"hi", "lo"} THEN Append(text, bytes[i])
            ELSE IF whole(i) THEN Append(text, "ch") ELSE text, <<>>, bytes)

\* str.split("\n")
SplitLines(text) ==
    FoldLeft(LAMBDA lines, piece :
        IF piece = "nl" THEN Append(lines, <<>>)
        ELSE Append(Front(lines), Append(Last(lines), piece)), << <<>> >>, text)

\* The line is `data:` with a JSON object that has a usage object in it.
CarriesUsage(line) ==
    /\ Len(line) > 2
    /\ line[1] = "da" /\ line[2] = "ta"
    /\ \A i \in 3 .. Len(line) - 1 : line[i] = "ch"
    /\ Last(line) \in UsageAtoms

\* One turn of the loop over the lines.
TakeLine(found, line) ==
    IF CarriesUsage(line) THEN ExtractUsage(RawUsage[Last(line)]) ELSE found

\* Mutant: the text that was pending is forgotten.
CaptureForgetting(chunk) ==
    LET lines == SplitLines(Decode(chunk))
    IN  /\ pending_text' = Last(lines)
        /\ usage' = FoldLeft(TakeLine, usage, Front(lines))

Capture(chunk) ==
    LET lines == SplitLines(pending_text \o Decode(chunk))
    IN  /\ pending_text' = Last(lines)
        /\ usage' = FoldLeft(TakeLine, usage, Front(lines))

\* The next chunk arrives: any bytes but none, since OllamaClient skips an
\* empty chunk.
Receive(n) ==
    /\ n \in 1 .. Len(unread)
    /\ Capture(SubSeq(unread, 1, n))
    /\ received' = received \o SubSeq(unread, 1, n)
    /\ unread' = SubSeq(unread, n + 1, Len(unread))

\* A new stream for the next request: its own pending_text and usage.
NextStream ==
    /\ unread = <<>>
    /\ received' = <<>>
    /\ unread' \in Streams
    /\ pending_text' = <<>>
    /\ usage' = NoUsage

Init ==
    /\ received = <<>>
    /\ unread \in Streams
    /\ pending_text = <<>>
    /\ usage = NoUsage

Next == NextStream \/ \E n \in 1 .. Len(unread) : Receive(n)

Spec == Init /\ [][Next]_sseVars

-----------------------------------------------------------------------------
\* What is billed is a usage of natural numbers, and the pending text is less
\* than a line, however the upstream's counts look.
TypeOK ==
    /\ received \o unread \in Streams
    /\ "nl" \notin ToSet(pending_text)
    /\ usage \in TokenUsage \cup {NoUsage}

\* The ends of the lines of a byte string that carry a usage, as a reader sees
\* them who has all of it at once.
UsageEnds(bytes) ==
    LET text == Decode(bytes)
        from(e) == Max({0} \cup {i \in 1 .. e - 1 : text[i] = "nl"}) + 1
    IN  {e \in DOMAIN text :
            text[e] = "nl" /\ CarriesUsage(SubSeq(text, from(e), e - 1))}

\* Chunking is irrelevant: after every chunk the usage found is the one of the
\* last complete line that carries one in the bytes received so far, wherever
\* they were cut.  A last line without its newline is not looked at.
ChunkingIrrelevant ==
    usage = IF UsageEnds(received) = {} THEN NoUsage
            ELSE LET text == Decode(received)
                 IN  ExtractUsage(RawUsage[text[Max(UsageEnds(received)) - 1]])

\* The ends of all lines that carry a usage, the last line of a stream among
\* them, though it may have no newline, or not yet.
AllUsageEnds(bytes) ==
    LET text == Decode(bytes)
        from(e) == Max({0} \cup {i \in 1 .. e - 1 : text[i] = "nl"}) + 1
    IN  UsageEnds(bytes) \cup
            {e \in {Len(text) + 1} : CarriesUsage(SubSeq(text, from(e), e - 1))}

\* What the upstream counted, whichever of the counts it gives.
Counted(raw) ==
    \E member \in {"prompt_tokens", "completion_tokens", "total_tokens"} :
        UsageInt(raw[member]) > 0

Billed == IF usage = NoUsage THEN 0 ELSE usage.total_tokens

\* A stream whose last usage counts anything is billed a total of zero, by
\* which the limits go, only if that usage stands in a last line without its
\* newline, which nobody looks at (finalize_success bills what was captured).
\* A total that is missing, or contradicts its parts, is no such reason.
ZeroBillsExplained ==
    LET text == Decode(received)
        last == Max(AllUsageEnds(received))
    IN  AllUsageEnds(received) # {} /\ Counted(RawUsage[text[last - 1]]) /\ Billed = 0 =>
            last = Len(text) + 1
=============================================================================
