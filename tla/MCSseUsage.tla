----------------------------- MODULE MCSseUsage -----------------------------
(***************************************************************************)
(* Small instance of SseUsage: streams of up to three lines, the last one  *)
(* with its newline or without, cut in every way.                          *)
(***************************************************************************)
EXTENDS SseUsage

MCUsageAtoms == {"u1", "u2"}

\* One usage without a total, one with a bad count.
MCRawUsage ==
    [a \in MCUsageAtoms |->
        IF a = "u1"
        THEN [prompt_tokens |-> 1, completion_tokens |-> 2, total_tokens |-> NotInt]
        ELSE [prompt_tokens |-> NotInt, completion_tokens |-> -1, total_tokens |-> 4]]

MCLines ==
    { <<>>, <<"[DONE]">>, <<"u1">>,
      <<"da", "ta", "[DONE]">>,
      <<"da", "ta", "hi", "lo", "delta">>,
      <<"da", "ta", "hi", "lo", "u1">>,
      <<"da", "ta", "u2">> }

MCStreams ==
    LET ended == {Append(l, "nl") : l \in MCLines}
    IN  {FlattenSeq(<<a, b, c>>) : a \in ended, b \in ended,
             c \in ended \cup MCLines}
=============================================================================
