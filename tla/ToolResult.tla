----------------------------- MODULE ToolResult -----------------------------
(***************************************************************************)
(* What the data-heavy tools of the specialized agents share               *)
(* (shared/tool_result.py, shared/digest_tier.py): severities and the      *)
(* digest tier, which replaces bulky raw items by one summary per chunk    *)
(* and keeps the worst items beside it.                                    *)
(*                                                                         *)
(* A payload is the sequence of its items' severities; an item is its      *)
(* index. Chunks are runs of size items.                                   *)
(***************************************************************************)
EXTENDS Integers, Sequences, FiniteSets

Severities == {"critical", "warning", "info"}

-----------------------------------------------------------------------------
(* Faulty variants of the definitions below.                                 *)

\* The exemplars in their original order, whatever their severity.
FirstItems(payload, candidates, n) ==
    {i \in candidates : Cardinality({j \in candidates : j < i}) < n}
-----------------------------------------------------------------------------

\* SEVERITY_RANK
Rank(severity) == CASE severity = "critical" -> 0
                    [] severity = "warning" -> 1
                    [] OTHER -> 2

\* pick_top_by_severity: the n worst candidates, the earlier one on a tie.
TopBySeverity(payload, candidates, n) ==
    LET Before(j, i) == \/ Rank(payload[j]) < Rank(payload[i])
                        \/ Rank(payload[j]) = Rank(payload[i]) /\ j < i
    IN  {i \in candidates : Cardinality({j \in candidates : Before(j, i)}) < n}

\* The chunk an item is in; chunks are numbered from 0.
ChunkOf(i, size) == (i - 1) \div size
Chunks(payload, size) == {ChunkOf(i, size) : i \in DOMAIN payload}

\* The chunk's summary has text.
Digested(texts, c) == texts[c]

\* exemplars: the worst n of the items whose chunk was digested away.
Exemplars(payload, size, texts, n) ==
    TopBySeverity(payload, {i \in DOMAIN payload : Digested(texts, ChunkOf(i, size))}, n)

\* execute_digest: a small payload is shown raw; of a large one every chunk with
\* a text is replaced by its digest, the others stay raw, and the exemplars of
\* what was replaced are kept.
ExecuteDigest(payload, size, large, texts, n) ==
    IF ~large
    THEN [raw |-> DOMAIN payload, exemplars |-> {}, digests |-> {}]
    ELSE [raw |-> {i \in DOMAIN payload : ~Digested(texts, ChunkOf(i, size))},
          exemplars |-> Exemplars(payload, size, texts, n),
          digests |-> {c \in Chunks(payload, size) : Digested(texts, c)}]

\* The items that survive literally.
Verbatim(shown) == shown.raw \cup shown.exemplars
=============================================================================
