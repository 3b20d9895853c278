----------------------------- MODULE LogsAgent ------------------------------
(***************************************************************************)
(* The CloudWatch logs agent (agents/cloudwatch_logs/tools.py) over the    *)
(* requests of one container: its model discovers log groups and queries   *)
(* them, a query runs in the service while the tool polls it, its rows go  *)
(* through the digest tier, and the reply carries the newest structured    *)
(* result found in the conversation (shared/a2a_factory.py), which the     *)
(* master reads back (shared/a2a_client.py, agents/master/orchestrator.py).*)
(***************************************************************************)
EXTENDS Integers, Sequences, FiniteSets, ToolResult

CONSTANTS
    Groups,        \* log group names an alert suggests
    Listing,       \* those that exist, by name: [name, hits], hits keywords in its name
    DiscoverLimit, \* _DISCOVER_LIMIT
    Rows,          \* the severities of the rows the query would find
    PollTimeout,   \* _QUERY_POLL_TIMEOUT_SECONDS, in poll intervals
    ChunkSize,     \* SUMMARIZER_CHUNK_SIZE
    MinLines,      \* SUMMARIZER_MIN_LINES
    ExemplarCount, \* _SUMMARIZER_EXEMPLARS
    MaxPoints,     \* _CHART_MAX_POINTS
    Requests,      \* bound on the requests of the container
    MaxCalls       \* bound on the tool calls of a request

ASSUME QueryAssumption ==
    /\ Listing \in Seq([name : Groups, hits : Nat]) /\ Rows \in Seq(Severities)
    /\ DiscoverLimit \in Nat \ {0} /\ PollTimeout \in Nat \ {0}
    /\ ChunkSize \in Nat \ {0} /\ MinLines \in Nat /\ ExemplarCount \in Nat \ {0}
    /\ Requests \in Nat \ {0} /\ MaxCalls \in Nat

Existing == {Listing[i].name : i \in DOMAIN Listing}
NoAnswer == [errors |-> {}, scanned |-> {}, skipped |-> {}, timedOut |-> FALSE,
             payload |-> <<>>, shown |-> [raw |-> {}, exemplars |-> {}, digests |-> {}],
             points |-> 0, truncated |-> FALSE]

\* What a call leaves in the conversation: the text of a listing, the footer of a
\* query's structured result, or the message of an exception.
Left == {"text", "footer", "exception"}

\* _TERMINAL_STATUSES
Terminal == {"Complete", "Failed", "Cancelled", "Timeout"}

\* What a reply comes to when it is not one of the conversation's results.
TextOnly == 0
Errored == -1

VARIABLES
    \* The conversation:
    request,  \* the request being served; the ones before were answered
    calls,    \* its tool calls so far
    messages, \* the tool results so far: [request, left], left as in Left
    replies,  \* per request: the index in messages of the result the master read,
              \* or TextOnly, or Errored
    \* The tool call:
    phase,    \* "model", or a step of a query: "validate", "start", "poll"
    asked,    \* log groups to query
    answer,   \* the ToolResult of the newest query
    waited,   \* poll intervals since the query was started
    \* The service:
    status,   \* of the query: "Running", or one of Terminal
    ready     \* rows it has found so far

conversation == <<request, calls, messages, replies>>
service == <<status, ready>>
vars == <<conversation, phase, asked, answer, waited, service>>

-----------------------------------------------------------------------------
(* Faulty variants of the definitions below.                                 *)

\* The first structured result of the conversation.
OldestFooter(log) ==
    LET with == {i \in DOMAIN log : log[i].left = "footer"}
    IN  IF with = {} THEN 0 ELSE CHOOSE i \in with : \A j \in with : i <= j
\* The text goes before the data part.
ReadText(part, block) == IF block # TextOnly THEN block ELSE part
\* The read after the deadline taken for a finished query.
LastReadComplete(s) == "Complete"
\* A chunk that failed and is not shown raw.
DigestDropsFailed(payload, texts) ==
    [ExecuteDigest(payload, ChunkSize, Len(payload) >= MinLines, texts, ExemplarCount)
        EXCEPT !.raw = IF Len(payload) >= MinLines THEN {} ELSE @]
\* A poll that does not look at the clock.
PollForever ==
    /\ phase = "poll" /\ status = "Running"
    /\ waited' = waited /\ UNCHANGED <<conversation, phase, asked, answer, service>>
-----------------------------------------------------------------------------

Init ==
    /\ request = 1 /\ calls = 0 /\ messages = <<>>
    /\ replies = [r \in 1..Requests |-> TextOnly]
    /\ phase = "model" /\ asked \in SUBSET Groups
    /\ answer = NoAnswer /\ waited = 0
    /\ status = "Complete" /\ ready = 0

Serving == phase = "model" /\ request <= Requests
CallTool == Serving /\ calls < MaxCalls /\ calls' = calls + 1
Recorded(left) == messages' = Append(messages, [request |-> request, left |-> left])

\* _execute_discover_log_groups: the groups with most keywords in their names,
\* no more than the limit; when the listing fails the model guesses on.
Discovered ==
    LET hits == {i \in DOMAIN Listing : Listing[i].hits > 0}
        Before(i) == {j \in hits : \/ Listing[j].hits > Listing[i].hits
                                   \/ Listing[j].hits = Listing[i].hits /\ j < i}
    IN  {Listing[i].name : i \in {i \in hits : Cardinality(Before(i)) < DiscoverLimit}}

Discover ==
    /\ CallTool /\ Recorded("text")
    /\ asked' \in {Discovered, asked}
    /\ UNCHANGED <<request, replies, phase, answer, waited, service>>

\* query_cloudwatch_logs
Query ==
    /\ CallTool
    /\ phase' = "validate" /\ answer' = NoAnswer
    /\ UNCHANGED <<request, messages, replies, asked, waited, service>>

\* A query's ToolResult is complete: its footer is in the conversation.
Finish(r) ==
    /\ answer' = r /\ phase' = "model" /\ Recorded("footer")
    /\ UNCHANGED <<request, calls, replies, asked>>
Fail(r, error) == Finish([r EXCEPT !.errors = @ \cup {error}])

\* _get_existing_log_groups: a group that is not there, and one that could not
\* be checked, are skipped with a warning.
Validate ==
    /\ phase = "validate"
    /\ \E unchecked \in SUBSET asked :
         LET found == (asked \cap Existing) \ unchecked
             r == [answer EXCEPT !.scanned = found, !.skipped = asked \ found]
         IN  IF found = {}
             THEN Fail(r, IF asked = {} THEN "no names" ELSE "none exist")
             ELSE /\ answer' = r /\ phase' = "start"
                  /\ UNCHANGED <<conversation, asked>>
    /\ UNCHANGED <<waited, service>>

Start ==
    /\ phase = "start"
    /\ \/ /\ phase' = "poll" /\ waited' = 0
          /\ status' = "Running" /\ ready' = 0
          /\ UNCHANGED <<conversation, asked, answer>>
       \/ Fail(answer, "query failed") /\ UNCHANGED <<waited, service>>

\* The service goes on with the query, whether or not it is waited for.
ServiceStep ==
    /\ status = "Running" /\ phase = "poll"
    /\ \/ ready < Len(Rows) /\ ready' = ready + 1 /\ UNCHANGED status
       \/ ready = Len(Rows) /\ status' = "Complete" /\ UNCHANGED ready
       \/ status' \in Terminal \ {"Complete"} /\ UNCHANGED ready
    /\ UNCHANGED <<conversation, phase, asked, answer, waited>>

\* execute_digest over CwQueryDigestSource
Digest(payload, texts) ==
    ExecuteDigest(payload, ChunkSize, Len(payload) >= MinLines, texts, ExemplarCount)

\* BedrockLogSummarizer.summarize: one call per chunk, all at once; a chunk whose
\* call fails, times out or has no client comes back without a text.
Summaries(payload) == [Chunks(payload, ChunkSize) -> BOOLEAN]

\* _execute_query from the status on: failed and cancelled queries have no rows;
\* a chart only of a complete query; then the rows go through the digest tier.
Conclude(s, n) ==
    IF s \in {"Failed", "Cancelled"} THEN Fail(answer, "query " \o s)
    ELSE LET payload == SubSeq(Rows, 1, n)
         IN  \E texts \in Summaries(payload) :
               Finish([answer EXCEPT
                   !.timedOut = s = "Timeout", !.payload = payload,
                   !.shown = Digest(payload, texts),
                   !.points = IF s # "Complete" THEN 0
                              ELSE IF n > MaxPoints THEN MaxPoints ELSE n,
                   !.truncated = s = "Complete" /\ n > MaxPoints])

\* _poll_query_results before the deadline: a finished query, or sleep.
Poll ==
    /\ phase = "poll" /\ waited < PollTimeout
    /\ \/ /\ status # "Running" /\ Conclude(status, ready) /\ UNCHANGED waited
       \/ /\ status = "Running" /\ waited' = waited + 1
          /\ UNCHANGED <<conversation, phase, asked, answer>>
       \/ Fail(answer, "poll failed") /\ UNCHANGED waited
    /\ UNCHANGED service

\* What the last read is taken for, whatever the query's own status.
LastRead(s) == "Timeout"

\* After the deadline: one more read, that may fail.
LastPoll ==
    /\ phase = "poll" /\ waited = PollTimeout
    /\ \E n \in {0, ready} : Conclude(LastRead(status), n)
    /\ UNCHANGED <<waited, service>>

\* Only ClientError is caught in the tool.  Any other exception (no client, a
\* connection or a read that times out) leaves it from wherever it is: the call has
\* a tool result, but neither a ToolResult nor a footer.
Raise ==
    /\ phase # "model" /\ phase' = "model" /\ Recorded("exception")
    /\ answer' = NoAnswer
    /\ UNCHANGED <<request, calls, replies, asked, waited, service>>

\* _latest_agent_result_footer
LatestFooter(log) ==
    LET with == {i \in DOMAIN log : log[i].left = "footer"}
    IN  IF with = {} THEN 0 ELSE CHOOSE i \in with : \A j \in with : j <= i

\* AgentFooter.extract takes the last marker block of the reply's text.  The newest
\* result is appended to that text, unless the model quoted it in its own words,
\* and then whatever it quoted last is the last block.
Blocks(log) == {LatestFooter(log)} \cup {i \in DOMAIN log : log[i].left = "footer"}

\* A2AClient.send: the data part of the reply, or else the block of its text.
Read(part, block) == IF part # TextOnly THEN part ELSE block

\* _result_from_reply: an error of the protocol is an error result; a structured
\* result is taken as it is; without one the text is a success without findings.
ResultFrom(failed, read) == IF failed THEN Errored ELSE read

\* The request is over and the master has its result.
Return(result) ==
    /\ replies' = [replies EXCEPT ![request] = result]
    /\ request' = request + 1 /\ calls' = 0
    /\ UNCHANGED <<messages, phase, asked, answer, waited, service>>

\* The model is done.  The executor sends the newest result of the conversation as
\* a data part and in the text.
Reply ==
    /\ Serving
    /\ \E block \in Blocks(messages) :
         Return(ResultFrom(FALSE, Read(LatestFooter(messages), block)))

\* The model's call fails: a JSON-RPC error.
RequestFails == Serving /\ Return(ResultFrom(TRUE, TextOnly))

AgentStep == Discover \/ Query \/ Validate \/ Start \/ Poll \/ LastPoll
             \/ Reply \/ RequestFails

Next == AgentStep \/ Raise \/ ServiceStep

Spec == Init /\ [][Next]_vars

\* The agent's loop runs on; nothing obliges the service to finish a query, and no
\* exception is counted on to end one.
FairSpec == Spec /\ WF_vars(AgentStep)

-----------------------------------------------------------------------------
(* Properties.                                                               *)

TypeOK ==
    /\ request \in 1..(Requests + 1) /\ calls \in 0..MaxCalls
    /\ messages \in Seq([request : 1..Requests, left : Left])
    /\ replies \in [1..Requests -> Nat \cup {Errored}]
    /\ phase \in {"model", "validate", "start", "poll"}
    /\ asked \in SUBSET Groups /\ waited \in 0..PollTimeout
    /\ status \in {"Running"} \cup Terminal
    /\ ready \in 0..Len(Rows)

\* _execute_query: an answer that neither reports an error nor says that it timed
\* out holds every row of a completed query, and its chart is whole or says that
\* it was cut.
OnlyCompleteIsUnqualified ==
    phase = "model" /\ answer # NoAnswer =>
        /\ answer.errors = {} /\ ~answer.timedOut => answer.payload = Rows
        /\ answer.points > 0 => answer.payload = Rows
        /\ answer.points \in 1..(Len(Rows) - 1) => answer.truncated

\* The digest tier: each row that was read is in the answer literally or in the
\* digest of its chunk, the worst of them literally.
RowsCovered ==
    LET literal == Verbatim(answer.shown) IN
    /\ \A i \in DOMAIN answer.payload :
         i \in literal \/ ChunkOf(i, ChunkSize) \in answer.shown.digests
    /\ answer.payload # <<>> =>
         \E i \in literal : \A j \in DOMAIN answer.payload :
            Rank(answer.payload[i]) <= Rank(answer.payload[j])

\* _latest_agent_result_footer: the conversation outlives a request, yet a request
\* that queried is answered with its own newest result, never with the result of an
\* earlier request or with the model's words alone, unless the model's call failed
\* or each of its queries left the tool with an exception (then an earlier request's
\* result is the newest there is, and is sent).
OwnAnswer ==
    \A r \in 1..(request - 1) : replies[r] # Errored =>
        LET queries == {i \in DOMAIN messages : messages[i].request = r
                                                /\ messages[i].left # "text"}
            own == {i \in queries : messages[i].left = "footer"}
        IN  \/ \A i \in queries : messages[i].left = "exception"
            \/ replies[r] \in own /\ \A i \in own : i <= replies[r]

\* Every request comes to an end, though the service may never finish a query.
RequestsEnd == <>(request > Requests)
=============================================================================
