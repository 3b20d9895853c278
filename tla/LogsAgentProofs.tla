--------------------------- MODULE LogsAgentProofs ---------------------------
(***************************************************************************)
(* Theorems about LogsAgent for every set of log groups, every listing and *)
(* query result, and any number of requests and calls.                     *)
(***************************************************************************)
EXTENDS LogsAgent, TLAPS, FiniteSetTheorems, SequenceTheorems, WellFoundedInduction

-----------------------------------------------------------------------------
(* Types.                                                                    *)

LEMMA Elements ==
    ASSUME NEW S, NEW s \in Seq(S), NEW i \in DOMAIN s
    PROVE  s[i] \in S
OBVIOUS

Message == [request : 1..Requests, left : Left]

\* The types, and a tool works for a request that is still to be answered.
Sound == TypeOK /\ (phase # "model" => request <= Requests)

LEMMA DiscoveredAreGroups == Discovered \in SUBSET Groups
<1>1. \A i \in DOMAIN Listing : Listing[i] \in [name : Groups, hits : Nat]
  BY QueryAssumption, Elements
<1>2. \A i \in DOMAIN Listing : Listing[i].name \in Groups
  BY <1>1
<1>3. QED
  BY <1>2 DEF Discovered

\* A tool that records its result for a request under way keeps the conversation in type.
LEMMA RecordedType ==
    ASSUME messages \in Seq(Message), request \in 1..Requests, NEW left \in Left,
           Recorded(left)
    PROVE  messages' \in Seq(Message)
<1>1. [request |-> request, left |-> left] \in Message
  BY DEF Message
<1>2. QED
  BY <1>1 DEF Recorded

\* The end of a query, whatever came of it.
LEMMA FinishType ==
    ASSUME Sound, phase # "model", NEW r, Finish(r), UNCHANGED service, UNCHANGED waited
    PROVE  Sound'
<1>1. Requests \in Nat \ {0} /\ request \in 1..Requests /\ messages \in Seq(Message)
  BY QueryAssumption DEF Sound, TypeOK, Message
<1>2. Recorded("footer")
  BY DEF Finish
<1>3. messages' \in Seq(Message)
  BY <1>1, <1>2, RecordedType DEF Left
<1>4. QED
  BY <1>3 DEF Sound, TypeOK, Finish, service, Message

LEMMA ConcludeFinishes ==
    ASSUME NEW s, NEW n, Conclude(s, n)
    PROVE  \E r : Finish(r)
BY DEF Conclude, Fail

\* The conversation's footers, and where the newest is.
Footers == {i \in DOMAIN messages : messages[i].left = "footer"}

\* There is a newest footer as soon as there is one.
Latest == Footers # {} => \E i \in Footers : \A j \in Footers : j <= i

LEMMA LatestFooterIs ==
    ASSUME Latest, messages \in Seq(Message)
    PROVE  /\ Footers = {} => LatestFooter(messages) = TextOnly
           /\ Footers # {} => /\ LatestFooter(messages) \in Footers
                              /\ \A j \in Footers : j <= LatestFooter(messages)
           /\ LatestFooter(messages) \in Nat
<1>1. CASE Footers = {}
  BY <1>1 DEF LatestFooter, Footers, TextOnly
<1>2. CASE Footers # {}
  <2>1. LatestFooter(messages) = CHOOSE i \in Footers : \A j \in Footers : j <= i
    BY <1>2 DEF LatestFooter, Footers
  <2>2. /\ LatestFooter(messages) \in Footers
        /\ \A j \in Footers : j <= LatestFooter(messages)
    BY <1>2, <2>1 DEF Latest
  <2>3. Footers \subseteq Nat
    BY DEF Footers
  <2>4. QED
    BY <1>2, <2>2, <2>3
<1>3. QED
  BY <1>1, <1>2

\* What the master reads is the newest result, or the words alone when there is none.
LEMMA ReadIsLatest ==
    ASSUME Latest, messages \in Seq(Message), NEW block \in Blocks(messages)
    PROVE  Read(LatestFooter(messages), block) = LatestFooter(messages)
<1>1. CASE Footers = {}
  BY <1>1, LatestFooterIs DEF Blocks, Footers, Read, TextOnly
<1>2. CASE Footers # {}
  <2>1. LatestFooter(messages) # TextOnly
    BY <1>2, LatestFooterIs DEF Footers, TextOnly
  <2>2. QED
    BY <2>1 DEF Read
<1>3. QED
  BY <1>1, <1>2

-----------------------------------------------------------------------------
(* What a step does to the conversation.                                     *)

Records == \E left \in Left :
              request <= Requests /\ Recorded(left) /\ UNCHANGED <<request, replies>>
Answers == \E result \in {LatestFooter(messages), Errored} :
              /\ request <= Requests /\ request' = request + 1 /\ UNCHANGED messages
              /\ replies' = [replies EXCEPT ![request] = result]

LEMMA ConversationStep ==
    ASSUME Sound, Latest, [Next]_vars
    PROVE  Records \/ Answers \/ UNCHANGED <<request, messages, replies>>
<1>0. messages \in Seq(Message)
  BY DEF Sound, TypeOK, Message
<1>1. ASSUME phase # "model", NEW r, Finish(r)
      PROVE  Records
  BY <1>1 DEF Finish, Records, Sound, Left
<1>2. CASE Discover
  BY <1>2 DEF Discover, CallTool, Serving, Records, Left
<1>3. CASE Query
  BY <1>3 DEF Query
<1>4. CASE Validate
  BY <1>1, <1>4 DEF Validate, Fail, conversation
<1>5. CASE Start
  BY <1>1, <1>5 DEF Start, Fail, conversation
<1>6. CASE Poll
  BY <1>1, <1>6, ConcludeFinishes DEF Poll, Fail, conversation
<1>7. CASE LastPoll
  BY <1>1, <1>7, ConcludeFinishes DEF LastPoll
<1>8. CASE Reply
  <2>1. PICK block \in Blocks(messages) :
          Return(ResultFrom(FALSE, Read(LatestFooter(messages), block)))
    BY <1>8 DEF Reply
  <2>2. Return(LatestFooter(messages)) /\ request <= Requests
    BY <1>0, <1>8, <2>1, ReadIsLatest DEF ResultFrom, Reply, Serving
  <2>3. QED
    BY <2>2 DEF Return, Answers
<1>9. CASE RequestFails
  BY <1>9 DEF RequestFails, Serving, Return, ResultFrom, Answers
<1>10. CASE Raise
  BY <1>10 DEF Raise, Records, Left, Sound
<1>11. CASE ServiceStep \/ UNCHANGED vars
  BY <1>11 DEF ServiceStep, vars, conversation
<1>12. QED
  BY <1>2, <1>3, <1>4, <1>5, <1>6, <1>7, <1>8, <1>9, <1>10, <1>11 DEF Next, AgentStep

\* The conversation keeps the order of the requests and ends with the present one.
Ordered ==
    /\ \A i, j \in DOMAIN messages : i <= j => messages[i].request <= messages[j].request
    /\ \A i \in DOMAIN messages : messages[i].request <= request

\* OwnAnswer without its exception: where a result of the request is, the answer is
\* the newest of them.
Newest ==
    \A r \in 1..(request - 1) : replies[r] # Errored =>
        \A i \in DOMAIN messages : messages[i].request = r /\ messages[i].left = "footer" =>
            /\ replies[r] \in DOMAIN messages /\ i <= replies[r]
            /\ messages[replies[r]].request = r /\ messages[replies[r]].left = "footer"

Told == Latest /\ Ordered /\ Newest

LEMMA NewestIsOwn ==
    ASSUME messages \in Seq(Message), Newest
    PROVE  OwnAnswer
<1> SUFFICES ASSUME NEW r \in 1..(request - 1), replies[r] # Errored,
                    NEW q \in DOMAIN messages, messages[q].request = r,
                    messages[q].left # "text", messages[q].left # "exception"
             PROVE  /\ replies[r] \in DOMAIN messages
                    /\ messages[replies[r]].request = r /\ messages[replies[r]].left = "footer"
                    /\ \A i \in DOMAIN messages :
                         messages[i].request = r /\ messages[i].left = "footer" => i <= replies[r]
  BY DEF OwnAnswer
<1>1. messages[q] \in Message
  BY Elements
<1>2. messages[q].left = "footer"
  BY <1>1 DEF Message, Left
<1>3. QED
  BY <1>2 DEF Newest

\* Recording leaves what is there in its place and adds the result of the present request.
LEMMA RecordsEffect ==
    ASSUME messages \in Seq(Message), request \in Nat, NEW left \in Left, Recorded(left)
    PROVE  /\ DOMAIN messages = 1..Len(messages) /\ Len(messages) \in Nat
           /\ DOMAIN messages' = 1..(Len(messages) + 1)
           /\ \A i \in DOMAIN messages : messages'[i] = messages[i]
           /\ messages'[Len(messages) + 1].request = request
           /\ messages'[Len(messages) + 1].left = left
<1> DEFINE new == [request |-> request, left |-> left]
<1>1. messages' = Append(messages, new)
  BY DEF Recorded
<1>2. new.request = request /\ new.left = left
  OBVIOUS
<1> HIDE DEF new
<1>3. /\ DOMAIN messages = 1..Len(messages) /\ Len(messages) \in Nat
      /\ DOMAIN messages' = 1..(Len(messages) + 1)
      /\ \A i \in DOMAIN messages : messages'[i] = messages[i]
      /\ messages'[Len(messages) + 1] = new
  BY <1>1
<1>4. QED
  BY <1>2, <1>3

LEMMA ToldStep == Sound /\ Told /\ [Next]_vars => Told'
<1> SUFFICES ASSUME Sound, Told, [Next]_vars
             PROVE  Told'
  OBVIOUS
<1>1. /\ messages \in Seq(Message) /\ Requests \in Nat /\ request \in 1..(Requests + 1)
      /\ replies \in [1..Requests -> Nat \cup {Errored}]
      /\ \A i \in DOMAIN messages : messages[i] \in Message
  BY QueryAssumption, Elements DEF Sound, TypeOK, Message
<1>2. Latest /\ Ordered /\ Newest
  BY DEF Told
<1>3. CASE Records
  <2>1. PICK left \in Left : Recorded(left)
    BY <1>3 DEF Records
  <2>2. request <= Requests /\ request' = request /\ replies' = replies
    BY <1>3 DEF Records
  <2> DEFINE n == Len(messages) + 1
  <2>3. /\ DOMAIN messages = 1..Len(messages) /\ Len(messages) \in Nat
        /\ DOMAIN messages' = 1..n
        /\ \A i \in DOMAIN messages : messages'[i] = messages[i]
        /\ messages'[n].request = request /\ messages'[n].left = left
    BY <1>1, <2>1, RecordsEffect
  <2>4. \A i \in DOMAIN messages' : i \in DOMAIN messages \/ i = n
    BY <2>3
  <2>5. Ordered'
    <3>1. ASSUME NEW i \in DOMAIN messages'
          PROVE  messages'[i].request <= request'
      <4>1. CASE i \in DOMAIN messages
        BY <1>2, <2>2, <2>3, <4>1 DEF Ordered
      <4>2. CASE i = n
        BY <1>1, <2>2, <2>3, <4>2
      <4>3. QED
        BY <2>4, <4>1, <4>2
    <3>2. ASSUME NEW i \in DOMAIN messages', NEW j \in DOMAIN messages', i <= j
          PROVE  messages'[i].request <= messages'[j].request
      <4>1. CASE j = n
        BY <2>2, <2>3, <3>1, <4>1
      <4>2. CASE j # n
        BY <1>2, <2>3, <3>2, <4>2 DEF Ordered
      <4>3. QED
        BY <4>1, <4>2
    <3>3. QED
      BY <3>1, <3>2 DEF Ordered
  <2>6. Latest'
    <3>1. CASE left = "footer"
      <4>1. messages'[n].left = "footer"
        BY <2>3, <3>1, Zenon
      <4>2. n \in Footers'
        <5>1. n \in DOMAIN messages'
          BY <2>3
        <5> HIDE DEF n
        <5>2. QED
          BY <4>1, <5>1 DEF Footers
      <4>3. \A j \in Footers' : j <= n
        BY <2>3 DEF Footers
      <4>4. QED
        BY <4>2, <4>3 DEF Latest
    <3>2. CASE left # "footer"
      <4>1. Footers' = Footers
        BY <2>3, <2>4, <3>2 DEF Footers
      <4>2. QED
        BY <1>2, <4>1 DEF Latest
    <3>3. QED
      BY <3>1, <3>2
  <2>7. \A r \in 1..(request - 1), i \in DOMAIN messages' :
          messages'[i].request = r => i \in DOMAIN messages /\ messages'[i] = messages[i]
    <3>1. messages'[n].request \notin 1..(request - 1)
      BY <1>1, <2>3
    <3>2. QED
      BY <2>3, <2>4, <3>1
  <2>8. Newest'
    BY <1>2, <2>2, <2>3, <2>7 DEF Newest
  <2>9. QED
    BY <2>5, <2>6, <2>8 DEF Told
<1>4. CASE Answers
  <2>1. PICK result \in {LatestFooter(messages), Errored} :
          replies' = [replies EXCEPT ![request] = result]
    BY <1>4 DEF Answers
  <2>2. request <= Requests /\ request' = request + 1 /\ messages' = messages
    BY <1>4 DEF Answers
  <2>3. Latest' /\ Ordered'
    <3>1. \A i \in DOMAIN messages : messages[i].request \in Nat
      BY <1>1 DEF Message
    <3>2. QED
      BY <1>1, <1>2, <2>2, <3>1 DEF Latest, Footers, Ordered
  <2>4. ASSUME NEW r \in 1..request, replies'[r] # Errored,
               NEW i \in DOMAIN messages, messages[i].request = r, messages[i].left = "footer"
        PROVE  /\ replies'[r] \in DOMAIN messages /\ i <= replies'[r]
               /\ messages[replies'[r]].request = r /\ messages[replies'[r]].left = "footer"
    <3>1. CASE r = request
      <4>1. replies'[r] = LatestFooter(messages)
        BY <1>1, <2>1, <2>2, <2>4, <3>1
      <4>2. i \in Footers
        BY <2>4 DEF Footers
      <4>3. LatestFooter(messages) \in Footers /\ i <= LatestFooter(messages)
        BY <1>1, <1>2, <4>2, LatestFooterIs
      <4>4. LatestFooter(messages) \in DOMAIN messages /\ messages[LatestFooter(messages)].left = "footer"
        BY <4>3 DEF Footers
      <4>5. messages[LatestFooter(messages)].request = request
        BY <1>1, <1>2, <2>4, <3>1, <4>3, <4>4 DEF Ordered, Message
      <4>6. QED
        BY <3>1, <4>1, <4>3, <4>4, <4>5
    <3>2. CASE r # request
      <4>1. r \in 1..(request - 1) /\ replies'[r] = replies[r]
        BY <1>1, <2>1, <2>2, <3>2
      <4>2. QED
        BY <1>2, <2>2, <2>4, <4>1 DEF Newest
    <3>3. QED
      BY <3>1, <3>2
  <2>5. Newest'
    <3>1. request' - 1 = request
      BY <1>1, <2>2
    <3>2. QED
      BY <2>2, <2>4, <3>1 DEF Newest
  <2>6. QED
    BY <2>3, <2>5 DEF Told
<1>5. CASE UNCHANGED <<request, messages, replies>>
  BY <1>2, <1>5 DEF Told, Latest, Footers, Ordered, Newest
<1>6. QED
  BY <1>2, <1>3, <1>4, <1>5, ConversationStep

-----------------------------------------------------------------------------
(* The types are kept.                                                       *)

LEMMA InitHolds == Init => Sound /\ Told
<1> SUFFICES ASSUME Init
             PROVE  Sound /\ Told
  OBVIOUS
<1>1. Requests \in Nat \ {0} /\ MaxCalls \in Nat /\ PollTimeout \in Nat /\ Len(Rows) \in Nat
  BY QueryAssumption
<1>2. messages = <<>> /\ request = 1 /\ DOMAIN messages = {}
  BY DEF Init
<1>3. Sound
  BY <1>1, <1>2 DEF Init, Sound, TypeOK, TextOnly, Terminal
<1>4. Told
  BY <1>1, <1>2 DEF Told, Latest, Footers, Ordered, Newest
<1>5. QED
  BY <1>3, <1>4

\* The end of a request, whatever the master reads.
LEMMA ReturnType ==
    ASSUME Sound, Serving, NEW result \in Nat \cup {Errored}, Return(result)
    PROVE  Sound'
<1>1. request \in 1..Requests /\ Requests \in Nat /\ MaxCalls \in Nat
  BY QueryAssumption DEF Sound, TypeOK, Serving
<1>2. request' \in 1..(Requests + 1) /\ calls' \in 0..MaxCalls
  BY <1>1 DEF Return
<1>3. replies' \in [1..Requests -> Nat \cup {Errored}]
  BY <1>1 DEF Return, Sound, TypeOK
<1>4. QED
  BY <1>2, <1>3 DEF Sound, TypeOK, Return, Serving, service

LEMMA SoundStep == Sound /\ Latest /\ [Next]_vars => Sound'
<1> SUFFICES ASSUME Sound, Latest, [Next]_vars
             PROVE  Sound'
  OBVIOUS
<1>1. /\ Requests \in Nat \ {0} /\ MaxCalls \in Nat /\ PollTimeout \in Nat \ {0}
      /\ Len(Rows) \in Nat /\ messages \in Seq(Message)
  BY QueryAssumption DEF Sound, TypeOK, Message
<1>2. CASE Discover
  <2>1. /\ request \in 1..Requests /\ request' = request /\ calls' \in 0..MaxCalls
        /\ Recorded("text") /\ asked' \in SUBSET Groups
    <3>1. request \in 1..Requests /\ request' = request /\ Recorded("text")
      <4>1. request <= Requests /\ request' = request /\ Recorded("text")
        BY <1>2 DEF Discover, CallTool, Serving
      <4>2. request \in 1..Requests
        BY <1>1, <4>1 DEF Sound, TypeOK
      <4>3. QED
        BY <4>1, <4>2
    <3>2. calls' \in 0..MaxCalls
      BY <1>1, <1>2 DEF Discover, CallTool, Sound, TypeOK
    <3>3. asked' \in SUBSET Groups
      BY <1>2, DiscoveredAreGroups DEF Discover, Sound, TypeOK
    <3>4. QED
      BY <3>1, <3>2, <3>3
  <2>2. messages' \in Seq(Message)
    BY <1>1, <2>1, RecordedType DEF Left
  <2>3. phase' = "model" /\ UNCHANGED <<replies, waited, service>>
    BY <1>2 DEF Discover, CallTool, Serving
  <2>4. TypeOK'
    BY <2>1, <2>2, <2>3 DEF Sound, TypeOK, service, Message
  <2>5. QED
    BY <2>3, <2>4 DEF Sound
<1>3. CASE Query
  BY <1>1, <1>3 DEF Query, CallTool, Serving, Sound, TypeOK, service
<1>4. CASE Validate
  <2>1. CASE \E r : Finish(r)
    BY <1>4, <2>1, FinishType DEF Validate, service
  <2>2. CASE phase' = "start" /\ UNCHANGED <<conversation, asked>>
    BY <1>4, <2>2 DEF Validate, Sound, TypeOK, conversation, service
  <2>3. QED
    BY <1>4, <2>1, <2>2 DEF Validate, Fail
<1>5. CASE Start
  <2>1. CASE \E r : Finish(r) /\ UNCHANGED <<waited, service>>
    BY <1>5, <2>1, FinishType DEF Start
  <2>2. CASE phase' = "poll" /\ waited' = 0 /\ status' = "Running" /\ ready' = 0
             /\ UNCHANGED <<conversation, asked>>
    <3>1. phase = "start"
      BY <1>5 DEF Start
    <3>2. QED
      BY <1>1, <2>2, <3>1 DEF Sound, TypeOK, conversation
  <2>3. Start <=> \/ phase = "start" /\ phase' = "poll" /\ waited' = 0 /\ status' = "Running"
                     /\ ready' = 0 /\ UNCHANGED <<conversation, asked, answer>>
                  \/ phase = "start" /\ Fail(answer, "query failed") /\ UNCHANGED <<waited, service>>
    BY DEF Start
  <2>4. Fail(answer, "query failed") => \E r : Finish(r)
    BY DEF Fail
  <2>5. QED
    BY <1>5, <2>1, <2>2, <2>3, <2>4, Zenon DEF conversation
<1>6. CASE ServiceStep
  BY <1>1, <1>6 DEF ServiceStep, Sound, TypeOK, conversation, Terminal
<1>7. CASE Poll
  <2>1. CASE \E r : Finish(r) /\ UNCHANGED <<waited, service>>
    BY <1>7, <2>1, FinishType DEF Poll
  <2>2. CASE waited' = waited + 1 /\ UNCHANGED <<conversation, phase, asked, service>>
    <3>1. phase = "poll" /\ waited < PollTimeout
      BY <1>7 DEF Poll
    <3>2. waited' \in 0..PollTimeout
      BY <1>1, <2>2, <3>1 DEF Sound, TypeOK
    <3>3. TypeOK'
      BY <2>2, <3>2 DEF Sound, TypeOK, conversation, service
    <3>4. QED
      BY <2>2, <3>3 DEF Sound, conversation
  <2>3. \/ Conclude(status, ready) /\ UNCHANGED <<waited, service>>
        \/ waited' = waited + 1 /\ UNCHANGED <<conversation, phase, asked, service>>
        \/ Fail(answer, "poll failed") /\ UNCHANGED <<waited, service>>
    BY <1>7 DEF Poll
  <2>4. Fail(answer, "poll failed") => \E r : Finish(r)
    BY DEF Fail
  <2>5. QED
    BY <2>1, <2>2, <2>3, <2>4, ConcludeFinishes
<1>8. CASE LastPoll
  BY <1>8, ConcludeFinishes, FinishType DEF LastPoll
<1>9. CASE Reply
  <2>1. PICK block \in Blocks(messages) :
          Return(ResultFrom(FALSE, Read(LatestFooter(messages), block)))
    BY <1>9 DEF Reply
  <2>2. Return(LatestFooter(messages)) /\ LatestFooter(messages) \in Nat
    BY <1>1, <2>1, ReadIsLatest, LatestFooterIs DEF ResultFrom
  <2>3. QED
    BY <1>9, <2>2, ReturnType DEF Reply
<1>10. CASE RequestFails
  BY <1>10, ReturnType DEF RequestFails, ResultFrom
<1>11. CASE Raise
  <2>1. messages' \in Seq(Message)
    <3>1. request \in 1..Requests /\ Recorded("exception")
      BY <1>1, <1>11 DEF Raise, Sound, TypeOK
    <3>2. QED
      BY <1>1, <3>1, RecordedType DEF Left
  <2>2. QED
    BY <1>11, <2>1 DEF Raise, Sound, TypeOK, service, Message
<1>12. CASE UNCHANGED vars
  BY <1>12 DEF vars, conversation, service, Sound, TypeOK
<1>13. QED
  BY <1>2, <1>3, <1>4, <1>5, <1>6, <1>7, <1>8, <1>9, <1>10, <1>11, <1>12 DEF Next, AgentStep

\* The conversation of a container is in type, in the order of its requests, and
\* has a newest result as soon as it has one (_latest_agent_result_footer).
THEOREM Conversation == Spec => [](Sound /\ Told)
<1>1. Init => Sound /\ Told
  BY InitHolds
<1>2. (Sound /\ Told) /\ [Next]_vars => (Sound /\ Told)'
  BY ToldStep, SoundStep DEF Told
<1>3. QED
  BY <1>1, <1>2, PTL DEF Spec

\* The conversation outlives a request, yet a request that queried and did not
\* fail is answered with its own newest result (_latest_agent_result_footer), unless
\* each of its queries left the tool with an exception, for any number of requests
\* and of tool calls.
THEOREM AnswersAreOwn == Spec => []OwnAnswer
<1>1. Sound /\ Told => OwnAnswer
  BY NewestIsOwn DEF Sound, TypeOK, Message, Told
<1>2. QED
  BY <1>1, Conversation, PTL

-----------------------------------------------------------------------------
(* The digest tier.                                                          *)

\* A set of natural numbers has a least element.
LEMMA LeastOf ==
    ASSUME NEW T \in SUBSET Nat, NEW R,
           \A x, y \in Nat : y < x => <<y, x>> \in R,
           \E x \in T : \A y \in T : ~ (<<y, x>> \in R)
    PROVE  \E n \in T : \A m \in T : n <= m
<1>1. PICK x \in T : \A y \in T : ~ (<<y, x>> \in R)
  OBVIOUS
<1>2. ASSUME NEW y \in T
      PROVE  x <= y
  <2>1. x \in Nat /\ y \in Nat
    OBVIOUS
  <2>2. ~(y < x)
    BY <1>1, <2>1
  <2>3. QED
    BY <2>1, <2>2
<1>3. QED
  BY <1>2

LEMMA Least ==
    ASSUME NEW T \in SUBSET Nat, T # {}
    PROVE  \E n \in T : \A m \in T : n <= m
<1>1. \E x \in T : \A y \in T : ~ (<<y, x>> \in OpToRel(<, Nat))
  BY NatLessThanWellFounded, WFMin
<1>2. \A x, y \in Nat : y < x => <<y, x>> \in OpToRel(<, Nat)
  BY DEF OpToRel
<1>3. QED
  BY <1>1, <1>2, LeastOf, Zenon

LEMMA RankType == \A severity : Rank(severity) \in 0..2
BY DEF Rank

\* The worst item of a payload, the first of equals, comes before every other.
LEMMA WorstItem ==
    ASSUME NEW payload, NEW L \in Nat, DOMAIN payload = 1..L, L # 0
    PROVE  \E i \in 1..L : \A j \in 1..L :
             \/ Rank(payload[i]) < Rank(payload[j])
             \/ Rank(payload[i]) = Rank(payload[j]) /\ i <= j
<1>1. \E r \in {Rank(payload[i]) : i \in 1..L} : \A q \in {Rank(payload[i]) : i \in 1..L} : r <= q
  <2>1. {Rank(payload[i]) : i \in 1..L} \in SUBSET Nat
    BY RankType
  <2>2. Rank(payload[1]) \in {Rank(payload[i]) : i \in 1..L}
    OBVIOUS
  <2>3. QED
    BY <2>1, <2>2, Least
<1>2. PICK w \in 1..L : \A j \in 1..L : Rank(payload[w]) <= Rank(payload[j])
  BY <1>1
<1>3. \E i \in {k \in 1..L : Rank(payload[k]) = Rank(payload[w])} :
        \A j \in {k \in 1..L : Rank(payload[k]) = Rank(payload[w])} : i <= j
  <2>1. {k \in 1..L : Rank(payload[k]) = Rank(payload[w])} \in SUBSET Nat
    OBVIOUS
  <2>2. w \in {k \in 1..L : Rank(payload[k]) = Rank(payload[w])}
    OBVIOUS
  <2>3. QED
    BY <2>1, <2>2, Least
<1>4. PICK i \in 1..L :
        /\ Rank(payload[i]) = Rank(payload[w])
        /\ \A j \in 1..L : Rank(payload[j]) = Rank(payload[w]) => i <= j
  BY <1>3
<1>5. \A j \in 1..L : \/ Rank(payload[i]) < Rank(payload[j])
                      \/ Rank(payload[i]) = Rank(payload[j]) /\ i <= j
  BY <1>2, <1>4, RankType
<1>6. QED
  BY <1>5

\* pick_top_by_severity always keeps the candidate that comes before every other.
LEMMA WorstIsTop ==
    ASSUME NEW payload, NEW L \in Nat, NEW candidates \in SUBSET (1..L), NEW n \in Nat \ {0},
           NEW i \in candidates,
           \A j \in 1..L : \/ Rank(payload[i]) < Rank(payload[j])
                           \/ Rank(payload[i]) = Rank(payload[j]) /\ i <= j
    PROVE  i \in TopBySeverity(payload, candidates, n)
<1> DEFINE Before(j, k) == \/ Rank(payload[j]) < Rank(payload[k])
                           \/ Rank(payload[j]) = Rank(payload[k]) /\ j < k
<1>1. {j \in candidates : Before(j, i)} = {}
  <2> SUFFICES ASSUME NEW j \in candidates, Before(j, i)
               PROVE  FALSE
    OBVIOUS
  <2>1. Rank(payload[i]) \in 0..2 /\ Rank(payload[j]) \in 0..2 /\ i \in 1..L /\ j \in 1..L
    BY RankType
  <2>2. QED
    BY <2>1
<1>2. Cardinality({j \in candidates : Before(j, i)}) < n
  BY <1>1, FS_EmptySet
<1>3. QED
  BY <1>2 DEF TopBySeverity

\* RowsCovered of one answer.
Covered(r) ==
    /\ \A i \in DOMAIN r.payload :
         i \in Verbatim(r.shown) \/ ChunkOf(i, ChunkSize) \in r.shown.digests
    /\ r.payload # <<>> =>
         \E i \in Verbatim(r.shown) : \A j \in DOMAIN r.payload :
            Rank(r.payload[i]) <= Rank(r.payload[j])

\* execute_digest loses no item and shows a worst one literally, whichever chunks
\* come back without a text.
LEMMA DigestCovers ==
    ASSUME NEW r, NEW texts, r.payload \in Seq(Severities), r.shown = Digest(r.payload, texts)
    PROVE  Covered(r)
<1> DEFINE L == Len(r.payload)
           away == {i \in DOMAIN r.payload : Digested(texts, ChunkOf(i, ChunkSize))}
<1>1. L \in Nat /\ DOMAIN r.payload = 1..L /\ ExemplarCount \in Nat \ {0}
  BY QueryAssumption
<1>2. CASE ~(L >= MinLines)
  <2>1. r.shown.raw = DOMAIN r.payload
    BY <1>2 DEF Digest, ExecuteDigest
  <2>2. ASSUME r.payload # <<>>
        PROVE  \E i \in 1..L : \A j \in 1..L : Rank(r.payload[i]) <= Rank(r.payload[j])
    <3>1. L # 0
      BY <2>2
    <3>2. PICK i \in 1..L : \A j \in 1..L :
            \/ Rank(r.payload[i]) < Rank(r.payload[j])
            \/ Rank(r.payload[i]) = Rank(r.payload[j]) /\ i <= j
      BY <1>1, <3>1, WorstItem
    <3>3. \A j \in 1..L : Rank(r.payload[i]) <= Rank(r.payload[j])
      BY <3>2, RankType
    <3>4. QED
      BY <3>3
  <2>3. QED
    BY <1>1, <2>1, <2>2 DEF Covered, Verbatim
<1>3. CASE L >= MinLines
  <2>1. /\ r.shown.raw = {i \in DOMAIN r.payload : ~Digested(texts, ChunkOf(i, ChunkSize))}
        /\ r.shown.exemplars = TopBySeverity(r.payload, away, ExemplarCount)
        /\ r.shown.digests = {c \in Chunks(r.payload, ChunkSize) : Digested(texts, c)}
    BY <1>3 DEF Digest, ExecuteDigest, Exemplars
  <2>2. ASSUME NEW i \in DOMAIN r.payload
        PROVE  i \in r.shown.raw \/ ChunkOf(i, ChunkSize) \in r.shown.digests
    BY <2>1 DEF Chunks
  <2>3. ASSUME r.payload # <<>>
        PROVE  \E i \in Verbatim(r.shown) : \A j \in 1..L : Rank(r.payload[i]) <= Rank(r.payload[j])
    <3>1. L # 0
      BY <2>3
    <3>2. PICK i \in 1..L : \A j \in 1..L :
            \/ Rank(r.payload[i]) < Rank(r.payload[j])
            \/ Rank(r.payload[i]) = Rank(r.payload[j]) /\ i <= j
      BY <1>1, <3>1, WorstItem
    <3>3. i \in r.shown.raw \/ i \in away
      BY <1>1, <2>1
    <3>4. away \in SUBSET (1..L)
      BY <1>1
    <3>5. ASSUME i \in away
          PROVE  i \in r.shown.exemplars
      <4> HIDE DEF away
      <4>1. i \in TopBySeverity(r.payload, away, ExemplarCount)
        BY <1>1, <3>2, <3>4, <3>5, WorstIsTop
      <4>2. QED
        BY <2>1, <4>1
    <3>6. i \in Verbatim(r.shown)
      BY <3>3, <3>5 DEF Verbatim
    <3>7. \A j \in 1..L : Rank(r.payload[i]) <= Rank(r.payload[j])
      BY <3>2, RankType
    <3>8. QED
      BY <3>6, <3>7
  <2>4. QED
    BY <1>1, <2>2, <2>3 DEF Covered, Verbatim
<1>4. QED
  BY <1>1, <1>2, <1>3, QueryAssumption

-----------------------------------------------------------------------------
(* The answer of a query.                                                    *)

\* OnlyCompleteIsUnqualified of one answer.
Qualified(r) ==
    /\ r.errors = {} /\ ~r.timedOut => r.payload = Rows
    /\ r.points > 0 => r.payload = Rows
    /\ r.points \in 1..(Len(Rows) - 1) => r.truncated

\* A query under way has an answer without errors and rows yet.
Blank(r) ==
    /\ DOMAIN r = DOMAIN NoAnswer
    /\ r.errors = {} /\ r.timedOut = FALSE /\ r.payload = <<>> /\ r.shown = NoAnswer.shown
    /\ r.points = 0 /\ r.truncated = FALSE

Answering ==
    /\ phase = "model" /\ answer # NoAnswer => Qualified(answer)
    /\ Covered(answer)
    /\ phase # "model" => Blank(answer)
    /\ phase = "poll" /\ status = "Complete" => ready = Len(Rows)

LEMMA Fields ==
    DOMAIN NoAnswer = {"errors", "scanned", "skipped", "timedOut", "payload", "shown", "points",
                       "truncated"}
BY DEF NoAnswer

LEMMA BlankCovered == \A r : Blank(r) => Covered(r)
BY DEF Covered, Blank

LEMMA NoAnswerIsBlank == Blank(NoAnswer)
BY DEF NoAnswer, Blank

\* The end of a query in an answer of which both hold.
LEMMA FinishAnswers ==
    ASSUME NEW r, Finish(r), Qualified(r), Covered(r)
    PROVE  Answering'
BY DEF Finish, Answering, Qualified, Covered

LEMMA FailAnswers ==
    ASSUME NEW b, NEW error, Blank(b), Fail(b, error)
    PROVE  Answering'
<1> DEFINE r == [b EXCEPT !.errors = @ \cup {error}]
<1>1. r.errors = {error} /\ r.points = 0 /\ r.payload = <<>> /\ r.shown = NoAnswer.shown
  BY Fields DEF Blank
<1>2. Finish(r)
  BY DEF Fail
<1> HIDE DEF r
<1>3. Qualified(r) /\ Covered(r)
  BY <1>1 DEF Qualified, Covered
<1>4. QED
  BY <1>2, <1>3, FinishAnswers

\* _execute_query from the status on.
LEMMA ConcludeAnswers ==
    ASSUME Answering, phase = "poll", NEW s, NEW n \in 0..Len(Rows), Conclude(s, n),
           s \in {"Complete", "Failed", "Cancelled", "Timeout"}, s = "Complete" => n = Len(Rows)
    PROVE  Answering'
<1>1. Blank(answer)
  BY DEF Answering
<1>2. CASE s \in {"Failed", "Cancelled"}
  BY <1>1, <1>2, FailAnswers DEF Conclude
<1>3. CASE s \notin {"Failed", "Cancelled"}
  <2> DEFINE payload == SubSeq(Rows, 1, n)
             points == IF s # "Complete" THEN 0 ELSE IF n > MaxPoints THEN MaxPoints ELSE n
  <2>1. PICK texts \in Summaries(payload) :
          Finish([answer EXCEPT
                   !.timedOut = s = "Timeout", !.payload = payload,
                   !.shown = Digest(payload, texts), !.points = points,
                   !.truncated = s = "Complete" /\ n > MaxPoints])
    BY <1>3 DEF Conclude
  <2> DEFINE r == [answer EXCEPT
                   !.timedOut = s = "Timeout", !.payload = payload,
                   !.shown = Digest(payload, texts), !.points = points,
                   !.truncated = s = "Complete" /\ n > MaxPoints]
  <2>2. Finish(r)
    BY <2>1
  <2>3. /\ r.payload = payload /\ r.shown = Digest(payload, texts) /\ r.points = points
        /\ s = "Timeout" => r.timedOut
        /\ s = "Complete" /\ n > MaxPoints => r.truncated
    BY <1>1, Fields DEF Blank
  <2>4. payload \in Seq(Severities)
    BY QueryAssumption, SubSeqProperties
  <2>5. n = Len(Rows) => payload = Rows
    BY QueryAssumption, SubSeqProperties
  <2> HIDE DEF r, payload
  <2>6. Covered(r)
    BY <2>3, <2>4, DigestCovers
  <2>7. Qualified(r)
    <3>1. CASE s = "Complete"
      <4>1. r.payload = Rows
        BY <2>3, <2>5, <3>1
      <4>2. CASE n > MaxPoints
        BY <2>3, <3>1, <4>1, <4>2 DEF Qualified
      <4>3. CASE ~(n > MaxPoints)
        <5>1. r.points = Len(Rows) /\ Len(Rows) \in Nat
          BY <2>3, <3>1, <4>3, QueryAssumption
        <5>2. QED
          BY <4>1, <5>1 DEF Qualified
      <4>4. QED
        BY <4>2, <4>3
    <3>2. CASE s = "Timeout"
      <4>1. r.points = 0 /\ r.timedOut
        BY <2>3, <3>2
      <4>2. QED
        BY <4>1 DEF Qualified
    <3>3. QED
      BY <1>3, <3>1, <3>2
  <2>8. QED
    BY <2>2, <2>6, <2>7, FinishAnswers
<1>4. QED
  BY <1>2, <1>3

LEMMA AnsweringStep == Sound /\ Answering /\ [Next]_vars => Answering'
<1> SUFFICES ASSUME Sound, Answering, [Next]_vars
             PROVE  Answering'
  OBVIOUS
<1>1. CASE UNCHANGED <<phase, answer, status, ready>>
  BY <1>1 DEF Answering, Qualified, Covered
<1>2. CASE Discover \/ Reply \/ RequestFails
  BY <1>1, <1>2 DEF Discover, Reply, RequestFails, Return, service
<1>3. CASE Query
  BY <1>3, NoAnswerIsBlank, BlankCovered DEF Query, Answering
<1>4. CASE Validate
  <2>1. Blank(answer)
    BY <1>4 DEF Validate, Answering
  <2>2. PICK unchecked \in SUBSET asked :
          LET found == (asked \cap Existing) \ unchecked
              r == [answer EXCEPT !.scanned = found, !.skipped = asked \ found]
          IN  IF found = {}
              THEN Fail(r, IF asked = {} THEN "no names" ELSE "none exist")
              ELSE answer' = r /\ phase' = "start"
    BY <1>4 DEF Validate
  <2> DEFINE found == (asked \cap Existing) \ unchecked
             r == [answer EXCEPT !.scanned = found, !.skipped = asked \ found]
  <2>3. Blank(r)
    BY <2>1, Fields DEF Blank
  <2>4. \/ \E error : Fail(r, error)
        \/ answer' = r /\ phase' = "start"
    BY <2>2
  <2> HIDE DEF r
  <2>5. CASE \E error : Fail(r, error)
    BY <2>3, <2>5, FailAnswers
  <2>6. CASE answer' = r /\ phase' = "start"
    BY <2>3, <2>6, BlankCovered DEF Answering
  <2>7. QED
    BY <2>4, <2>5, <2>6
<1>5. CASE Start
  <2>1. Blank(answer)
    BY <1>5 DEF Start, Answering
  <2>2. CASE Fail(answer, "query failed")
    BY <2>1, <2>2, FailAnswers
  <2>3. CASE phase' = "poll" /\ status' = "Running" /\ answer' = answer
    BY <2>1, <2>3 DEF Answering, Covered
  <2>4. QED
    BY <1>5, <2>2, <2>3 DEF Start
<1>6. CASE ServiceStep
  <2>1. phase = "poll" /\ phase' = phase /\ answer' = answer
        /\ (status' = "Complete" => ready' = Len(Rows))
    BY <1>6 DEF ServiceStep
  <2>2. QED
    BY <2>1 DEF Answering, Covered
<1>7. CASE Poll
  <2>1. phase = "poll"
    BY <1>7 DEF Poll
  <2>2. Blank(answer)
    BY <2>1 DEF Answering
  <2>3. CASE status # "Running" /\ Conclude(status, ready)
    <3>1. ready \in 0..Len(Rows) /\ status \in Terminal
      BY <2>3 DEF Sound, TypeOK
    <3>2. status = "Complete" => ready = Len(Rows)
      BY <2>1 DEF Answering
    <3>3. QED
      BY <2>1, <2>3, <3>1, <3>2, ConcludeAnswers DEF Terminal
  <2>4. CASE Fail(answer, "poll failed")
    BY <2>2, <2>4, FailAnswers
  <2>5. QED
    BY <1>1, <1>7, <2>3, <2>4 DEF Poll, service
<1>8. CASE LastPoll
  <2>1. PICK n \in {0, ready} : Conclude("Timeout", n)
    BY <1>8 DEF LastPoll, LastRead
  <2>2. phase = "poll" /\ n \in 0..Len(Rows)
    BY <1>8, QueryAssumption DEF LastPoll, Sound, TypeOK
  <2>3. QED
    BY <2>1, <2>2, ConcludeAnswers
<1>9. CASE Raise
  BY <1>9, NoAnswerIsBlank, BlankCovered DEF Raise, Answering
<1>10. QED
  BY <1>1, <1>2, <1>3, <1>4, <1>5, <1>6, <1>7, <1>8, <1>9 DEF Next, AgentStep, vars, service

LEMMA InitAnswering == Init => Answering
<1> SUFFICES ASSUME Init
             PROVE  Answering
  OBVIOUS
<1>1. phase = "model" /\ answer = NoAnswer
  BY DEF Init
<1>2. Covered(answer)
  BY <1>1, NoAnswerIsBlank, BlankCovered
<1>3. QED
  BY <1>1, <1>2 DEF Answering

LEMMA AnswersHold == Spec => [](Sound /\ Told /\ Answering)
<1>1. Init => Sound /\ Told /\ Answering
  BY InitHolds, InitAnswering
<1>2. (Sound /\ Told /\ Answering) /\ [Next]_vars => (Sound /\ Told /\ Answering)'
  BY ToldStep, SoundStep, AnsweringStep DEF Told
<1>3. QED
  BY <1>1, <1>2, PTL DEF Spec

\* _execute_query: an answer without an error and without a timeout is the whole of
\* a completed query, and its chart is whole or says that it was cut, whatever the
\* service does between two polls and after the deadline.
THEOREM UnqualifiedIsComplete == Spec => []OnlyCompleteIsUnqualified
<1>1. Answering => OnlyCompleteIsUnqualified
  BY DEF Answering, Qualified, OnlyCompleteIsUnqualified
<1>2. QED
  BY <1>1, AnswersHold, PTL

\* The digest tier loses no row that was read and shows a worst one literally,
\* for every payload, chunk size and set of chunks that could not be summarized.
THEOREM NoRowIsLost == Spec => []RowsCovered
<1>1. Answering => RowsCovered
  BY DEF Answering, Covered, RowsCovered
<1>2. QED
  BY <1>1, AnswersHold, PTL
=============================================================================
