--------------------------- MODULE EksAgentProofs ---------------------------
(***************************************************************************)
(* Theorems about EksAgent for every set of workloads, every list of       *)
(* selectors and any number of changes and of failing API calls.           *)
(***************************************************************************)
EXTENDS EksAgent, TLAPS, FiniteSetTheorems, WellFoundedInduction

\* detect_recent_changes ended before it read anything, although it may have been asked.
NotRead == ~enabled \/ <<"no cluster config">> \in result.errors

\* Where the call is.
Placed ==
    /\ tool \in {"gather", "detect"}
    /\ tool = "gather" => phase \in {"start", "select", "pods", "nodes", "done", "raised"}
    /\ tool = "detect" => phase \in {"start", "deployment", "history", "done"}
    /\ DOMAIN asked = 1..Len(asked) /\ Len(asked) \in Nat
    /\ pos \in 1..(Len(asked) + 1)
    /\ phase = "start" => pos = 1
    /\ DOMAIN result = {"findings", "scanned", "errors"}
    /\ phase \in {"deployment", "history"} => pos <= Len(asked)
    /\ tool = "detect" /\ phase = "done" => pos = Len(asked) + 1 \/ NotRead

\* Something is said of a workload.
Told(w) == \/ w \in result.errors
           \/ \E f \in result.findings : f.of = w /\ f.kind # "in progress"
Empty == result.findings = {} /\ result.errors = {}

\* The workloads behind are told of; once the selectors are resolved there is
\* something to say or to examine.
Speaking ==
    /\ tool = "detect" => \A i \in 1..(pos - 1) : Told(asked[i])
    /\ phase = "pods" => ~Empty \/ collected # <<>>
    /\ tool = "gather" /\ phase \in {"nodes", "done"} => ~Empty

-----------------------------------------------------------------------------
(* A result only grows.                                                      *)

Grows == result.findings \subseteq result'.findings /\ result.errors \subseteq result'.errors

LEMMA FoundEffect ==
    ASSUME NEW r, DOMAIN r = {"findings", "scanned", "errors"}, NEW f
    PROVE  /\ DOMAIN Found(r, f) = DOMAIN r
           /\ Found(r, f).findings = r.findings \cup {f} /\ Found(r, f).errors = r.errors
BY DEF Found

LEMMA ScannedEffect ==
    ASSUME NEW r, DOMAIN r = {"findings", "scanned", "errors"}, NEW x
    PROVE  /\ DOMAIN Scanned(r, x) = DOMAIN r
           /\ Scanned(r, x).findings = r.findings /\ Scanned(r, x).errors = r.errors
BY DEF Scanned

LEMMA FailedEffect ==
    ASSUME NEW r, DOMAIN r = {"findings", "scanned", "errors"}, NEW what
    PROVE  /\ DOMAIN Failed(r, what) = DOMAIN r
           /\ Failed(r, what).errors = r.errors \cup {what} /\ Failed(r, what).findings = r.findings
BY DEF Failed

LEMMA RecordScopeEffect ==
    ASSUME NEW r, DOMAIN r = {"findings", "scanned", "errors"}, NEW selector, NEW how
    PROVE  LET f == [kind |-> "scope", selector |-> selector, scope |-> how]
           IN  /\ DOMAIN RecordScope(selector, how, r) = DOMAIN r
               /\ RecordScope(selector, how, r).findings = r.findings \cup {f}
               /\ RecordScope(selector, how, r).errors = r.errors
<1> DEFINE f == [kind |-> "scope", selector |-> selector, scope |-> how]
<1> HIDE DEF f
<1>1. DOMAIN Found(r, f) = DOMAIN r /\ Found(r, f).findings = r.findings \cup {f}
      /\ Found(r, f).errors = r.errors
  BY FoundEffect
<1>2. RecordScope(selector, how, r) = Scanned(Found(r, f), <<"scope", selector>>)
  BY DEF RecordScope, f
<1> DEFINE q == Found(r, f)
<1> HIDE DEF q
<1>3. /\ DOMAIN Scanned(q, <<"scope", selector>>) = DOMAIN q
      /\ Scanned(q, <<"scope", selector>>).findings = q.findings
      /\ Scanned(q, <<"scope", selector>>).errors = q.errors
  BY <1>1, ScannedEffect DEF q
<1>4. QED
  BY <1>1, <1>2, <1>3 DEF q, f

-----------------------------------------------------------------------------
(* Where the call is, and what it has said.                                  *)

LEMMA InitSpeaks == Init => Placed /\ Speaking
<1> SUFFICES ASSUME Init
             PROVE  Placed /\ Speaking
  OBVIOUS
<1>1. DOMAIN asked = 1..Len(asked) /\ Len(asked) \in Nat /\ pos = 1
  BY ClusterAssumption DEF Init
<1>2. tool \in {"gather", "detect"} /\ phase = "start"
  BY DEF Init
<1>3. DOMAIN result = {"findings", "scanned", "errors"}
  BY DEF Init
<1>4. Placed
  BY <1>1, <1>2, <1>3 DEF Placed
<1>5. QED
  BY <1>1, <1>2, <1>4 DEF Speaking

\* The call begins, or an exception leaves gather_eks_state.
LEMMA BeginStep ==
    ASSUME Placed, Speaking, Begin \/ BeginFails \/ Raise
    PROVE  Placed' /\ Speaking'
<1>1. UNCHANGED <<tool, enabled, asked, pos>> /\ phase \notin {"done", "raised"}
  BY DEF Begin, BeginFails, Raise
<1>2. ASSUME NEW what, result' = Failed(result, what)
      PROVE  DOMAIN result' = DOMAIN result /\ what \in result'.errors
  BY <1>2, FailedEffect DEF Placed
<1>3. CASE phase = "start" /\ tool = "gather"
  <2>1. pos = 1 /\ UNCHANGED <<tool, enabled, asked, pos>>
    BY <1>1, <1>3 DEF Placed
  <2>2. CASE phase' = "done" /\ result' = Failed(result, <<"no selectors">>)
    <3>1. DOMAIN result' = DOMAIN result /\ result'.errors # {}
      BY <1>2, <2>2
    <3>2. Placed'
      BY <1>3, <2>1, <2>2, <3>1 DEF Placed
    <3>3. QED
      BY <1>3, <2>1, <2>2, <3>1, <3>2 DEF Speaking, Empty
  <2>3. CASE phase' \in {"select", "raised"} /\ UNCHANGED result
    <3>1. Placed'
      BY <1>3, <2>1, <2>3 DEF Placed
    <3>2. QED
      BY <1>3, <2>1, <2>3, <3>1 DEF Speaking
  <2>4. QED
    BY <1>3, <2>2, <2>3 DEF Begin, BeginFails, Raise
<1>4. CASE phase = "start" /\ tool = "detect"
  <2>1. pos = 1 /\ tool' = "detect" /\ UNCHANGED <<enabled, asked, pos>> /\ Len(asked) \in Nat
    BY <1>1, <1>4 DEF Placed
  <2>2. ASSUME phase' \in {"deployment", "done"}
        PROVE  Speaking'
    <3>1. \A i \in 1..(pos' - 1) : FALSE
      BY <2>1
    <3>2. tool' # "gather" /\ phase' # "pods"
      BY <2>1, <2>2
    <3>3. QED
      BY <3>1, <3>2 DEF Speaking
  <2>3. CASE Begin
    <3>1. /\ phase' = IF enabled /\ Len(asked) > 0 THEN "deployment" ELSE "done"
          /\ UNCHANGED result
      BY <1>4, <2>3 DEF Begin
    <3>2. \/ phase' = "deployment" /\ pos <= Len(asked)
          \/ phase' = "done" /\ (pos = Len(asked) + 1 \/ NotRead')
      <4>1. CASE ~enabled
        <5>1. phase' = "done" /\ ~enabled'
          BY <2>1, <3>1, <4>1, Zenon
        <5>2. QED
          BY <5>1, Zenon DEF NotRead
      <4>2. CASE enabled /\ Len(asked) > 0
        BY <2>1, <3>1, <4>2
      <4>3. CASE enabled /\ ~(Len(asked) > 0)
        <5>1. phase' = "done" /\ pos = Len(asked) + 1
          BY <2>1, <3>1, <4>3
        <5>2. QED
          BY <5>1
      <4>4. QED
        BY <4>1, <4>2, <4>3, Zenon
    <3>3. Placed'
      BY <1>4, <2>1, <3>1, <3>2 DEF Placed
    <3>4. phase' \in {"deployment", "done"}
      BY <3>1
    <3>5. QED
      BY <2>2, <3>3, <3>4
  <2>4. CASE BeginFails
    <3>1. phase' = "done" /\ result' = Failed(result, <<"no cluster config">>)
      BY <2>4 DEF BeginFails
    <3>2. DOMAIN result' = DOMAIN result /\ NotRead'
      BY <1>2, <3>1 DEF NotRead
    <3>3. Placed'
      BY <1>4, <2>1, <3>1, <3>2 DEF Placed
    <3>4. QED
      BY <2>2, <3>1, <3>3
  <2>5. QED
    BY <1>4, <2>3, <2>4 DEF Raise
<1>5. CASE phase # "start"
  <2>1. tool = "gather" /\ phase' = "raised" /\ UNCHANGED result
    BY <1>5 DEF Begin, BeginFails, Raise
  <2>2. Placed'
    BY <1>1, <2>1 DEF Placed
  <2>3. QED
    BY <1>1, <2>1, <2>2 DEF Speaking
<1>6. QED
  BY <1>3, <1>4, <1>5 DEF Placed

\* A step of gather_eks_state before its nodes.
LEMMA SelectorStep ==
    ASSUME Placed, Speaking, LookUp \/ LookUpFails
    PROVE  Placed' /\ Speaking'
<1>1. /\ phase = "select" /\ phase' = phase /\ pos <= Len(asked)
      /\ UNCHANGED <<tool, enabled, asked>> /\ pos' \in {pos, pos + 1}
  BY DEF LookUp, LookUpFails, NextSelector
<1>2. tool = "gather"
  BY <1>1 DEF Placed
<1>3. DOMAIN result' = DOMAIN result
  <2>1. CASE LookUp
    <3>1. \/ UNCHANGED result
          \/ \E how : result' = RecordScope(Item, how, result)
      BY <2>1 DEF LookUp
    <3>2. ASSUME NEW how
          PROVE  DOMAIN RecordScope(Item, how, result) = DOMAIN result
      BY RecordScopeEffect DEF Placed
    <3>3. QED
      BY <3>1, <3>2
  <2>2. CASE LookUpFails
    BY <2>2, FailedEffect DEF LookUpFails, Placed
  <2>3. QED
    BY <2>1, <2>2
<1>4. Placed'
  BY <1>1, <1>2, <1>3 DEF Placed
<1>5. QED
  BY <1>1, <1>2, <1>4 DEF Speaking

LEMMA SelectedStep ==
    ASSUME Placed, Speaking, Selected
    PROVE  Placed' /\ Speaking'
<1>1. phase = "select" /\ tool = "gather" /\ UNCHANGED <<tool, enabled, asked, pos, collected>>
  BY DEF Selected, Placed
<1>2. CASE collected = <<>> /\ result.errors = {}
  <2>1. phase' = "done" /\ result' = Failed(result, <<"no pods found">>)
    BY <1>2 DEF Selected
  <2>2. DOMAIN Failed(result, <<"no pods found">>) = DOMAIN result
        /\ Failed(result, <<"no pods found">>).errors = result.errors \cup {<<"no pods found">>}
    BY FailedEffect DEF Placed
  <2>3. DOMAIN result' = DOMAIN result /\ result'.errors # {}
    BY <2>1, <2>2
  <2>4. ~Empty'
    BY <2>3 DEF Empty
  <2>5. QED
    BY <1>1, <2>1, <2>3, <2>4 DEF Placed, Speaking
<1>3. CASE ~(collected = <<>> /\ result.errors = {})
  <2>1. phase' = "pods" /\ UNCHANGED result
    BY <1>3 DEF Selected
  <2>2. Empty' => collected' # <<>>
    BY <1>1, <1>3, <2>1 DEF Empty
  <2>3. QED
    BY <1>1, <2>1, <2>2 DEF Placed, Speaking
<1>4. QED
  BY <1>2, <1>3

\* A pod is a finding of its own.
LEMMA PodEffect ==
    ASSUME Placed, GatherPod
    PROVE  /\ DOMAIN result' = DOMAIN result
           /\ \E f : /\ f.kind = "pod" /\ f.pod = Head(collected)
                     /\ result'.findings = result.findings \cup {f}
<1>1. PICK events, tail, shown, unread :
        result' = PodGathered(Head(collected), events, tail, shown, unread)
  BY DEF GatherPod
<1> DEFINE f == [kind |-> "pod", pod |-> Head(collected), events |-> events,
                 tail |-> tail = "lines", shown |-> shown]
           r == Scanned(Found(result, f), PodName(Head(collected)))
<1>2. f.kind = "pod" /\ f.pod = Head(collected)
  OBVIOUS
<1>3. result' = [r EXCEPT !.errors = r.errors \cup unread]
  BY <1>1 DEF PodGathered
<1> HIDE DEF f
<1>4. DOMAIN r = DOMAIN result /\ r.findings = result.findings \cup {f}
  <2>1. DOMAIN Found(result, f) = DOMAIN result
        /\ Found(result, f).findings = result.findings \cup {f}
    BY FoundEffect DEF Placed
  <2> DEFINE q == Found(result, f)
  <2> HIDE DEF q
  <2>2. DOMAIN Scanned(q, PodName(Head(collected))) = DOMAIN q
        /\ Scanned(q, PodName(Head(collected))).findings = q.findings
    BY <2>1, ScannedEffect DEF Placed, q
  <2>3. QED
    BY <2>1, <2>2 DEF q
<1> HIDE DEF r
<1>5. DOMAIN result' = DOMAIN result /\ result'.findings = r.findings
  BY <1>3, <1>4 DEF Placed
<1>6. QED
  BY <1>2, <1>4, <1>5

LEMMA PodStep ==
    ASSUME Placed, Speaking, GatherPod \/ PodsDone
    PROVE  Placed' /\ Speaking'
<1>1. phase = "pods" /\ tool = "gather" /\ UNCHANGED <<tool, enabled, asked, pos>>
  BY DEF GatherPod, PodsDone, Placed
<1>2. CASE GatherPod
  <2>1. DOMAIN result' = DOMAIN result /\ ~Empty' /\ phase' = phase
    BY <1>2, PodEffect DEF GatherPod, Empty
  <2>2. QED
    BY <1>1, <2>1 DEF Placed, Speaking
<1>3. CASE PodsDone
  <2>1. UNCHANGED result /\ phase' = "nodes" /\ ~Empty
    BY <1>1, <1>3 DEF PodsDone, Speaking
  <2>2. ~Empty'
    BY <2>1 DEF Empty
  <2>3. QED
    BY <1>1, <2>1, <2>2 DEF Placed, Speaking
<1>4. QED
  BY <1>2, <1>3

\* A node is a finding or an error.
LEMMA NodeEffect ==
    ASSUME Placed, NEW n, GatherNode(n)
    PROVE  /\ DOMAIN result' = DOMAIN result
           /\ \/ \E f : /\ f.kind = "node"
                        /\ result'.findings = result.findings \cup {f}
                        /\ result'.errors = result.errors
              \/ result' = Failed(result, <<"node", n>>)
<1>1. CASE result' = Failed(result, <<"node", n>>)
  BY <1>1, FailedEffect DEF Placed
<1>2. ASSUME NEW severity,
             result' = Scanned(Found(result, [kind |-> "node", node |-> n,
                                              severity |-> severity]), <<"node", n>>)
      PROVE  /\ DOMAIN result' = DOMAIN result
             /\ \E f : /\ f.kind = "node"
                       /\ result'.findings = result.findings \cup {f}
                       /\ result'.errors = result.errors
  <2> DEFINE f == [kind |-> "node", node |-> n, severity |-> severity]
  <2>1. f.kind = "node"
    OBVIOUS
  <2> HIDE DEF f
  <2>2. DOMAIN Found(result, f) = DOMAIN result
        /\ Found(result, f).findings = result.findings \cup {f}
        /\ Found(result, f).errors = result.errors
    BY FoundEffect DEF Placed
  <2> DEFINE q == Found(result, f)
  <2> HIDE DEF q
  <2>3. DOMAIN Scanned(q, <<"node", n>>) = DOMAIN q
        /\ Scanned(q, <<"node", n>>).findings = q.findings
        /\ Scanned(q, <<"node", n>>).errors = q.errors
    BY <2>2, ScannedEffect DEF Placed, q
  <2>4. result' = Scanned(q, <<"node", n>>)
    BY <1>2 DEF q, f
  <2>5. QED
    BY <2>1, <2>2, <2>3, <2>4 DEF q
<1>3. \/ result' = Failed(result, <<"node", n>>)
      \/ \E severity : result' = Scanned(Found(result, [kind |-> "node", node |-> n,
                                                        severity |-> severity]), <<"node", n>>)
  BY DEF GatherNode
<1>4. QED
  BY <1>1, <1>2, <1>3

LEMMA NodeStep ==
    ASSUME Placed, Speaking, (\E n \in nodes : GatherNode(n)) \/ NodesDone
    PROVE  Placed' /\ Speaking'
<1>1. CASE \E n \in nodes : GatherNode(n)
  <2>1. PICK n \in nodes : GatherNode(n)
    BY <1>1
  <2>2. phase = "nodes" /\ phase' = phase /\ UNCHANGED <<tool, enabled, asked, pos>>
    BY <2>1 DEF GatherNode
  <2>3. tool = "gather" /\ ~Empty
    BY <2>2 DEF Placed, Speaking
  <2>4. DOMAIN result' = DOMAIN result /\ ~Empty'
    <3>1. DOMAIN Failed(result, <<"node", n>>) = DOMAIN result
          /\ Failed(result, <<"node", n>>).errors = result.errors \cup {<<"node", n>>}
      BY FailedEffect DEF Placed
    <3>2. QED
      BY <2>1, <3>1, NodeEffect DEF Empty
  <2>5. QED
    BY <2>2, <2>3, <2>4 DEF Placed, Speaking
<1>2. CASE NodesDone
  <2>1. UNCHANGED result /\ phase = "nodes" /\ phase' = "done" /\ UNCHANGED <<tool, enabled, asked, pos>>
    BY <1>2 DEF NodesDone
  <2>2. tool = "gather" /\ ~Empty /\ ~Empty'
    BY <2>1 DEF Placed, Speaking, Empty
  <2>3. QED
    BY <2>1, <2>2 DEF Placed, Speaking
<1>3. QED
  BY <1>1, <1>2

\* detect_recent_changes goes on to the next workload when it has said something of this.
LEMMA WorkloadBehind ==
    ASSUME Placed, Speaking, tool = "detect", phase \in {"deployment", "history"}, NextWorkload,
           NEW w, w = Item, Told(w)', Grows, DOMAIN result' = DOMAIN result, UNCHANGED <<tool, enabled, asked>>
    PROVE  Placed' /\ Speaking'
<1>0. pos' = pos + 1 /\ phase' = IF pos = Len(asked) THEN "done" ELSE "deployment"
  BY DEF NextWorkload
<1>1. pos \in 1..Len(asked)
  BY DEF Placed
<1>2. Placed'
  <2>1. pos' \in 1..(Len(asked) + 1) /\ phase' \in {"deployment", "done"}
        /\ (phase' = "done" => pos' = Len(asked) + 1) /\ (phase' # "done" => pos' <= Len(asked))
    BY <1>0, <1>1
  <2>2. tool' = "detect" /\ asked' = asked /\ DOMAIN result' = {"findings", "scanned", "errors"}
    BY DEF Placed
  <2>3. DOMAIN asked = 1..Len(asked) /\ Len(asked) \in Nat
    BY DEF Placed
  <2>4. QED
    BY <2>1, <2>2, <2>3 DEF Placed
<1>3. ASSUME NEW i \in 1..pos
      PROVE  Told(asked[i])'
  <2>1. CASE i = pos
    BY <2>1 DEF Told, Item
  <2>2. CASE i # pos
    <3>1. Told(asked[i])
      BY <1>1, <2>2 DEF Speaking
    <3>2. QED
      BY <3>1 DEF Told, Grows
  <2>3. QED
    BY <2>1, <2>2
<1>4. QED
  BY <1>0, <1>1, <1>2, <1>3 DEF Speaking

LEMMA DetectStep ==
    ASSUME Placed, Speaking, ReadDeployment \/ ReadFails \/ ReadHistory
    PROVE  Placed' /\ Speaking'
<1>1. phase \in {"deployment", "history"} /\ UNCHANGED <<tool, enabled, asked>>
  BY DEF ReadDeployment, ReadFails, ReadHistory
<1>2. tool = "detect" /\ phase # "done" /\ DOMAIN result = {"findings", "scanned", "errors"}
  BY <1>1 DEF Placed
<1>3. ASSUME NextWorkload,
             \/ \E f : f.of = Item /\ f.kind # "in progress" /\ result' = Found(result, f)
             \/ result' = Failed(result, Item)
      PROVE  Placed' /\ Speaking'
  <2>1. CASE \E f : f.of = Item /\ f.kind # "in progress" /\ result' = Found(result, f)
    <3>1. PICK f : f.of = Item /\ f.kind # "in progress" /\ result' = Found(result, f)
      BY <2>1
    <3>2. DOMAIN Found(result, f) = DOMAIN result
          /\ Found(result, f).findings = result.findings \cup {f}
          /\ Found(result, f).errors = result.errors
      BY <1>2, FoundEffect
    <3>3. ASSUME NEW w, w = Item
          PROVE  Told(w)'
      BY <3>1, <3>2, <3>3 DEF Told
    <3>4. DOMAIN result' = DOMAIN result /\ Grows
      BY <3>1, <3>2 DEF Grows
    <3>5. QED
      BY <1>1, <1>2, <1>3, <3>3, <3>4, WorkloadBehind
  <2>2. CASE result' = Failed(result, Item)
    <3>1. DOMAIN Failed(result, Item) = DOMAIN result
          /\ Failed(result, Item).errors = result.errors \cup {Item}
          /\ Failed(result, Item).findings = result.findings
      BY <1>2, FailedEffect
    <3>2. ASSUME NEW w, w = Item
          PROVE  Told(w)'
      BY <2>2, <3>1, <3>2 DEF Told
    <3>3. DOMAIN result' = DOMAIN result /\ Grows
      BY <2>2, <3>1 DEF Grows
    <3>4. QED
      BY <1>1, <1>2, <1>3, <3>2, <3>3, WorkloadBehind
  <2>3. QED
    BY <1>3, <2>1, <2>2
<1>4. CASE ReadDeployment
  <2>1. CASE Item \notin live \cap Deployments
    <3>1. result' = Found(result, [kind |-> "unknown", of |-> Item]) /\ NextWorkload
      BY <1>4, <2>1 DEF ReadDeployment
    <3>2. QED
      BY <1>3, <3>1
  <2>2. CASE Item \in live \cap Deployments
    <3> DEFINE r == Scanned(result, Item)
    <3>1. /\ result' = IF Item \in lagging
                       THEN Found(r, [kind |-> "in progress", of |-> Item]) ELSE r
          /\ phase' = "history" /\ pos' = pos
      BY <1>4, <2>2 DEF ReadDeployment
    <3>2. DOMAIN r = DOMAIN result /\ r.findings = result.findings /\ r.errors = result.errors
      BY <1>2, ScannedEffect
    <3> HIDE DEF r
    <3>3. ASSUME NEW f
          PROVE  DOMAIN Found(r, f) = DOMAIN r /\ Found(r, f).errors = r.errors
                 /\ Found(r, f).findings = r.findings \cup {f}
      BY <1>2, <3>2, FoundEffect
    <3>4. DOMAIN result' = DOMAIN result /\ Grows
      BY <3>1, <3>2, <3>3 DEF Grows
    <3>5. Placed'
      BY <1>1, <1>2, <3>1, <3>4 DEF Placed
    <3>6. Speaking'
      BY <1>1, <1>2, <3>1, <3>4 DEF Speaking, Told, Grows, Placed
    <3>7. QED
      BY <3>5, <3>6
  <2>3. QED
    BY <2>1, <2>2
<1>5. CASE ReadFails
  BY <1>3, <1>5 DEF ReadFails
<1>6. CASE ReadHistory
  <2>1. CASE result' = NoHistory(Item, result)
    <3>1. result' = Found(result, [kind |-> "no history", of |-> Item]) /\ NextWorkload
      BY <1>6, <2>1 DEF NoHistory, ReadHistory
    <3>2. QED
      BY <1>3, <3>1
  <2>2. CASE \E new, old, severity : result' = Found(result,
               [kind |-> "rollout", of |-> Item, new |-> new, old |-> old, severity |-> severity])
    <3>1. NextWorkload
      BY <1>6 DEF ReadHistory
    <3>2. QED
      BY <1>3, <2>2, <3>1
  <2>3. QED
    BY <1>6, <2>1, <2>2 DEF ReadHistory
<1>7. QED
  BY <1>4, <1>5, <1>6

LEMMA Elsewhere ==
    ASSUME Placed, Speaking, ClusterStep \/ UNCHANGED vars
    PROVE  Placed' /\ Speaking'
<1>1. UNCHANGED call
  BY DEF ClusterStep, ChangeSpec, Reconcile, Prune, Replace, Delete, Change, vars
<1>2. QED
  BY <1>1 DEF Placed, NotRead, Speaking, Told, Empty, call

LEMMA SpeakingStep == Placed /\ Speaking /\ [Next]_vars => Placed' /\ Speaking'
BY BeginStep, SelectorStep, SelectedStep, PodStep, NodeStep, DetectStep, Elsewhere DEF Next, ToolStep

LEMMA SilenceIsAnError == Placed /\ Speaking => NeverSilent
<1> SUFFICES ASSUME Placed, Speaking, Done
             PROVE  /\ Empty => tool = "detect" /\ (~enabled \/ Len(asked) = 0)
                    /\ tool = "detect" /\ enabled => \A i \in DOMAIN asked :
                         <<"no cluster config">> \in result.errors \/ Told(asked[i])
  BY DEF NeverSilent, Told, Empty
<1>1. CASE tool = "gather"
  BY <1>1 DEF Speaking, Done
<1>2. CASE tool = "detect" /\ ~enabled
  BY <1>2
<1>3. CASE tool = "detect" /\ <<"no cluster config">> \in result.errors
  BY <1>3 DEF Empty
<1>4. CASE tool = "detect" /\ pos = Len(asked) + 1
  <2>1. pos - 1 = Len(asked) /\ DOMAIN asked = 1..Len(asked) /\ Len(asked) \in Nat
    BY <1>4 DEF Placed
  <2>2. \A i \in DOMAIN asked : Told(asked[i])
    BY <1>4, <2>1 DEF Speaking
  <2>3. Len(asked) # 0 => 1 \in DOMAIN asked
    BY <2>1
  <2>4. Empty => Len(asked) = 0
    BY <2>2, <2>3 DEF Told, Empty
  <2>5. QED
    BY <1>4, <2>2, <2>4
<1>5. QED
  BY <1>1, <1>2, <1>3, <1>4 DEF Placed, NotRead, Done

\* A call of either tool that is finished has a finding or an error, unless it is a
\* detect_recent_changes that is switched off or asked for nothing, and one that is
\* switched on says something of every workload it was asked for, or that it could not
\* read the cluster, however many changes and failing calls there are.
THEOREM NothingGoesUnsaid == Spec => []NeverSilent
<1>1. Init => Placed /\ Speaking
  BY InitSpeaks
<1>2. (Placed /\ Speaking) /\ [Next]_vars => (Placed /\ Speaking)'
  BY SpeakingStep
<1>3. Placed /\ Speaking => NeverSilent
  BY SilenceIsAnError
<1>4. QED
  BY <1>1, <1>2, <1>3, PTL DEF Spec

-----------------------------------------------------------------------------
(* Sequences and finite sets.                                                *)

LEMMA SetToSeqType ==
    ASSUME NEW S, IsFiniteSet(S)
    PROVE  SetToSeq(S) \in Seq(S)
<1>1. PICK n \in Nat : ExistsBijection(1..n, S)
  BY FS_NatBijection
<1>2. Cardinality(S) = n
  BY <1>1, FS_CountingElements
<1>3. PICK f \in [1..n -> S] : IsInjective(f)
  BY <1>1 DEF ExistsBijection, Bijection, Injection
<1>4. SetToSeq(S) \in [1..n -> S]
  BY <1>2, <1>3 DEF SetToSeq
<1>5. QED
  BY <1>4

LEMMA ImageIsFinite ==
    ASSUME NEW S, IsFiniteSet(S), NEW f, DOMAIN f = S, f = [x \in S |-> f[x]]
    PROVE  IsFiniteSet({f[x] : x \in S})
<1> DEFINE T == {f[x] : x \in S}
<1>1. f \in [S -> T] /\ \A t \in T : \E x \in S : f[x] = t
  OBVIOUS
<1>2. f \in Surjection(S, T)
  BY <1>1 DEF Surjection
<1>3. QED
  BY <1>2, FS_Surjection

LEMMA ConcatType ==
    ASSUME NEW S, NEW s \in Seq(S), NEW t \in Seq(S)
    PROVE  s \o t \in Seq(S) /\ Len(s \o t) = Len(s) + Len(t) /\ Len(s) \in Nat
OBVIOUS

-----------------------------------------------------------------------------
(* What a selector is looked up as.                                          *)

\* A selector is a label with its workload, or a name in parts.
Selector(x) ==
    /\ Len(x) \in Nat \ {0} /\ x = [n \in 1..Len(x) |-> x[n]]
    /\ x[1] = "label" => x = <<"label", x[2]>>

LEMMA CandidateIs ==
    ASSUME NEW x, Selector(x), NEW i \in DOMAIN Candidates(x)
    PROVE  /\ IsStrictPrefix(Candidates(x)[i], x)
           /\ DOMAIN Candidates(x) = 1..Len(Candidates(x)) /\ Len(Candidates(x)) \in Nat
<1> DEFINE S == {x[n] : n \in 1..Len(x)}
           m == IF Len(x) > 2 THEN 2 ELSE Len(x) - 1
<1>1. Len(x) \in Nat \ {0} /\ x \in Seq(S)
  BY DEF Selector
<1>2. m \in Nat /\ m < Len(x)
  BY <1>1
<1>3. Candidates(x) = [k \in 1..m |-> SubSeq(x, 1, Len(x) - k)]
  BY DEF Candidates
<1>4. DOMAIN Candidates(x) = 1..m /\ i \in 1..m /\ Candidates(x)[i] = SubSeq(x, 1, Len(x) - i)
  BY <1>3
<1>5. Len(Candidates(x)) = m
  BY <1>2, <1>3
<1> HIDE DEF m, S
<1> DEFINE k == Len(x) - i
           c == SubSeq(x, 1, k)
<1>6. k \in 0..(Len(x) - 1)
  BY <1>1, <1>2, <1>4
<1>7. Len(c) = k /\ c \in Seq(S)
  BY <1>1, <1>6
<1>8. SubSeq(c, 1, Len(c)) = SubSeq(x, 1, Len(c))
  BY <1>1, <1>6, <1>7
<1>9. c # x /\ Len(c) <= Len(x)
  BY <1>1, <1>6, <1>7
<1>10. IsStrictPrefix(c, x)
  BY <1>8, <1>9 DEF IsStrictPrefix, IsPrefix
<1>11. QED
  BY <1>2, <1>4, <1>5, <1>10

Fits(l, x) ==
    \/ l.how = "label" /\ x = <<"label", l.name>>
    \/ l.how \in {"workload", "exact pod"} /\ l.name = x
    \/ l.how = "owning workload" /\ IsStrictPrefix(l.name, x)
    \/ l.how = "namespace-wide"

LEMMA LookupIs ==
    ASSUME NEW x, Selector(x)
    PROVE  /\ Len(Lookups(x)) \in Nat \ {0}
           /\ \A n \in 1..Len(Lookups(x)) : Fits(Lookups(x)[n], x)
<1>1. CASE IsLabel(x)
  <2> DEFINE l == [how |-> "label", name |-> x[2]]
  <2>1. l.how = "label" /\ x = <<"label", l.name>>
    BY <1>1 DEF Selector, IsLabel
  <2> HIDE DEF l
  <2>2. Lookups(x) = <<l>>
    BY <1>1 DEF Lookups, l
  <2>3. Len(Lookups(x)) = 1 /\ Lookups(x)[1] = l
    BY <2>2
  <2>4. Fits(l, x)
    BY <2>1 DEF Fits
  <2>5. ASSUME NEW n \in 1..Len(Lookups(x))
        PROVE  Lookups(x)[n] = l
    BY <2>3
  <2>6. QED
    BY <2>3, <2>4, <2>5
<1>2. CASE ~IsLabel(x)
  <2> DEFINE w == [how |-> "workload", name |-> x]
             e == [how |-> "exact pod", name |-> x]
             o(i) == [how |-> "owning workload", name |-> Candidates(x)[i]]
             a == [how |-> "namespace-wide", name |-> <<>>]
             m == Len(Candidates(x))
             L == {w, e, a} \cup {o(i) : i \in 1..m}
  <2>1. DOMAIN Candidates(x) = 1..m /\ m \in Nat
    BY DEF Candidates, Selector
  <2>2. Fits(w, x) /\ Fits(e, x) /\ Fits(a, x)
    BY DEF Fits
  <2>3. ASSUME NEW i \in 1..m
        PROVE  Fits(o(i), x)
    <3>1. IsStrictPrefix(Candidates(x)[i], x)
      BY <2>1, CandidateIs
    <3>2. QED
      BY <3>1 DEF Fits
  <2>4. Lookups(x) = (<<w, e>> \o [i \in 1..m |-> o(i)]) \o <<a>>
    BY <1>2, <2>1 DEF Lookups
  <2> HIDE DEF w, e, o, a, m
  <2>5. <<w, e>> \in Seq(L) /\ [i \in 1..m |-> o(i)] \in Seq(L) /\ <<a>> \in Seq(L)
        /\ Len(<<w, e>>) = 2 /\ Len(<<a>>) = 1
    BY <2>1
  <2>6. \A l \in L : Fits(l, x)
    BY <2>2, <2>3
  <2> HIDE DEF L
  <2> DEFINE A == <<w, e>>
             B == [i \in 1..m |-> o(i)]
             C == <<a>>
  <2>7. A \in Seq(L) /\ B \in Seq(L) /\ C \in Seq(L) /\ Len(A) = 2 /\ Len(C) = 1
        /\ Lookups(x) = (A \o B) \o C
    BY <2>4, <2>5
  <2> HIDE DEF A, B, C
  <2>8. A \o B \in Seq(L) /\ Len(A \o B) \in Nat
    BY <2>7, ConcatType
  <2> DEFINE D == A \o B
  <2> HIDE DEF D
  <2>9. Lookups(x) \in Seq(L) /\ Len(Lookups(x)) \in Nat \ {0}
    <3>1. D \in Seq(L) /\ Lookups(x) = D \o C /\ Len(D) \in Nat
      BY <2>7, <2>8 DEF D
    <3>2. D \o C \in Seq(L) /\ Len(D \o C) = Len(D) + Len(C)
      BY <2>7, <3>1, ConcatType
    <3>3. QED
      BY <2>7, <3>1, <3>2
  <2>10. \A n \in 1..Len(Lookups(x)) : Lookups(x)[n] \in L
    BY <2>9
  <2>11. QED
    BY <2>6, <2>9, <2>10
<1>3. QED
  BY <1>1, <1>2

-----------------------------------------------------------------------------
(* The pods that are inspected are named by a selector or by a finding.      *)

Justified(p) ==
    \/ \E i \in DOMAIN asked : asked[i] \in {p.of, <<"label", p.of>>}
    \/ \E s \in Kind("scope") :
          \/ s.scope = "namespace-wide"
          \/ s.scope = "owning workload" /\ IsStrictPrefix(p.of, s.selector)
          \/ s.scope = "exact pod" /\ s.selector = PodName(p)

Scoped ==
    /\ asked \in Selectors /\ IsFiniteSet(pods)
    /\ phase \in {"start", "select"} /\ pos <= Len(asked) =>
          look \in 1..Len(Lookups(asked[pos]))
    /\ \E S : collected \in Seq(S) /\ \A p \in S : Justified(p)
    /\ \A f \in Kind("pod") : Justified(f.pod)

LEMMA AskedAre ==
    ASSUME asked \in Selectors, NEW i \in 1..Len(asked)
    PROVE  Selector(asked[i])
BY ClusterAssumption DEF Selector

LEMMA JustifiedStays ==
    ASSUME UNCHANGED asked, Grows, NEW p, Justified(p)
    PROVE  Justified(p)'
BY DEF Justified, Grows, Kind

LEMMA InitScoped == Init => Scoped
<1> SUFFICES ASSUME Init
             PROVE  Scoped
  OBVIOUS
<1>1. asked \in Selectors /\ pos = 1 /\ look = 1 /\ collected = <<>> /\ result.findings = {}
  BY DEF Init
<1>2. phase = "start"
  BY DEF Init
<1>3. pos <= Len(asked) => look \in 1..Len(Lookups(asked[pos]))
  <2>1. Len(asked) \in Nat
    BY <1>1, ClusterAssumption
  <2>2. QED
    BY <1>1, <2>1, AskedAre, LookupIs
<1>4. IsFiniteSet(pods)
  <2> DEFINE f == [d \in Deployments |-> [of |-> d, hash |-> Newest(SetsOf(d)).hash]]
             g == [w \in Daemons |-> [of |-> w, hash |-> 0]]
  <2>1. pods = {f[d] : d \in Deployments} \cup {g[w] : w \in Daemons}
    BY DEF Init
  <2>2. DOMAIN f = Deployments /\ f = [d \in Deployments |-> f[d]]
        /\ DOMAIN g = Daemons /\ g = [w \in Daemons |-> g[w]]
    OBVIOUS
  <2>3. IsFiniteSet(Deployments) /\ IsFiniteSet(Daemons)
    BY ClusterAssumption
  <2> HIDE DEF f, g
  <2>4. IsFiniteSet({f[d] : d \in Deployments}) /\ IsFiniteSet({g[w] : w \in Daemons})
    BY <2>2, <2>3, ImageIsFinite
  <2>5. QED
    BY <2>1, <2>4, FS_Union
<1>5. \E S : collected \in Seq(S) /\ \A p \in S : Justified(p)
  <2>1. collected \in Seq({}) /\ \A p \in {} : Justified(p)
    BY <1>1
  <2>2. QED
    BY <2>1
<1>6. \A f \in Kind("pod") : Justified(f.pod)
  BY <1>1 DEF Kind
<1>7. QED
  BY <1>1, <1>3, <1>4, <1>5, <1>6 DEF Scoped

\* The cluster's pods stay finite.
LEMMA PodsStayFinite ==
    ASSUME IsFiniteSet(pods), ClusterStep
    PROVE  IsFiniteSet(pods')
<1>1. ASSUME NEW w, NEW h, pods' = {p \in pods : p.of # w} \cup {[of |-> w, hash |-> h]}
      PROVE  IsFiniteSet(pods')
  <2>1. IsFiniteSet({p \in pods : p.of # w})
    BY FS_Subset
  <2>2. QED
    BY <1>1, <2>1, FS_AddElement
<1>2. ASSUME NEW w, pods' = {p \in pods : p.of # w}
      PROVE  IsFiniteSet(pods')
  BY <1>2, FS_Subset
<1>3. CASE \E d \in Deployments : ChangeSpec(d)
  BY <1>3 DEF ChangeSpec
<1>4. CASE \E d \in Deployments : Reconcile(d)
  <2>1. \E d, h : pods' = {p \in pods : p.of # d} \cup {[of |-> d, hash |-> h]}
    BY <1>4 DEF Reconcile
  <2>2. QED
    BY <1>1, <2>1
<1>5. CASE \E s \in replicaSets : Prune(s)
  BY <1>5 DEF Prune
<1>6. CASE \E w \in Workloads : Replace(w)
  BY <1>1, <1>6 DEF Replace
<1>7. CASE \E w \in Workloads : Delete(w)
  BY <1>2, <1>7 DEF Delete
<1>8. QED
  BY <1>3, <1>4, <1>5, <1>6, <1>7 DEF ClusterStep

\* A step that collects no pod and describes none.
LEMMA OtherStep ==
    ASSUME Scoped, UNCHANGED <<asked, collected>>, IsFiniteSet(pods'), Grows,
           phase' \in {"start", "select"} /\ pos' <= Len(asked) => look' \in 1..Len(Lookups(asked[pos'])),
           \A f \in result'.findings : f \in result.findings \/ f.kind # "pod"
    PROVE  Scoped'
<1>1. PICK S : collected \in Seq(S) /\ \A p \in S : Justified(p)
  BY DEF Scoped
<1>2. \A p : Justified(p) => Justified(p)'
  BY JustifiedStays
<1>3. collected' \in Seq(S) /\ \A p \in S : Justified(p)'
  BY <1>1, <1>2
<1>4. ASSUME NEW f \in Kind("pod")'
      PROVE  Justified(f.pod)'
  BY <1>2 DEF Kind, Scoped
<1>5. QED
  BY <1>3, <1>4 DEF Scoped

\* The pods of a lookup are justified when its scope is recorded.
LEMMA FoundAreJustified ==
    ASSUME UNCHANGED asked, NEW i \in DOMAIN asked, NEW l, Fits(l, asked[i]), NEW p \in Matches(l),
           l.how \notin {"label", "workload"} =>
              \E s \in result'.findings :
                 s.kind = "scope" /\ s.selector = asked[i] /\ s.scope = l.how
    PROVE  Justified(p)'
<1>1. CASE l.how = "label"
  BY <1>1 DEF Fits, Matches, PodsOf, Justified
<1>2. CASE l.how = "workload"
  BY <1>2 DEF Fits, Matches, PodsOf, Justified
<1>3. CASE l.how = "exact pod"
  BY <1>3 DEF Fits, Matches, Justified, Kind
<1>4. CASE l.how = "owning workload"
  BY <1>4 DEF Fits, Matches, PodsOf, Justified, Kind
<1>5. CASE l.how = "namespace-wide"
  BY <1>5 DEF Justified, Kind
<1>6. QED
  BY <1>1, <1>2, <1>3, <1>4, <1>5 DEF Fits

LEMMA MatchesFinite ==
    ASSUME IsFiniteSet(pods), NEW l
    PROVE  IsFiniteSet(Matches(l))
<1>1. Matches(l) \in SUBSET pods
  BY DEF Matches, PodsOf
<1>2. QED
  BY <1>1, FS_Subset

\* Where the next lookup is.
LEMMA NextSelectorLook ==
    ASSUME Placed, Scoped, UNCHANGED asked, NextSelector
    PROVE  pos' <= Len(asked) => look' \in 1..Len(Lookups(asked[pos']))
<1> SUFFICES ASSUME pos' <= Len(asked)
             PROVE  look' \in 1..Len(Lookups(asked[pos']))
  OBVIOUS
<1>1. pos' \in 1..Len(asked) /\ look' = 1
  BY DEF Placed, NextSelector
<1>2. QED
  BY <1>1, AskedAre, LookupIs DEF Scoped

LEMMA LookUpScoped ==
    ASSUME Placed, Scoped, LookUp
    PROVE  Scoped'
<1> DEFINE l == Lookups(Item)[look]
           found == Matches(l)
<1>1. /\ phase = "select" /\ pos \in 1..Len(asked) /\ DOMAIN asked = 1..Len(asked)
      /\ UNCHANGED <<asked, phase, pods>> /\ asked \in Selectors
  BY DEF LookUp, Placed, Scoped, cluster
<1>2. Selector(Item) /\ Fits(l, Item) /\ Len(Lookups(Item)) \in Nat
      /\ look \in 1..Len(Lookups(Item))
  BY <1>1, AskedAre, LookupIs DEF Item, Scoped
<1>3. IsFiniteSet(pods) /\ IsFiniteSet(pods') /\ IsFiniteSet(found)
  BY <1>1, MatchesFinite DEF Scoped
<1>4. CASE found = {}
  <2>1. /\ IF look = Len(Lookups(Item)) THEN NextSelector ELSE look' = look + 1 /\ pos' = pos
        /\ UNCHANGED <<collected, result>>
    BY <1>4 DEF LookUp
  <2>2. pos' <= Len(asked) => look' \in 1..Len(Lookups(asked[pos']))
    <3>1. CASE look = Len(Lookups(Item))
      BY <1>1, <2>1, <3>1, NextSelectorLook
    <3>2. CASE look # Len(Lookups(Item))
      BY <1>2, <2>1, <3>2 DEF Item
    <3>3. QED
      BY <3>1, <3>2
  <2>3. QED
    BY <1>1, <1>3, <2>1, <2>2, OtherStep DEF Grows
<1>5. CASE found # {}
  <2>1. /\ collected' = collected \o SetToSeq(found \ ToSet(collected))
        /\ result' = IF l.how \in {"label", "workload"} THEN result
                     ELSE RecordScope(Item, l.how, result)
        /\ NextSelector
    BY <1>5 DEF LookUp
  <2>2. /\ Grows /\ \A f \in result'.findings : f \in result.findings \/ f.kind = "scope"
        /\ l.how \notin {"label", "workload"} =>
              \E s \in result'.findings : s.kind = "scope" /\ s.selector = Item /\ s.scope = l.how
    <3>1. CASE l.how \in {"label", "workload"}
      BY <2>1, <3>1 DEF Grows
    <3>2. CASE l.how \notin {"label", "workload"}
      <4> DEFINE how == l.how
                 f == [kind |-> "scope", selector |-> Item, scope |-> how]
      <4>1. result' = RecordScope(Item, how, result)
        BY <2>1, <3>2
      <4> HIDE DEF how
      <4>2. f.kind = "scope" /\ f.selector = Item /\ f.scope = how
        OBVIOUS
      <4>3. result'.findings = result.findings \cup {f} /\ result'.errors = result.errors
        BY <4>1, RecordScopeEffect DEF Placed
      <4> HIDE DEF f
      <4>4. QED
        BY <4>2, <4>3 DEF Grows, how
    <3>3. QED
      BY <3>1, <3>2
  <2>3. \A p \in found : Justified(p)'
    BY <1>1, <1>2, <2>2, FoundAreJustified DEF Item
  <2>4. PICK S : collected \in Seq(S) /\ \A p \in S : Justified(p)
    BY DEF Scoped
  <2>5. \A p \in S \cup found : Justified(p)'
    BY <1>1, <2>2, <2>3, <2>4, JustifiedStays
  <2>6. collected' \in Seq(S \cup found)
    <3> DEFINE rest == found \ ToSet(collected)
               more == SetToSeq(rest)
    <3>1. IsFiniteSet(rest)
      <4>1. rest \in SUBSET found
        OBVIOUS
      <4>2. QED
        BY <1>3, <4>1, FS_Subset
    <3>2. more \in Seq(rest)
      BY <3>1, SetToSeqType
    <3>3. rest \subseteq S \cup found
      OBVIOUS
    <3> HIDE DEF rest, more, found
    <3>4. more \in Seq(S \cup found) /\ collected \in Seq(S \cup found)
      BY <2>4, <3>2, <3>3
    <3>5. collected' = collected \o more
      BY <2>1 DEF more, rest, found
    <3>6. QED
      BY <3>4, <3>5
  <2>7. ASSUME NEW f \in Kind("pod")'
        PROVE  Justified(f.pod)'
    <3>1. f \in Kind("pod")
      BY <2>2 DEF Kind
    <3>2. QED
      BY <1>1, <2>2, <3>1, JustifiedStays DEF Scoped
  <2>8. pos' <= Len(asked) => look' \in 1..Len(Lookups(asked[pos']))
    BY <1>1, <2>1, NextSelectorLook
  <2>9. QED
    BY <1>1, <1>3, <2>5, <2>6, <2>7, <2>8 DEF Scoped
<1>6. QED
  BY <1>4, <1>5

LEMMA GatherPodScoped ==
    ASSUME Placed, Scoped, GatherPod
    PROVE  Scoped'
<1>1. /\ phase' \notin {"start", "select"} /\ collected # <<>> /\ collected' = Tail(collected)
      /\ UNCHANGED <<asked, pods>>
  BY DEF GatherPod, cluster
<1>2. PICK S : collected \in Seq(S) /\ \A p \in S : Justified(p)
  BY DEF Scoped
<1>3. Head(collected) \in S /\ collected' \in Seq(S)
  BY <1>1, <1>2
<1>4. PICK f : /\ f.kind = "pod" /\ f.pod = Head(collected)
               /\ result'.findings = result.findings \cup {f}
  BY PodEffect
<1>5. result.findings \subseteq result'.findings
  BY <1>4
<1>6. ASSUME NEW p, Justified(p)
      PROVE  Justified(p)'
  BY <1>1, <1>5, <1>6 DEF Justified, Kind
<1>7. ASSUME NEW g \in Kind("pod")'
      PROVE  Justified(g.pod)'
  <2>1. CASE g = f
    BY <1>2, <1>3, <1>4, <1>6, <2>1
  <2>2. CASE g # f
    BY <1>4, <1>6, <1>7, <2>2 DEF Kind, Scoped
  <2>3. QED
    BY <2>1, <2>2
<1>8. \E T : collected' \in Seq(T) /\ \A p \in T : Justified(p)'
  BY <1>2, <1>3, <1>6
<1>9. IsFiniteSet(pods') /\ asked' \in Selectors
  BY <1>1 DEF Scoped
<1>10. QED
  BY <1>1, <1>7, <1>8, <1>9 DEF Scoped

\* What a step of the tool that touches no pod adds to the result.
Adds ==
    Grows /\ \A f \in result'.findings : f \in result.findings \/ f.kind # "pod"

LEMMA FoundAdds ==
    ASSUME Placed, NEW f, f.kind # "pod", result' = Found(result, f)
    PROVE  Adds
BY FoundEffect DEF Placed, Adds, Grows

LEMMA FailedAdds ==
    ASSUME Placed, NEW what, result' = Failed(result, what)
    PROVE  Adds
BY FailedEffect DEF Placed, Adds, Grows

LEMMA SameAdds == UNCHANGED result => Adds
BY DEF Adds, Grows

LEMMA DetectAdds ==
    ASSUME Placed, ReadDeployment \/ ReadHistory
    PROVE  Adds
<1>1. CASE ReadDeployment
  <2> DEFINE r == Scanned(result, Item)
  <2>1. DOMAIN r = DOMAIN result /\ r.findings = result.findings /\ r.errors = result.errors
    BY ScannedEffect DEF Placed
  <2>2. \/ result' = Found(result, [kind |-> "unknown", of |-> Item])
        \/ result' = Found(r, [kind |-> "in progress", of |-> Item])
        \/ result' = r
    BY <1>1 DEF ReadDeployment
  <2>3. CASE result' = Found(result, [kind |-> "unknown", of |-> Item])
    BY <2>3, FoundAdds
  <2>4. CASE result' = Found(r, [kind |-> "in progress", of |-> Item])
    <3> DEFINE f == [kind |-> "in progress", of |-> Item]
    <3>1. f.kind # "pod"
      OBVIOUS
    <3> HIDE DEF r, f
    <3>2. DOMAIN r = {"findings", "scanned", "errors"} /\ result' = Found(r, f)
      BY <2>1, <2>4 DEF Placed, f
    <3>3. result'.findings = r.findings \cup {f} /\ result'.errors = r.errors
      BY <3>2, FoundEffect
    <3>4. QED
      BY <2>1, <3>1, <3>3 DEF Adds, Grows
  <2>5. CASE result' = r
    <3> HIDE DEF r
    <3>1. QED
      BY <2>1, <2>5 DEF Adds, Grows
  <2>6. QED
    BY <2>2, <2>3, <2>4, <2>5
<1>2. CASE ReadHistory
  <2>1. CASE result' = NoHistory(Item, result)
    BY <2>1, FoundAdds DEF NoHistory
  <2>2. CASE \E new, old, severity : result' = Found(result,
               [kind |-> "rollout", of |-> Item, new |-> new, old |-> old, severity |-> severity])
    BY <2>2, FoundAdds
  <2>3. QED
    BY <1>2, <2>1, <2>2 DEF ReadHistory
<1>3. QED
  BY <1>1, <1>2

LEMMA NodeAdds ==
    ASSUME Placed, NEW n, GatherNode(n)
    PROVE  Adds
<1>1. CASE result' = Failed(result, <<"node", n>>)
  BY <1>1, FailedAdds
<1>2. CASE \E f : /\ f.kind = "node" /\ result'.findings = result.findings \cup {f}
                  /\ result'.errors = result.errors
  BY <1>2 DEF Adds, Grows
<1>3. QED
  BY <1>1, <1>2, NodeEffect

LEMMA ScopedStep == Placed /\ Scoped /\ [Next]_vars => Scoped'
<1> SUFFICES ASSUME Placed, Scoped, [Next]_vars
             PROVE  Scoped'
  OBVIOUS
<1>0. CASE Begin \/ BeginFails \/ Raise
  <2>1. /\ UNCHANGED <<asked, collected, pods, pos, look>>
        /\ phase' \in {"start", "select"} => phase = "start"
        /\ \/ \E what : result' = Failed(result, what)
           \/ UNCHANGED result
    BY <1>0 DEF Begin, BeginFails, Raise, cluster
  <2>2. Adds
    BY <2>1, FailedAdds, SameAdds
  <2>3. QED
    BY <2>1, <2>2, OtherStep DEF Adds, Scoped
<1>1. CASE LookUp
  BY <1>1, LookUpScoped
<1>2. CASE LookUpFails
  <2>1. UNCHANGED <<asked, collected, pods>> /\ NextSelector /\ result' = Failed(result, Item)
    BY <1>2 DEF LookUpFails, cluster
  <2>2. QED
    BY <2>1, FailedAdds, NextSelectorLook, OtherStep DEF Adds, Scoped
<1>3. CASE Selected
  <2>1. /\ UNCHANGED <<asked, collected, pods>> /\ phase' \notin {"start", "select"}
        /\ \/ result' = Failed(result, <<"no pods found">>)
           \/ UNCHANGED result
    BY <1>3 DEF Selected, cluster
  <2>2. QED
    BY <2>1, FailedAdds, SameAdds, OtherStep DEF Adds, Scoped
<1>4. CASE GatherPod
  BY <1>4, GatherPodScoped
<1>5. CASE PodsDone \/ NodesDone
  <2>1. UNCHANGED <<asked, collected, pods, result>> /\ phase' \notin {"start", "select"}
    BY <1>5 DEF PodsDone, NodesDone, cluster
  <2>2. QED
    BY <2>1, SameAdds, OtherStep DEF Adds, Scoped
<1>6. CASE \E n \in nodes : GatherNode(n)
  <2>1. UNCHANGED <<asked, collected, pods>> /\ phase' \notin {"start", "select"} /\ Adds
    BY <1>6, NodeAdds DEF GatherNode, cluster
  <2>2. QED
    BY <2>1, OtherStep DEF Adds, Scoped
<1>7. CASE ReadFails
  <2>1. UNCHANGED <<asked, collected, pods>> /\ phase' \notin {"start", "select"}
        /\ result' = Failed(result, Item)
    BY <1>7 DEF ReadFails, NextWorkload, cluster
  <2>2. QED
    BY <2>1, FailedAdds, OtherStep DEF Adds, Scoped
<1>8. CASE ReadDeployment \/ ReadHistory
  <2>1. UNCHANGED <<asked, collected, pods>> /\ phase' \notin {"start", "select"}
    BY <1>8 DEF ReadDeployment, ReadHistory, NextWorkload, cluster
  <2>2. QED
    BY <1>8, <2>1, DetectAdds, OtherStep DEF Adds, Scoped
<1>9. CASE ClusterStep
  <2>1. UNCHANGED <<asked, collected, phase, pos, look, result>>
    BY <1>9 DEF ClusterStep, ChangeSpec, Reconcile, Prune, Replace, Delete, Change, call
  <2>2. IsFiniteSet(pods')
    BY <1>9, PodsStayFinite DEF Scoped
  <2>3. QED
    BY <2>1, <2>2, SameAdds, OtherStep DEF Adds, Scoped
<1>10. CASE UNCHANGED vars
  <2>1. UNCHANGED <<asked, collected, phase, pos, look, result, pods>>
    BY <1>10 DEF vars, call, cluster
  <2>2. QED
    BY <2>1, SameAdds, OtherStep DEF Adds, Scoped
<1>11. QED
  BY <1>0, <1>1, <1>2, <1>3, <1>4, <1>5, <1>6, <1>7, <1>8, <1>9, <1>10 DEF Next, ToolStep

\* gather_eks_state inspects pods that no selector names only beside a finding that
\* says so (_record_scope), whatever the cluster does between two lookups.
THEOREM ScopeIsAdmitted == Spec => []ScopeAdmitted
<1>1. Init => Placed /\ Speaking /\ Scoped
  BY InitSpeaks, InitScoped
<1>2. (Placed /\ Speaking /\ Scoped) /\ [Next]_vars => (Placed /\ Speaking /\ Scoped)'
  BY SpeakingStep, ScopedStep
<1>3. Scoped => ScopeAdmitted
  BY DEF Scoped, ScopeAdmitted, Justified
<1>4. QED
  BY <1>1, <1>2, <1>3, PTL DEF Spec

-----------------------------------------------------------------------------
(* The digest of a pod's bulk.                                               *)

\* A set of natural numbers has a least element.
LEMMA LeastOf ==
    ASSUME NEW T \in SUBSET Nat, NEW R,
           \A x, y \in Nat : y < x => <<y, x>> \in R,
           \E x \in T : \A y \in T : ~ (<<y, x>> \in R)
    PROVE  \E n \in T : \A m \in T : n <= m
<1>1. PICK x \in T : \A y \in T : ~ (<<y, x>> \in R)
  OBVIOUS
<1>2. ASSUME NEW y \in T
      PROVE  x <= y
  <2>1. x \in Nat /\ y \in Nat /\ ~(y < x)
    BY <1>1
  <2>2. QED
    BY <2>1
<1>3. QED
  BY <1>2

LEMMA Least ==
    ASSUME NEW T \in SUBSET Nat, T # {}
    PROVE  \E n \in T : \A m \in T : n <= m
<1>1. \E x \in T : \A y \in T : ~ (<<y, x>> \in OpToRel(<, Nat))
  BY NatLessThanWellFounded, WFMin
<1>2. \A x, y \in Nat : y < x => <<y, x>> \in OpToRel(<, Nat)
  BY DEF OpToRel
<1>3. QED
  BY <1>1, <1>2, LeastOf, Zenon

LEMMA RankType == \A severity : Rank(severity) \in 0..2
BY DEF Rank

\* Some line is at least as bad as every other, and the first of those comes
\* before every line in the order of pick_top_by_severity.
LEMMA FirstOfTheWorst ==
    ASSUME NEW payload, NEW L \in Nat \ {0}
    PROVE  \E i \in 1..L : \A j \in 1..L :
             \/ Rank(payload[i]) < Rank(payload[j])
             \/ Rank(payload[i]) = Rank(payload[j]) /\ i <= j
<1> DEFINE ranks == {Rank(payload[i]) : i \in 1..L}
<1>1. \E r \in ranks : \A q \in ranks : r <= q
  <2>1. ranks \in SUBSET Nat
    BY RankType
  <2>2. Rank(payload[1]) \in ranks
    OBVIOUS
  <2>3. QED
    BY <2>1, <2>2, Least
<1>2. PICK w \in 1..L : \A j \in 1..L : Rank(payload[w]) <= Rank(payload[j])
  BY <1>1
<1> DEFINE worst == {k \in 1..L : Rank(payload[k]) = Rank(payload[w])}
<1>3. \E i \in worst : \A j \in worst : i <= j
  <2>1. worst \in SUBSET Nat /\ w \in worst
    OBVIOUS
  <2>2. QED
    BY <2>1, Least
<1>4. PICK i \in 1..L : /\ Rank(payload[i]) = Rank(payload[w])
                        /\ \A j \in 1..L : Rank(payload[j]) = Rank(payload[w]) => i <= j
  BY <1>3
<1>5. QED
  BY <1>2, <1>4, RankType

\* The first of the worst is the one item pick_top_by_severity picks.
LEMMA FirstIsTop ==
    ASSUME NEW payload, NEW L \in Nat \ {0}
    PROVE  \E i \in TopBySeverity(payload, 1..L, 1) : i \in 1..L /\ \A j \in 1..L :
             \/ Rank(payload[i]) < Rank(payload[j])
             \/ Rank(payload[i]) = Rank(payload[j]) /\ i <= j
<1> DEFINE Before(j, k) == \/ Rank(payload[j]) < Rank(payload[k])
                           \/ Rank(payload[j]) = Rank(payload[k]) /\ j < k
<1>1. PICK i \in 1..L : \A j \in 1..L :
        \/ Rank(payload[i]) < Rank(payload[j])
        \/ Rank(payload[i]) = Rank(payload[j]) /\ i <= j
  BY FirstOfTheWorst
<1>2. {j \in 1..L : Before(j, i)} = {}
  <2> SUFFICES ASSUME NEW j \in 1..L, Before(j, i)
               PROVE  FALSE
    OBVIOUS
  <2>1. Rank(payload[i]) \in 0..2 /\ Rank(payload[j]) \in 0..2
    BY RankType
  <2>2. QED
    BY <1>1, <2>1
<1>3. Cardinality({j \in 1..L : Before(j, i)}) < 1
  BY <1>2, FS_EmptySet
<1>4. i \in TopBySeverity(payload, 1..L, 1)
  BY <1>3 DEF TopBySeverity
<1>5. QED
  BY <1>1, <1>4

\* WorstSurvives and TailSurvives of one pod.
Shows(events, tail, shown) ==
    /\ events # <<>> => \E i \in Verbatim(shown) \cap DOMAIN events : \A j \in DOMAIN events :
                          Rank(events[i]) <= Rank(events[j])
    /\ tail => \/ Len(events) + 1 \in Verbatim(shown)
               \/ events # <<>> /\ shown.digests # {}

\* The payload: the events, and one item more with a log tail.
LEMMA PayloadIs ==
    ASSUME NEW events \in Seq(Severities), NEW tail
    PROVE  LET payload == PayloadOf(events, tail)
           IN  /\ Len(events) \in Nat /\ DOMAIN events = 1..Len(events)
               /\ Len(payload) = Len(events) + IF tail = "lines" THEN 1 ELSE 0
               /\ DOMAIN payload = 1..Len(payload)
               /\ \A i \in 1..Len(events) : payload[i] = events[i]
               /\ tail = "lines" => payload[Len(events) + 1] = "info"
<1>1. "info" \in Severities
  BY DEF Severities
<1>2. CASE tail = "lines"
  <2>1. PayloadOf(events, tail) = events \o <<"info">>
    BY <1>2 DEF PayloadOf
  <2>2. QED
    BY <1>1, <1>2, <2>1
<1>3. CASE tail # "lines"
  <2>1. PayloadOf(events, tail) = events \o <<>>
    BY <1>3 DEF PayloadOf
  <2>2. events \o <<>> = events
    OBVIOUS
  <2>3. QED
    BY <1>3, <2>1, <2>2
<1>4. QED
  BY <1>2, <1>3

\* One chunk, raw or digested: its worst event is literal either way, and the log
\* tail unless an event took its place.
LEMMA ShownOfShows ==
    ASSUME NEW events \in Seq(Severities), NEW tail, NEW large \in BOOLEAN, NEW text \in BOOLEAN
    PROVE  Shows(events, tail = "lines", ShownOf(events, tail, large, text))
<1> DEFINE payload == PayloadOf(events, tail)
           n == Len(events)
           L == Len(payload)
           texts == [c \in {0} |-> text]
           digested == ExecuteDigest(payload, L + 1, large, texts, 1)
           shown == ShownOf(events, tail, large, text)
<1>1. /\ n \in Nat /\ L = n + (IF tail = "lines" THEN 1 ELSE 0) /\ DOMAIN events = 1..n
      /\ DOMAIN payload = 1..L /\ \A i \in 1..n : payload[i] = events[i]
      /\ tail = "lines" => payload[n + 1] = "info"
  BY PayloadIs
<1>2. shown = IF digested.digests = {} THEN digested
              ELSE [digested EXCEPT !.exemplars = TopBySeverity(payload, 1..L, 1)]
  BY <1>1 DEF ShownOf, ExemplarOf
<1> HIDE DEF payload, n, L
<1>3. CASE digested.digests = {}
  <2>1. shown = digested
    BY <1>2, <1>3
  <2>2. digested.raw = 1..L
    <3>1. CASE ~large
      BY <1>1, <3>1 DEF ExecuteDigest
    <3>2. CASE large
      <4>1. digested.digests = {c \in Chunks(payload, L + 1) : Digested(texts, c)}
            /\ digested.raw = {i \in DOMAIN payload : ~Digested(texts, ChunkOf(i, L + 1))}
        BY <3>2 DEF ExecuteDigest
      <4>2. \A i \in DOMAIN payload : ChunkOf(i, L + 1) \in Chunks(payload, L + 1)
        BY DEF Chunks
      <4>3. QED
        BY <1>1, <1>3, <4>1, <4>2
    <3>3. QED
      BY <3>1, <3>2
  <2>3. 1..L \subseteq Verbatim(shown)
    BY <2>1, <2>2 DEF Verbatim
  <2>4. events # <<>> => \E i \in 1..n : \A j \in 1..n : Rank(events[i]) <= Rank(events[j])
    <3>1. n # 0 => \E i \in 1..n : \A j \in 1..n :
             \/ Rank(events[i]) < Rank(events[j])
             \/ Rank(events[i]) = Rank(events[j]) /\ i <= j
      BY <1>1, FirstOfTheWorst
    <3>2. events # <<>> => n # 0
      BY DEF n
    <3>3. ASSUME NEW i, NEW j,
                 \/ Rank(events[i]) < Rank(events[j])
                 \/ Rank(events[i]) = Rank(events[j]) /\ i <= j
          PROVE  Rank(events[i]) <= Rank(events[j])
      <4>1. Rank(events[i]) \in 0..2 /\ Rank(events[j]) \in 0..2
        BY RankType
      <4>2. QED
        BY <3>3, <4>1
    <3>4. QED
      BY <3>1, <3>2, <3>3
  <2>5. QED
    BY <1>1, <2>3, <2>4 DEF Shows
<1>4. CASE digested.digests # {}
  <2>1. shown = [digested EXCEPT !.exemplars = TopBySeverity(payload, 1..L, 1)]
    BY <1>2, <1>4
  <2>2. /\ shown.exemplars = TopBySeverity(payload, 1..L, 1)
        /\ shown.digests = digested.digests
    BY <2>1 DEF ExecuteDigest
  <2>3. ASSUME L # 0
        PROVE  \E i \in TopBySeverity(payload, 1..L, 1) : i \in 1..L /\ \A j \in 1..L :
                 \/ Rank(payload[i]) < Rank(payload[j])
                 \/ Rank(payload[i]) = Rank(payload[j]) /\ i <= j
    BY <1>1, <2>3, FirstIsTop
  <2>4. ASSUME events # <<>>
        PROVE  \E i \in Verbatim(shown) \cap 1..n : \A j \in 1..n : Rank(events[i]) <= Rank(events[j])
    <3>1. n \in Nat \ {0}
      <4>1. Len(events) # 0
        BY <2>4
      <4>2. QED
        BY <1>1, <4>1 DEF n
    <3>2. PICK i \in TopBySeverity(payload, 1..L, 1) : i \in 1..L /\ \A j \in 1..L :
                 \/ Rank(payload[i]) < Rank(payload[j])
                 \/ Rank(payload[i]) = Rank(payload[j]) /\ i <= j
      BY <1>1, <2>3, <3>1
    <3>3. i \in 1..n
      <4>1. CASE i = n + 1 /\ tail = "lines"
        <5>1. Rank(payload[i]) = 2
          BY <1>1, <4>1 DEF Rank
        <5>2. 1 \in 1..L /\ ~(i <= 1)
          BY <1>1, <3>1, <4>1
        <5>3. Rank(payload[1]) \in 0..2
          BY RankType
        <5>4. QED
          BY <3>2, <5>1, <5>2, <5>3
      <4>2. QED
        BY <1>1, <3>2, <4>1
    <3>4. \A j \in 1..n : Rank(payload[i]) <= Rank(payload[j])
      BY <1>1, <3>2, RankType
    <3>5. i \in Verbatim(shown)
      BY <2>2, <3>2 DEF Verbatim
    <3>6. QED
      BY <1>1, <3>3, <3>4, <3>5
  <2>5. ASSUME tail = "lines"
        PROVE  n + 1 \in Verbatim(shown) \/ (events # <<>> /\ shown.digests # {})
    <3>1. CASE events = <<>>
      <4>1. n = 0 /\ L = 1
        BY <1>1, <2>5, <3>1 DEF n
      <4>2. 1 \in TopBySeverity(payload, 1..L, 1)
        BY <2>3, <4>1
      <4>3. QED
        BY <2>2, <4>1, <4>2 DEF Verbatim
    <3>2. CASE events # <<>>
      BY <1>4, <2>2, <3>2
    <3>3. QED
      BY <3>1, <3>2
  <2>6. QED
    BY <1>1, <2>4, <2>5 DEF Shows, n
<1>5. QED
  BY <1>3, <1>4

\* The pod that a step describes shows its worst event and its log tail.
LEMMA PodShows ==
    ASSUME Placed, GatherPod
    PROVE  \E f : /\ result'.findings = result.findings \cup {f}
                  /\ Shows(f.events, f.tail, f.shown)
<1>1. PICK listed \in Payloads, unread \in BOOLEAN, tail \in {"lines", "none", "failed"},
           large \in BOOLEAN, text \in BOOLEAN :
         LET events == EventsRead(listed, unread)
         IN  result' = PodGathered(Head(collected), events, tail,
                                   ShownOf(events, tail, large, text),
                                   UnreadOf(Head(collected), unread, tail))
  BY DEF GatherPod
<1> DEFINE p == Head(collected)
           events == EventsRead(listed, unread)
           shown == ShownOf(events, tail, large, text)
           f == [kind |-> "pod", pod |-> p, events |-> events, tail |-> tail = "lines",
                 shown |-> shown]
           r == Scanned(Found(result, f), PodName(p))
<1>2. Shows(events, tail = "lines", shown)
  <2>1. events \in Seq(Severities)
    BY ClusterAssumption DEF EventsRead
  <2> HIDE DEF events
  <2>2. QED
    BY <2>1, ShownOfShows
<1>3. f.events = events /\ f.tail = (tail = "lines") /\ f.shown = shown
  OBVIOUS
<1>4. result' = [r EXCEPT !.errors = r.errors \cup UnreadOf(p, unread, tail)]
  BY <1>1 DEF PodGathered
<1> HIDE DEF f, events, shown
<1>5. DOMAIN r = DOMAIN result /\ r.findings = result.findings \cup {f}
  <2> DEFINE q == Found(result, f)
  <2>1. DOMAIN q = DOMAIN result /\ q.findings = result.findings \cup {f}
    BY FoundEffect DEF Placed
  <2> HIDE DEF q
  <2>2. DOMAIN Scanned(q, PodName(p)) = DOMAIN q /\ Scanned(q, PodName(p)).findings = q.findings
    BY <2>1, ScannedEffect DEF Placed
  <2>3. QED
    BY <2>1, <2>2 DEF q
<1> HIDE DEF r
<1>6. result'.findings = r.findings
  BY <1>4, <1>5 DEF Placed
<1>7. QED
  BY <1>2, <1>3, <1>5, <1>6

\* WorstSurvives and TailSurvives, part by part.
Literal == \A f \in Kind("pod") : Shows(f.events, f.tail, f.shown)

LEMMA LiteralStep == Placed /\ Literal /\ [Next]_vars => Literal'
<1> SUFFICES ASSUME Placed, Literal, [Next]_vars
             PROVE  Literal'
  OBVIOUS
<1>1. CASE GatherPod
  <2>1. PICK f : result'.findings = result.findings \cup {f} /\ Shows(f.events, f.tail, f.shown)
    BY <1>1, PodShows
  <2>2. QED
    BY <2>1 DEF Literal, Kind
<1>2. ASSUME Adds
      PROVE  Literal'
  BY <1>2 DEF Adds, Literal, Kind
<1>10. CASE Begin \/ BeginFails \/ Raise
  <2>1. UNCHANGED result \/ \E what : result' = Failed(result, what)
    BY <1>10 DEF Begin, BeginFails, Raise
  <2>2. QED
    BY <1>2, <2>1, FailedAdds, SameAdds
<1>3. CASE LookUp
  <2>1. \/ UNCHANGED result
        \/ \E how : result' = RecordScope(Item, how, result)
    BY <1>3 DEF LookUp
  <2>2. ASSUME NEW how, result' = RecordScope(Item, how, result)
        PROVE  Adds
    BY <2>2, RecordScopeEffect DEF Placed, Adds, Grows
  <2>3. QED
    BY <1>2, <2>1, <2>2, SameAdds
<1>4. CASE LookUpFails \/ ReadFails
  <2>1. result' = Failed(result, Item)
    BY <1>4 DEF LookUpFails, ReadFails
  <2>2. QED
    BY <1>2, <2>1, FailedAdds
<1>5. CASE Selected
  BY <1>2, <1>5, FailedAdds, SameAdds DEF Selected
<1>6. CASE \E n \in nodes : GatherNode(n)
  BY <1>2, <1>6, NodeAdds
<1>7. CASE ReadDeployment \/ ReadHistory
  BY <1>2, <1>7, DetectAdds
<1>8. CASE PodsDone \/ NodesDone \/ ClusterStep \/ UNCHANGED vars
  <2>1. UNCHANGED result
    BY <1>8 DEF PodsDone, NodesDone, ClusterStep, ChangeSpec, Reconcile, Prune, Replace, Delete,
       Change, call, vars
  <2>2. QED
    BY <1>2, <2>1, SameAdds
<1>9. QED
  BY <1>1, <1>3, <1>4, <1>5, <1>6, <1>7, <1>8, <1>10 DEF Next, ToolStep

LEMMA LiteralHolds == Spec => []Literal
<1>1. Init => Placed /\ Speaking /\ Literal
  <2>1. Init => result.findings = {}
    BY DEF Init
  <2>2. Init => Literal
    BY <2>1 DEF Literal, Kind
  <2>3. QED
    BY <2>2, InitSpeaks
<1>2. (Placed /\ Speaking /\ Literal) /\ [Next]_vars => (Placed /\ Speaking /\ Literal)'
  BY SpeakingStep, LiteralStep
<1>3. QED
  BY <1>1, <1>2, PTL DEF Spec

\* EksPodDigestSource: for every list of events, whatever fails to be read and
\* whether the summarizer answers or not, the worst event read of a pod is literal.
THEOREM TheWorstIsLiteral == Spec => []WorstSurvives
<1>1. Literal => WorstSurvives
  BY DEF Literal, Shows, WorstSurvives
<1>2. QED
  BY <1>1, LiteralHolds, PTL

\* And so is its log tail, unless it was digested beside an event.
THEOREM TheTailIsLiteral == Spec => []TailSurvives
<1>1. Literal => TailSurvives
  BY DEF Literal, Shows, TailSurvives
<1>2. QED
  BY <1>1, LiteralHolds, PTL
=============================================================================
