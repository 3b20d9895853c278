------------------------------ MODULE EksAgent ------------------------------
(***************************************************************************)
(* The EKS agent's tools (agents/eks/tools.py) read a cluster that changes *)
(* under them: workloads roll out, roll back, are pruned and deleted       *)
(* between two API calls of one tool call. One behaviour is one call of    *)
(* gather_eks_state or of detect_recent_changes.                           *)
(*                                                                         *)
(* A name is the sequence of its parts between dashes: the workload "a-b"  *)
(* is <<a, b>>, its ReplicaSet <<a, b, hash>>, a pod of it                 *)
(* <<a, b, hash, 0>>. An error is the thing that could not be read.        *)
(***************************************************************************)
EXTENDS Integers, Sequences, FiniteSets, SequencesExt, ToolResult

CONSTANTS
    Deployments,  \* the namespace's Deployments, by name
    Daemons,      \* its DaemonSets and StatefulSets
    Selectors,    \* the lists of selectors or workloads a call may ask for
    Payloads,     \* possible severities of a pod's events, oldest first
    Host,         \* the node a workload's pods run on, when they are scheduled
    MaxChanges,   \* bound on the cluster's changes
    MaxFaults     \* bound on the API calls that fail

ASSUME ClusterAssumption ==
    /\ IsFiniteSet(Deployments) /\ IsFiniteSet(Daemons) /\ Deployments \cap Daemons = {}
    /\ \A s \in Selectors : DOMAIN s = 1..Len(s) /\ Len(s) \in Nat
    /\ \A s \in Selectors : \A i \in DOMAIN s :
         /\ Len(s[i]) \in Nat \ {0} /\ s[i] = [n \in 1..Len(s[i]) |-> s[i][n]]
         /\ s[i][1] = "label" => s[i] = <<"label", s[i][2]>>
    /\ Payloads \subseteq Seq(Severities)
    /\ MaxChanges \in Nat /\ MaxFaults \in Nat

Workloads == Deployments \cup Daemons

VARIABLES
    \* The cluster:
    live,         \* workloads that exist
    replicaSets,  \* retained ReplicaSets [of, hash, rev, image]
    pods,         \* live pods [of, hash]
    lagging,      \* Deployments whose generation is ahead of the observed one
    changes,      \* changes of the cluster so far; the source of fresh hashes
    faults,       \* API calls that may still fail
    \* The tool call:
    tool,         \* "gather": gather_eks_state, "detect": detect_recent_changes
    enabled,      \* CHANGE_CORRELATION_ENABLED; never changes
    asked,        \* resource_selectors, or workloads
    phase,        \* "start"; "select", "pods", "nodes", or "deployment", "history";
                  \* "done", or "raised" when an exception leaves the tool
    pos, look,    \* the selector at hand and its lookup at hand
    collected,    \* pods collected and still to be examined, by now perhaps gone
    nodes,        \* nodes of the pods examined
    result        \* ToolResult: findings, scanned, errors

cluster == <<live, replicaSets, pods, lagging, changes>>
call == <<tool, enabled, asked, phase, pos, look, collected, nodes, result>>
vars == <<cluster, faults, call>>

Item == asked[pos]
IsLabel(selector) == selector[1] = "label"
PodName(p) == IF p.of \in Deployments THEN p.of \o <<p.hash, 0>> ELSE p.of \o <<p.hash>>
-----------------------------------------------------------------------------
(* Faulty variants of the definitions below.                                 *)

\* The fallback that forgets to say what it inspected instead.
RecordScopeSilent(selector, how, r) == r
\* A Deployment without history that is passed over.
HistoryPassed(d, r) == r
\* Exemplars that are picked among the events only.
EventExemplars(events, tail) == DOMAIN events
-----------------------------------------------------------------------------

Found(r, finding) == [r EXCEPT !.findings = @ \cup {finding}]
Scanned(r, x) == [r EXCEPT !.scanned = @ \cup {x}]
Failed(r, what) == [r EXCEPT !.errors = @ \cup {what}]

-----------------------------------------------------------------------------
(* The cluster.                                                              *)

Newest(sets) == CHOOSE s \in sets : \A t \in sets : t.rev <= s.rev
SetsOf(d) == {s \in replicaSets : s.of = d}

Init ==
    /\ live = Workloads
    /\ tool \in {"gather", "detect"}
    /\ \E old \in IF tool = "detect" THEN SUBSET Deployments ELSE {{}} : \* rolled out before
         replicaSets = {[of |-> d, hash |-> 0, rev |-> 1, image |-> 0] : d \in Deployments}
                \cup {[of |-> d, hash |-> 1, rev |-> 2, image |-> 1] : d \in old}
    /\ pods = {[of |-> d, hash |-> Newest(SetsOf(d)).hash] : d \in Deployments}
          \cup {[of |-> w, hash |-> 0] : w \in Daemons}
    /\ lagging = {} /\ changes = 0 /\ faults = 0
    /\ enabled \in BOOLEAN /\ (tool = "gather" => enabled)
    /\ asked \in Selectors
    /\ tool = "detect" => \A i \in DOMAIN asked : ~IsLabel(asked[i])
    /\ phase = "start"
    /\ pos = 1 /\ look = 1
    /\ collected = <<>> /\ nodes = {}
    /\ result = [findings |-> {}, scanned |-> {}, errors |-> {}]

\* Nothing before the first call or after the pods reads what changes here.
Change == /\ changes < MaxChanges /\ phase \notin {"start", "nodes", "done", "raised"}
          /\ changes' = changes + 1
          /\ UNCHANGED <<faults, call>>

ChangeSpec(d) ==
    /\ Change /\ d \in live \ lagging
    /\ lagging' = lagging \cup {d}
    /\ UNCHANGED <<live, replicaSets, pods>>

\* The Deployment controller: a new template gets a ReplicaSet of its own, one
\* seen before makes its old ReplicaSet the newest revision again.
Reconcile(d) ==
    /\ Change /\ d \in lagging \cap live
    /\ LET next == 1 + Newest(SetsOf(d)).rev
       IN  \/ \E image \in {0, 1} :
                LET new == [of |-> d, hash |-> 2 + changes, rev |-> next, image |-> image]
                IN  /\ replicaSets' = replicaSets \cup {new}
                    /\ pods' = {p \in pods : p.of # d} \cup {[of |-> d, hash |-> new.hash]}
           \/ \E s \in SetsOf(d) \ {Newest(SetsOf(d))} :
                /\ replicaSets' = (replicaSets \ {s}) \cup {[s EXCEPT !.rev = next]}
                /\ pods' = {p \in pods : p.of # d} \cup {[of |-> d, hash |-> s.hash]}
    /\ lagging' = lagging \ {d}
    /\ UNCHANGED live

\* revisionHistoryLimit
Prune(s) ==
    /\ Change /\ s.of \in live /\ s # Newest(SetsOf(s.of))
    /\ replicaSets' = replicaSets \ {s}
    /\ UNCHANGED <<live, pods, lagging>>

\* A daemon's pod is replaced by another.
Replace(w) ==
    /\ Change /\ w \in live \cap Daemons
    /\ pods' = {p \in pods : p.of # w} \cup {[of |-> w, hash |-> 2 + changes]}
    /\ UNCHANGED <<live, replicaSets, lagging>>

Delete(w) ==
    /\ Change /\ w \in live
    /\ live' = live \ {w}
    /\ replicaSets' = replicaSets \ SetsOf(w)
    /\ pods' = {p \in pods : p.of # w}
    /\ lagging' = lagging \ {w}

-----------------------------------------------------------------------------
(* The call begins.                                                          *)

\* An API call may fail with an error that is not a 404.
Fault == faults < MaxFaults /\ faults' = faults + 1
Fine == UNCHANGED faults

\* The configuration is loaded - unless detect_recent_changes is switched off - and
\* the call is asked for something. A detect_recent_changes that is switched off, or
\* asked for nothing, ends with an empty result.
Begin ==
    /\ phase = "start" /\ Fine
    /\ IF tool = "gather"
       THEN IF Len(asked) > 0 THEN phase' = "select" /\ UNCHANGED result
            ELSE phase' = "done" /\ result' = Failed(result, <<"no selectors">>)
       ELSE /\ phase' = IF enabled /\ Len(asked) > 0 THEN "deployment" ELSE "done"
            /\ UNCHANGED result
    /\ UNCHANGED <<cluster, tool, enabled, asked, pos, look, collected, nodes>>

\* detect_recent_changes could not load the configuration.
BeginFails ==
    /\ phase = "start" /\ tool = "detect" /\ enabled /\ Fault
    /\ phase' = "done" /\ result' = Failed(result, <<"no cluster config">>)
    /\ UNCHANGED <<cluster, tool, enabled, asked, pos, look, collected, nodes>>

\* gather_eks_state handles the API's own errors only: its configuration that does
\* not load, or a connection that breaks, leaves the tool as an exception.
Raise ==
    /\ tool = "gather" /\ phase \in {"start", "select", "pods", "nodes"} /\ Fault
    /\ phase' = "raised"
    /\ UNCHANGED <<cluster, tool, enabled, asked, pos, look, collected, nodes, result>>

-----------------------------------------------------------------------------
(* gather_eks_state.                                                         *)

\* _workload_name_candidates: one part off the end, then two, never all.
Candidates(name) ==
    [i \in 1..(IF Len(name) > 2 THEN 2 ELSE Len(name) - 1) |->
        SubSeq(name, 1, Len(name) - i)]

\* What _collect_pods tries for a selector, in order.
Lookups(selector) ==
    IF IsLabel(selector) THEN <<[how |-> "label", name |-> selector[2]]>>
    ELSE <<[how |-> "workload", name |-> selector], [how |-> "exact pod", name |-> selector]>>
         \o [i \in DOMAIN Candidates(selector) |->
               [how |-> "owning workload", name |-> Candidates(selector)[i]]]
         \o <<[how |-> "namespace-wide", name |-> <<>>]>>

PodsOf(workload) == {p \in pods : p.of = workload}
Matches(lookup) ==
    CASE lookup.how \in {"workload", "owning workload"} ->
             IF lookup.name \in live THEN PodsOf(lookup.name) ELSE {}
      [] lookup.how = "label" -> PodsOf(lookup.name)
      [] lookup.how = "exact pod" -> {p \in pods : PodName(p) = lookup.name}
      [] OTHER -> pods

RecordScope(selector, how, r) ==
    Scanned(Found(r, [kind |-> "scope", selector |-> selector, scope |-> how]),
            <<"scope", selector>>)

NextSelector == pos' = pos + 1 /\ look' = 1

\* One lookup answered: it settles the selector, or the next one is tried.
LookUp ==
    /\ phase = "select" /\ pos <= Len(asked)
    /\ LET lookup == Lookups(Item)[look]
           found  == Matches(lookup)
       IN  IF found # {}
           THEN /\ collected' = collected \o SetToSeq(found \ ToSet(collected))
                /\ result' = IF lookup.how \in {"label", "workload"} THEN result
                             ELSE RecordScope(Item, lookup.how, result)
                /\ NextSelector
           ELSE /\ IF look = Len(Lookups(Item)) THEN NextSelector
                   ELSE look' = look + 1 /\ pos' = pos
                /\ UNCHANGED <<collected, result>>
    /\ Fine /\ UNCHANGED <<cluster, tool, enabled, asked, phase, nodes>>

LookUpFails ==
    /\ phase = "select" /\ pos <= Len(asked) /\ Fault
    /\ result' = Failed(result, Item)
    /\ NextSelector
    /\ UNCHANGED <<cluster, tool, enabled, asked, phase, collected, nodes>>

\* The selectors are resolved; with nothing to inspect the call ends.
Selected ==
    /\ phase = "select" /\ pos > Len(asked)
    /\ IF collected = <<>> /\ result.errors = {}
       THEN /\ phase' = "done"
            /\ result' = Failed(result, <<"no pods found">>)
       ELSE phase' = "pods" /\ UNCHANGED result
    /\ UNCHANGED <<cluster, faults, tool, enabled, asked, pos, look, collected, nodes>>

\* What is read of a pod: its events, then the tail of its log, which is one item
\* whatever its lines say; and what of them failed.
EventsRead(events, unread) == IF unread THEN <<>> ELSE events
PayloadOf(events, tail) == events \o (IF tail = "lines" THEN <<"info">> ELSE <<>>)
UnreadOf(p, unread, tail) ==
    (IF unread THEN {<<"events", PodName(p)>>} ELSE {})
      \cup (IF tail = "failed" THEN {<<"logs", PodName(p)>>} ELSE {})

\* EksPodDigestSource.exemplars: of the events and the log tail alike, one.
ExemplarOf(events, tail) == DOMAIN PayloadOf(events, tail)

\* EksPodDigestSource: one chunk, digested when the summarizer answers with a text;
\* then one exemplar is kept of it.
ShownOf(events, tail, large, text) ==
    LET payload == PayloadOf(events, tail)
        shown == ExecuteDigest(payload, Len(payload) + 1, large, [c \in {0} |-> text], 1)
    IN  IF shown.digests = {} THEN shown
        ELSE [shown EXCEPT !.exemplars = TopBySeverity(payload, ExemplarOf(events, tail), 1)]

\* _gather_pod_status and the findings of its bulk.
PodGathered(p, events, tail, shown, unread) ==
    [Scanned(Found(result, [kind |-> "pod", pod |-> p, events |-> events,
                            tail |-> tail = "lines", shown |-> shown]),
             PodName(p)) EXCEPT !.errors = @ \cup unread]

\* _gather_pod_bulk: the events (their severities), then the log tail, digested
\* when they are many. The log of a pod that is gone is a 404.
GatherPod ==
    /\ phase = "pods" /\ collected # <<>>
    /\ \E listed \in Payloads, unread \in BOOLEAN, tail \in {"lines", "none", "failed"},
          large \in BOOLEAN, text \in BOOLEAN :
         LET p == Head(collected)
             events == EventsRead(listed, unread)
         IN  /\ large => PayloadOf(events, tail) # <<>>
             /\ text => large
             /\ p \notin pods => tail = "failed"
             /\ IF unread \/ (tail = "failed" /\ p \in pods) THEN Fault ELSE Fine
             /\ result' = PodGathered(p, events, tail, ShownOf(events, tail, large, text),
                                      UnreadOf(p, unread, tail))
    /\ nodes' \in {nodes, nodes \cup {Host[Head(collected).of]}}
    /\ collected' = Tail(collected)
    /\ UNCHANGED <<cluster, tool, enabled, asked, phase, pos, look>>

PodsDone ==
    /\ phase = "pods" /\ collected = <<>>
    /\ phase' = "nodes"
    /\ UNCHANGED <<cluster, faults, tool, enabled, asked, pos, look, collected, nodes, result>>

\* _gather_node_conditions: the severity of each condition [type, status]. A
\* node that is gone by now is one that could not be read.
ConditionSeverity(type, true) ==
    CASE type = "Ready" /\ ~true -> "critical"
      [] type # "Ready" /\ true -> "warning"
      [] OTHER -> "info"

\* Of its conditions, or that there are none.
NodeSeverities ==
    {"warning"} \cup {ConditionSeverity(t, s) : t \in {"Ready", "MemoryPressure"}, s \in BOOLEAN}

GatherNode(n) ==
    /\ phase = "nodes" /\ n \in nodes
    /\ \/ /\ Fine
          /\ \E severity \in NodeSeverities :
               result' = Scanned(Found(result, [kind |-> "node", node |-> n,
                                                severity |-> severity]), <<"node", n>>)
       \/ Fault /\ result' = Failed(result, <<"node", n>>)
    /\ nodes' = nodes \ {n}
    /\ UNCHANGED <<cluster, tool, enabled, asked, phase, pos, look, collected>>

NodesDone ==
    /\ phase = "nodes" /\ nodes = {}
    /\ phase' = "done"
    /\ UNCHANGED <<cluster, faults, tool, enabled, asked, pos, look, collected, nodes, result>>

-----------------------------------------------------------------------------
(* detect_recent_changes, one workload after the other.                      *)

NextWorkload ==
    /\ pos' = pos + 1
    /\ phase' = IF pos = Len(asked) THEN "done" ELSE "deployment"

ReadDeployment ==
    /\ phase = "deployment" /\ Fine
    /\ IF Item \notin live \cap Deployments
       THEN /\ result' = Found(result, [kind |-> "unknown", of |-> Item])
            /\ NextWorkload
       ELSE /\ result' = LET r == Scanned(result, Item)
                         IN  IF Item \in lagging
                             THEN Found(r, [kind |-> "in progress", of |-> Item]) ELSE r
            /\ phase' = "history" /\ pos' = pos
    /\ UNCHANGED <<cluster, tool, enabled, asked, look, collected, nodes>>

ReadFails ==
    /\ phase \in {"deployment", "history"} /\ Fault
    /\ result' = Failed(result, Item)
    /\ NextWorkload
    /\ UNCHANGED <<cluster, tool, enabled, asked, look, collected, nodes>>

SetName(s) == s.of \o <<s.hash>>

\* The ReplicaSets whose name starts with the Deployment's name and a dash; all
\* of them when none does.
Owned(d) ==
    LET prefixed == {s \in replicaSets : IsStrictPrefix(d, SetName(s))}
    IN  IF prefixed = {} THEN replicaSets ELSE prefixed

NoHistory(d, r) == Found(r, [kind |-> "no history", of |-> d])

ReadHistory ==
    /\ phase = "history" /\ Fine
    /\ LET owned == Owned(Item)
       IN  IF Cardinality(owned) < 2
           THEN result' = NoHistory(Item, result)
           ELSE \E new \in owned, old \in owned :
                  /\ new # old
                  /\ \A s \in owned : s.rev <= new.rev
                  /\ \A s \in owned \ {new} : s.rev <= old.rev
                  /\ result' = Found(result,
                       [kind |-> "rollout", of |-> Item, new |-> new, old |-> old,
                        severity |-> IF new.image # old.image THEN "warning" ELSE "info"])
    /\ NextWorkload
    /\ UNCHANGED <<cluster, tool, enabled, asked, look, collected, nodes>>

-----------------------------------------------------------------------------

ClusterStep ==
    \/ \E d \in Deployments : ChangeSpec(d) \/ Reconcile(d)
    \/ \E s \in replicaSets : Prune(s)
    \/ \E w \in Workloads : Replace(w) \/ Delete(w)

ToolStep ==
    \/ Begin \/ BeginFails \/ Raise
    \/ LookUp \/ LookUpFails \/ Selected
    \/ GatherPod \/ PodsDone
    \/ \E n \in nodes : GatherNode(n)
    \/ NodesDone
    \/ ReadDeployment \/ ReadFails \/ ReadHistory

Next == ClusterStep \/ ToolStep

Spec == Init /\ [][Next]_vars

-----------------------------------------------------------------------------
(* Properties.                                                               *)

Done == phase = "done"
Kind(k) == {f \in result.findings : f.kind = k}

\* _record_scope: pods that no selector names are inspected only beside a
\* finding that says so, however the cluster changed while the names were looked
\* up. A selector names the pods of its workload and those with its labels.
ScopeAdmitted ==
    \A f \in Kind("pod") :
        \/ \E i \in DOMAIN asked : asked[i] \in {f.pod.of, <<"label", f.pod.of>>}
        \/ \E s \in Kind("scope") :
              \/ s.scope = "namespace-wide"
              \/ s.scope = "owning workload" /\ IsStrictPrefix(f.pod.of, s.selector)
              \/ s.scope = "exact pod" /\ s.selector = PodName(f.pod)

\* EksPodDigestSource keeps "the top-severity event as an exemplar": whatever is
\* digested away, the worst event that was read of a pod is in the answer literally.
WorstSurvives ==
    \A f \in Kind("pod") : f.events # <<>> =>
        \E i \in Verbatim(f.shown) \cap DOMAIN f.events : \A j \in DOMAIN f.events :
            Rank(f.events[i]) <= Rank(f.events[j])

\* "container log-tail lines are exemplar-eligible": the log tail that was read of a
\* pod is in the answer literally as well, unless it was digested beside an event,
\* which outranks it for the one exemplar there is.
TailSurvives ==
    \A f \in Kind("pod") : f.tail =>
        \/ Len(f.events) + 1 \in Verbatim(f.shown)
        \/ f.events # <<>> /\ f.shown.digests # {}

\* A call that comes back empty-handed says why, unless it is a
\* detect_recent_changes that is switched off or was asked for nothing. One that is
\* switched on says something of every workload it was asked for, or that it could
\* not read the cluster: a silent answer would read as "nothing changed".
NeverSilent ==
    Done => /\ result.findings = {} /\ result.errors = {} =>
                 tool = "detect" /\ (~enabled \/ Len(asked) = 0)
            /\ tool = "detect" /\ enabled => \A i \in DOMAIN asked :
                 \/ {asked[i], <<"no cluster config">>} \cap result.errors # {}
                 \/ \E f \in result.findings : f.of = asked[i] /\ f.kind # "in progress"

\* _detect_workload_changes' docstring: a Deployment with no retained rollout
\* gets a "no recent rollout" finding; what is reported as its rollout is its own.
RolloutIsOwn ==
    \A f \in Kind("rollout") : f.new.of = f.of /\ f.old.of = f.of
=============================================================================
