----------------------------- MODULE MCEksAgent -----------------------------
(* EksAgent for TLC: two Deployments, one of whose names begins with the       *)
(* other's and a dash, and a DaemonSet of a name of two parts.                 *)
EXTENDS EksAgent

CONSTANTS api, gateway, node

MCDeployments == {<<api>>, <<api, gateway>>}
MCDaemons == {<<node, gateway>>}
\* Nothing; a workload; a pod that a rollout replaces; a label; a daemon's old pod.
MCSelectors == {<<>>,
                << <<api>>, <<api, gateway>> >>,
                << <<api, gateway, 0, 0>> >>,
                << <<"label", <<api>> >>, <<node, gateway, 0>> >>}
MCPayloads == {<<>>, <<"info", "warning">>}
MCHost == [w \in MCDeployments \cup MCDaemons |-> "a node"]
=============================================================================
