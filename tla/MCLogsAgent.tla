---------------------------- MODULE MCLogsAgent -----------------------------
(* LogsAgent for TLC: two groups exist, one does not; the worst row comes late. *)
EXTENDS LogsAgent

CONSTANTS app, proxy, gone

MCGroups == {app, proxy, gone}
MCListing == <<[name |-> app, hits |-> 2], [name |-> proxy, hits |-> 1]>>
MCRows == <<"info", "warning", "info", "critical", "info">>
=============================================================================
