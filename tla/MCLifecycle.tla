----------------------------- MODULE MCLifecycle -----------------------------
(* Lifecycle on small sets of requests: each environment names the requests   *)
(* made, how the mission starts and what the environment may do.              *)
EXTENDS Lifecycle

\* A draft or a new mission is launched twice, suspended, resumed.
Launching == {
    {"draft", "launch", "launch2", "suspend", "resume", "fail", "lost", "die"},
    {"draft", "copilotLaunch", "suspend", "fail", "lost"},
    {"absent", "create", "copilotCreate", "suspend", "resume", "fail", "lost", "die"}}

\* A suspended mission is resumed or woken by two at once, on full servers.
Waking == {
    {"suspended", "resume", "resume2", "full", "fail", "die"},
    {"suspended", "resume", "full", "gone", "fail"},
    {"suspended", "resume", "wake"},
    {"suspended", "wake", "full", "gone"},
    {"suspended", "wake", "copilotResume"}}

\* A mission is upgraded, reverted, suspended, renewed, refreshed; the window ends, the
\* control plane dies, a live resize outlasts staleClaimMinutes.
Upgrading == {
    {"running", "upgrade", "revert", "suspend", "fail", "die"},
    {"running", "upgrade", "revert", "revert2", "die"},
    {"running", "upgrade", "suspend", "fail", "lost", "die"},
    {"running", "upgrade", "resume", "fail", "die"},
    {"running", "upgrade", "refresh", "stops", "fail"},
    {"upgraded", "revert", "renew", "fail", "die"},
    {"upgraded", "suspend", "renew", "fail"},
    {"upgraded", "renew", "slow", "die"}}

AllEnvs == Launching \cup Waking \cup Upgrading

\* launch_draft beside POST /launch.
TwoLaunches == {{"draft", "launch", "copilotLaunch"}}
=============================================================================
