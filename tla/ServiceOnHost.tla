--------------------------- MODULE ServiceOnHost ---------------------------
(***************************************************************************)
(* What restarting a service on one host promises to the rest of deployd,  *)
(* whatever fails and whoever crashes: a restart that reports success      *)
(* leaves the requested build serving, and nothing but another restart     *)
(* takes it away; otherwise the host serves nothing, or a build that was   *)
(* there or was asked for, and a host that has settled stays so.           *)
(***************************************************************************)
CONSTANTS Build, None

VARIABLES
    serving,        \* the build whose process runs, or None
    candidates,     \* the builds that may come up
    deploying,      \* the build a restart is under way for, or None
    settled,        \* systemd has nothing left to do
    result          \* how the last restart ended

vars == <<serving, candidates, deploying, settled, result>>

Init ==
    /\ serving = None /\ candidates = {}
    /\ deploying = None /\ settled = TRUE
    /\ result = "none"

\* Nothing comes up that was not a candidate.
Serves(builds) == serving' \in builds \cup {None}

Begin(b) ==
    /\ deploying = None
    /\ deploying' = b /\ settled' = FALSE /\ result' = "none"
    /\ candidates' \subseteq candidates \cup {b}
    /\ UNCHANGED serving

\* The release is not there: nothing is touched.
Refuse ==
    /\ deploying = None
    /\ result' = "failed"
    /\ UNCHANGED <<serving, candidates, deploying, settled>>

Work ==
    /\ deploying # None
    /\ Serves(candidates)
    /\ candidates' \subseteq candidates \cup {deploying}
    /\ UNCHANGED <<deploying, settled, result>>

Succeed ==
    /\ deploying # None
    /\ serving' = deploying /\ candidates' = {deploying}
    /\ deploying' = None /\ settled' = TRUE /\ result' = "ok"

GiveUp ==
    /\ deploying # None
    /\ Serves(candidates)
    /\ candidates' \subseteq candidates
    /\ deploying' = None /\ settled' \in BOOLEAN /\ result' \in {"failed", "none"}

\* systemd goes on restarting what a failed restart left behind.
Drift ==
    /\ deploying = None /\ ~settled
    /\ Serves(candidates)
    /\ candidates' \subseteq candidates
    /\ settled' \in BOOLEAN
    /\ UNCHANGED <<deploying, result>>

Next == (\E b \in Build : Begin(b)) \/ Refuse \/ Work \/ Succeed \/ GiveUp \/ Drift

Spec == Init /\ [][Next]_vars
=============================================================================
