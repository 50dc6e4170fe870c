--------------------------- MODULE MCCiOkPolling ----------------------------
EXTENDS CiOkPolling, TLC

\* A workflow that gates, and one that runs on a push and has a job of the same name.
MCEventOf == ("checks" :> "pull_request") @@ ("release" :> "push")
MCJobs == ("checks" :> <<"build", "test">>) @@ ("release" :> <<"build">>)
=============================================================================
