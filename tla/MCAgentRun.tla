----------------------------- MODULE MCAgentRun -----------------------------
(* Instances of AgentRun for TLC.                                          *)
EXTENDS AgentRun, TLC

CONSTANTS router, clerk,    \* agents
          search, pay       \* tools

(* Both agents may pay, which needs an approval; only the router searches, *)
(* and each hands off to the other.                                        *)
SharedToolbox == router :> {search, pay} @@ clerk :> {pay}
BothWays == router :> {clerk} @@ clerk :> {router}

(* Only the clerk may pay, and nothing comes back to the router.           *)
ClerkPays == router :> {search} @@ clerk :> {pay}
OneWay == router :> {clerk} @@ clerk :> {}
=============================================================================
