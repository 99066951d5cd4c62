--------------------------- MODULE MCRequestPipeline ---------------------------
(* Chains and inputs for RequestPipeline.                                     *)
EXTENDS RequestPipeline

\* Latency and bandwidth always trigger, so they are there or not, and every
\* other fault that is there may trigger or not.
AllChains ==
    {{}} \cup {(FaultNames \ {"latency", "bandwidth"}) \cup always :
                   always \in SUBSET {"latency", "bandwidth"}}

NoChains == {{}}

YesOrNo == BOOLEAN
Yes == {TRUE}
ReadOrUnread == {"read", "unread"}
Read == {"read"}
NotFoundOrSwitch == {404, 101}
NotFound == {404}
UnavailableOrInterim == {503, 103}
===============================================================================
