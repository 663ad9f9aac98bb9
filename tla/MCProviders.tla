----------------------------- MODULE MCProviders -----------------------------
(***************************************************************************)
(* Instances of ProviderUsage and RateLimits for TLC. The two share no     *)
(* state, so a behaviour runs one of them: `part' says which.              *)
(***************************************************************************)
EXTENDS ProviderUsage, RateLimits

CONSTANTS q1, q2

VARIABLE part

Ask(kind, id, session, units) ==
    [kind |-> kind, id |-> id, user |-> "u", session |-> session, units |-> units]

(* Two speech requests of a user; two tries of one turn; a turn and the gateway in a session. *)
ThreePlans ==
    {q1 :> Ask("speech", "a", "none", 2) @@ q2 :> Ask("speech", "b", "none", 1),
     q1 :> Ask("reasoner", "t", "s", 1) @@ q2 :> Ask("reasoner", "t", "s", 2),
     q1 :> Ask("speech", "a", "none", 2) @@ q2 :> Ask("gateway", "c", "s", 2)}

TwoVoices == <<"azure", "openai">>

TightPolicy ==
    [speech |-> [perAttempt |-> 2, user |-> 3, deployment |-> 3, session |-> -1,
                 userUnits |-> 4, deploymentUnits |-> -1],
     reasoning |-> [perAttempt |-> 2, user |-> 2, deployment |-> 2, session |-> 1,
                    userUnits |-> -1, deploymentUnits |-> -1]]

TwoLimits ==
    <<"speech", "client">> :> [requests |-> 2, window |-> 1] @@
    <<"speech", "identity">> :> [requests |-> 2, window |-> 3] @@
    <<"login", "client">> :> [requests |-> 1, window |-> 2]

ThreeCallers ==
    {[route |-> "speech", keys |-> [client |-> "x", identity |-> "u"]],
     [route |-> "speech", keys |-> [client |-> "x", identity |-> "v"]],
     [route |-> "login", keys |-> [client |-> "x", deployment |-> "d"]]}

MCInit == part \in {"usage", "rates"} /\ UsageInit /\ RateInit
MCNext ==
    /\ UNCHANGED part
    /\ \/ part = "usage" /\ UsageNext /\ UNCHANGED rateVars
       \/ part = "rates" /\ RateNext /\ UNCHANGED usageVars

MCFairness == \A r \in Requests : WF_usageVars(part = "usage" /\ Step(r) /\ UNCHANGED rateVars)
MCSpec == MCInit /\ [][MCNext]_<<usageVars, rateVars, part>> /\ MCFairness

TypeOK == UsageTypeOK /\ RateTypeOK
=============================================================================
