----------------------------- MODULE MCServices -----------------------------
(* Instance for TLC of five parts of the system that share no state: an    *)
(* item of the workspace with its outbox, the websocket hub, the checks of *)
(* one user's messages, the limiter of uploads, and the opening of a       *)
(* direct channel.  A behaviour is one of one part; the others rest in     *)
(* their initial states.                                                   *)
EXTENDS Workspace, SocketHub, Moderation, RateLimiter, MCDirectChannel

VARIABLE part

partVars == <<workspaceVars, hubVars, moderationVars, limiterVars, vars, part>>

Parts == {"workspace", "hub", "moderation", "limiter", "direct"}

MCInit == /\ WorkspaceInit /\ HubInit /\ ModerationInit /\ LimiterInit /\ Init
          /\ part \in Parts

MCNext ==
    /\ UNCHANGED part
    /\ \/ part = "workspace" /\ WorkspaceNext /\ UNCHANGED <<hubVars, moderationVars, limiterVars, vars>>
       \/ part = "hub" /\ HubNext /\ UNCHANGED <<workspaceVars, moderationVars, limiterVars, vars>>
       \/ part = "moderation" /\ ModerationNext /\ UNCHANGED <<workspaceVars, hubVars, limiterVars, vars>>
       \/ part = "limiter" /\ LimiterNext /\ UNCHANGED <<workspaceVars, hubVars, moderationVars, vars>>
       \/ part = "direct" /\ Next /\ UNCHANGED <<workspaceVars, hubVars, moderationVars, limiterVars>>

\* The fairness of a part that rests asks nothing.
MCSpec == MCInit /\ [][MCNext]_partVars /\ WorkspaceFairness /\ HubFairness

Text == {"hello"}
NoScore(t) == 0
=============================================================================
