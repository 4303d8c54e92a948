----------------------------- MODULE MCPlatform -----------------------------
(* Instance for TLC of parts of the system that share no state: the        *)
(* members of a room with their cache (an owner, a member who leaves and   *)
(* joins again, a newcomer), a room from its creation on, a user's         *)
(* notifications, uploads, discovery, reports and blocks, and the calls    *)
(* between services.  A behaviour is one of one part; the others rest in   *)
(* an initial state.                                                       *)
EXTENDS ChannelMembers, Rooms, Inbox, Uploads, Discovery, Assertions, ServiceCalls, Reports

CONSTANTS ann, bob, cyd

VARIABLE part

platformVars == <<vars, roomVars, inboxVars, uploadsVars, discoveryVars, assertionVars, callVars, reportVars, part>>

MCInit ==
    /\ part \in {"members", "rooms", "inbox", "uploads", "discovery", "assertions", "calls", "reports"}
    /\ Init /\ RoomsInit /\ InboxInit /\ UploadsInit /\ DiscoveryInit /\ AssertionsInit /\ ServiceCallsInit
    /\ ReportsInit /\ (part # "reports" => block = {})
    /\ part # "assertions" => ahead = [p \in Processes |-> 0]

MCNext ==
    /\ UNCHANGED part
    /\ \/ part = "members" /\ Next
          /\ UNCHANGED <<roomVars, inboxVars, uploadsVars, discoveryVars, assertionVars, callVars, reportVars>>
       \/ part = "rooms" /\ RoomsNext
          /\ UNCHANGED <<vars, inboxVars, uploadsVars, discoveryVars, assertionVars, callVars, reportVars>>
       \/ part = "inbox" /\ InboxNext
          /\ UNCHANGED <<vars, roomVars, uploadsVars, discoveryVars, assertionVars, callVars, reportVars>>
       \/ part = "uploads" /\ UploadsNext
          /\ UNCHANGED <<vars, roomVars, inboxVars, discoveryVars, assertionVars, callVars, reportVars>>
       \/ part = "discovery" /\ DiscoveryNext
          /\ UNCHANGED <<vars, roomVars, inboxVars, uploadsVars, assertionVars, callVars, reportVars>>
       \/ part = "assertions" /\ AssertionsNext
          /\ UNCHANGED <<vars, roomVars, inboxVars, uploadsVars, discoveryVars, callVars, reportVars>>
       \/ part = "calls" /\ ServiceCallsNext
          /\ UNCHANGED <<vars, roomVars, inboxVars, uploadsVars, discoveryVars, assertionVars, reportVars>>
       \/ part = "reports" /\ ReportsNext
          /\ UNCHANGED <<vars, roomVars, inboxVars, uploadsVars, discoveryVars, assertionVars, callVars>>

MCSpec == MCInit /\ [][MCNext]_platformVars

RoomCalls ==
    {<<bob, "leave", 1>>, <<bob, "join", 1>>, <<cyd, "check", 1>>, <<cyd, "join", 1>>,
     <<ann, "delete", 1>>}

Clocks == {-1, 0, 2}

Profile(likes, avoids, speaks, goal) ==
    [interests |-> likes, avoid |-> avoids, languages |-> speaks, goal |-> goal, enabled |-> TRUE]

Profiles == {Profile({"chess"}, {}, {"en"}, "talk"), Profile({}, {"chess"}, {}, "")}
=============================================================================
