------------------------------ MODULE Reports ------------------------------
(***************************************************************************)
(* What the safety service (pkg/safety) keeps beside its verdicts: reports *)
(* with their list by status, appeals, the moderators' rules, and the      *)
(* blocks between users, which the other services ask about and which are  *)
(* read one direction after the other.  Most errors are ignored.  Events   *)
(* go through the outbox (EventOutbox) and are left out, like the copies   *)
(* of blocks and risks in Redis, which decide nothing here.                *)
(***************************************************************************)
EXTENDS Naturals, FiniteSets

CONSTANTS
    Citizens, Judges,   \* users, and the moderators among them
    Cases, RuleIds,     \* ids of reports and of rules
    Desks,              \* calls at a time
    MaxDesks, MaxSnags  \* bounds on calls and on failing statements

ASSUME ReportsAssumption == Judges \subseteq Citizens /\ {MaxDesks, MaxSnags} \subseteq Nat

VARIABLES
    report,   \* safety_reports_by_id: target and status
    byStatus, \* safety_reports_by_status: a report under the status it began with
    appealed, \* safety_appeals_by_report
    rule,     \* safety_rules: enabled or not
    block,    \* safety_blocks_by_user: who blocks whom
    desk,     \* the calls
    desks, snags

reportVars == <<report, byStatus, appealed, rule, block, desk, desks, snags>>

NoDesk == [at |-> "free", case |-> "none", status |-> "none", ask |-> <<>>,
           held |-> {}, free |-> FALSE, sure |-> TRUE]

ReportsInit ==
    /\ report = [r \in {} |-> <<"none", "open">>] /\ byStatus = {} /\ appealed = {}
    /\ rule = [k \in {} |-> TRUE]
    /\ block \in SUBSET {p \in Citizens \X Citizens : p[1] # p[2]}
    /\ desk = [d \in Desks |-> NoDesk] /\ desks = 0 /\ snags = 0

Works == UNCHANGED snags
Snag == snags < MaxSnags /\ snags' = snags + 1
Once == desks < MaxDesks /\ desks' = desks + 1
Sits(d, at) == desk[d].at = at
Seat(d, call) == Sits(d, "free") /\ Once /\ desk' = [desk EXCEPT ![d] = call]
Step(d, at) == desk' = [desk EXCEPT ![d].at = at]
Put(f, k, v) == [j \in DOMAIN f \cup {k} |-> IF j = k THEN v ELSE f[j]]
Some(done, kept) == (Works /\ done) \/ (Snag /\ (done \/ kept))   \* an error is ignored

----------------------------------------------------------------------------
(* CreateReport: the row or an error, then the list.                       *)
CreateReport(d, r, t) ==
    /\ r \notin DOMAIN report /\ Sits(d, "free") /\ Once
    /\ \/ /\ Works /\ report' = Put(report, r, <<t, "open">>)
          /\ desk' = [desk EXCEPT ![d] = [NoDesk EXCEPT !.at = "list", !.case = r]]
       \/ Snag /\ report' \in {report, Put(report, r, <<t, "open">>)} /\ UNCHANGED desk
    /\ UNCHANGED <<byStatus, appealed, rule, block>>

ListReport(d) ==
    /\ Sits(d, "list") /\ desk' = [desk EXCEPT ![d] = NoDesk]
    /\ Some(byStatus' = byStatus \cup {<<desk[d].case, "open">>}, UNCHANGED byStatus)
    /\ UNCHANGED <<report, appealed, rule, block, desks>>

(* UpdateReport, by a moderator: whatever the status was, and the row of   *)
(* the list stays under "open".                                            *)
UpdateReport(d, r, status) ==
    /\ Judges # {} /\ r \in DOMAIN report
    /\ Seat(d, [NoDesk EXCEPT !.at = "update", !.case = r, !.status = status])
    /\ UNCHANGED <<report, byStatus, appealed, rule, block, snags>>

WriteStatus(d) ==
    /\ Sits(d, "update") /\ desk' = [desk EXCEPT ![d] = NoDesk]
    /\ Some(report' = [report EXCEPT ![desk[d].case][2] = desk[d].status], UNCHANGED report)
    /\ UNCHANGED <<byStatus, appealed, rule, block, desks>>

CreateAppeal(u, r) ==   \* by the report's target
    /\ r \in DOMAIN report /\ report[r][1] = u /\ Once
    /\ Some(appealed' = appealed \cup {r}, UNCHANGED appealed)
    /\ UNCHANGED <<report, byStatus, rule, block, desk>>

----------------------------------------------------------------------------
CreateRule(k, on) ==
    /\ Judges # {} /\ k \notin DOMAIN rule /\ Once
    /\ Some(rule' = Put(rule, k, on), UNCHANGED rule)
    /\ UNCHANGED <<report, byStatus, appealed, block, desk>>

UpdateRule(k, on) ==   \* an upsert: a rule deleted meanwhile is there again
    /\ Judges # {} /\ Once
    /\ Some(rule' = Put(rule, k, on), UNCHANGED rule)
    /\ UNCHANGED <<report, byStatus, appealed, block, desk>>

DeleteRule(k) ==
    /\ Judges # {} /\ Once
    /\ Some(rule' = [j \in DOMAIN rule \ {k} |-> rule[j]], UNCHANGED rule)
    /\ UNCHANGED <<report, byStatus, appealed, block, desk>>

----------------------------------------------------------------------------
(* What a check that runs will be judged by: which blocks stood since it   *)
(* began (held), and whether there was a moment without any between the    *)
(* two, or one of them began to block the other meanwhile (free).          *)
Ways(p) == {p, <<p[2], p[1]>>}
Turns(p) == Ways(p) \cap block' = {} \/ Ways(p) \cap (block' \ block) # {}

Watched ==
    desk' = [d \in Desks |-> [desk[d] EXCEPT !.held = @ \cap block',
                                            !.free = @ \/ (desk[d].ask # <<>> /\ Turns(desk[d].ask))]]

CreateBlock(u, v) ==
    /\ u # v /\ Once
    /\ Some(block' = block \cup {<<u, v>>}, UNCHANGED block) /\ Watched
    /\ UNCHANGED <<report, byStatus, appealed, rule>>

DeleteBlock(u, v) ==
    /\ <<u, v>> \in block /\ Once
    /\ Some(block' = block \ {<<u, v>>}, UNCHANGED block) /\ Watched
    /\ UNCHANGED <<report, byStatus, appealed, rule>>

(* isBlocked, for IsUserBlocked and for each candidate of                  *)
(* BatchFilterCandidates (which also drops whoever is at risk): one        *)
(* direction, then, if it holds no row, the other; a query that fails      *)
(* counts as no row.                                                       *)
IsBlocked(d, u, v) ==
    /\ u # v
    /\ Seat(d, [NoDesk EXCEPT !.at = "ahead", !.ask = <<u, v>>,
                           !.held = block \cap Ways(<<u, v>>), !.free = block \cap Ways(<<u, v>>) = {}])
    /\ UNCHANGED <<report, byStatus, appealed, rule, block, snags>>

Finds(d, p, at) ==
    \/ Works /\ Step(d, IF p \in block THEN "blocked" ELSE at)
    \/ Snag /\ desk' = [desk EXCEPT ![d].at = at, ![d].sure = FALSE]

ReadAhead(d) ==
    /\ Sits(d, "ahead") /\ Finds(d, desk[d].ask, "back")
    /\ UNCHANGED <<report, byStatus, appealed, rule, block, desks>>

ReadBackSame(d) ==   \* Seeded fault: the same direction again
    /\ Sits(d, "back") /\ Finds(d, desk[d].ask, "clear")
    /\ UNCHANGED <<report, byStatus, appealed, rule, block, desks>>

ReadBack(d) ==
    /\ Sits(d, "back") /\ Finds(d, <<desk[d].ask[2], desk[d].ask[1]>>, "clear")
    /\ UNCHANGED <<report, byStatus, appealed, rule, block, desks>>

AnswerBlocked(d) ==
    /\ desk[d].at \in {"blocked", "clear"} /\ desk' = [desk EXCEPT ![d] = NoDesk]
    /\ UNCHANGED <<report, byStatus, appealed, rule, block, desks, snags>>

----------------------------------------------------------------------------
ReportsNext ==
    \/ \E d \in Desks :
           \/ \E r \in Cases : \/ \E t \in Citizens : CreateReport(d, r, t)
                               \/ \E s \in {"reviewing", "resolved", "rejected"} : UpdateReport(d, r, s)
           \/ ListReport(d) \/ WriteStatus(d)
           \/ ReadAhead(d) \/ ReadBack(d) \/ AnswerBlocked(d) \/ \E u, v \in Citizens : IsBlocked(d, u, v)
    \/ \E u \in Citizens : \/ \E r \in Cases : CreateAppeal(u, r)
                           \/ \E v \in Citizens : CreateBlock(u, v) \/ DeleteBlock(u, v)
    \/ \E k \in RuleIds : DeleteRule(k) \/ \E on \in BOOLEAN : CreateRule(k, on) \/ UpdateRule(k, on)

ReportsSpec == ReportsInit /\ [][ReportsNext]_reportVars

----------------------------------------------------------------------------
(* The check of a block reads the two directions one after the other, so   *)
(* blocks change in between.  If both reads work, it says "not blocked"    *)
(* only when no direction stood all the time it ran, and when there was a  *)
(* moment at which neither had blocked the other, or one of them began to  *)
(* block while it ran: only a block that passes from one of the two to the *)
(* other under way is missed.                                              *)
FreeWasFree == \A d \in Desks : Sits(d, "clear") /\ desk[d].sure => desk[d].held = {} /\ desk[d].free
=============================================================================
