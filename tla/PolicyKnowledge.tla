--------------------------- MODULE PolicyKnowledge --------------------------
(***************************************************************************)
(* Governance of the knowledge and of the rules that engagements freeze:   *)
(* versions of knowledge documents, releases made of them, rules, and      *)
(* rule-sets made of rules.                                                *)
(*                                                                         *)
(* Grain of atomicity.  A clerk's transaction reads in one action and      *)
(* writes and commits in a second one.  Between the two it holds the row   *)
(* locks it took with FOR UPDATE: the release, the rule-set or the rule it *)
(* is about.  It does not lock the other rows it reads, so those may       *)
(* change before it commits.  A review of a version locks the only row it  *)
(* reads and is one action.                                                *)
(*                                                                         *)
(* Abstractions.  Documents, chunks, scopes and dates are left out: a      *)
(* version, a release or a rule-set is always in force.  The content of a  *)
(* rule is whether its present form has ever been approved (vetted).       *)
(***************************************************************************)
EXTENDS Naturals

CONSTANTS
    Versions, Releases, Rules, Rulesets,
    RulesetOf,   \* a rule belongs to one rule-set: its code is unique there
    Clerks, NoVersion

ASSUME KnowledgeAssumption ==
    NoVersion \notin Versions /\ RulesetOf \in [Rules -> Rulesets]

VARIABLES
    version,   \* annual_knowledge_version.review_status
    release,   \* rows of annual_knowledge_release and their items
    rule,      \* rows of annual_audit_rule
    ruleset,   \* annual_audit_ruleset.status
    clerk,     \* transactions under way
    vetted     \* history: rules approved in their present form

kvars == <<version, release, rule, ruleset, clerk, vetted>>

Operations == {"none", "release", "publish_release", "upsert_rule", "review_rule",
               "publish_ruleset"}
RuleRow == [status : {"unborn", "draft", "approved", "rejected"},
            version : Versions \cup {NoVersion}]

KnowledgeTypeOK ==
    /\ version \in [Versions -> {"unborn", "draft", "reviewed", "approved", "rejected"}]
    /\ release \in [Releases -> [status : {"unborn", "draft", "published"},
                                 items : SUBSET Versions]]
    /\ rule \in [Rules -> RuleRow]
    /\ ruleset \in [Rulesets -> {"unborn", "draft", "published"}]
    /\ \A c \in Clerks : clerk[c].op \in Operations
    /\ vetted \subseteq Rules

IdleClerk == [op |-> "none"]

KnowledgeInit ==
    /\ version = [v \in Versions |-> "unborn"]
    /\ release = [r \in Releases |-> [status |-> "unborn", items |-> {}]]
    /\ rule = [r \in Rules |-> [status |-> "unborn", version |-> NoVersion]]
    /\ ruleset = [s \in Rulesets |-> "unborn"]
    /\ clerk = [c \in Clerks |-> IdleClerk]
    /\ vetted = {}

Begin(c, tx) == clerk[c] = IdleClerk /\ clerk' = [clerk EXCEPT ![c] = tx]
End(c) == clerk' = [clerk EXCEPT ![c] = IdleClerk]

\* Rows locked by the transactions under way.
LockedReleases == {clerk[c].release : c \in {d \in Clerks : clerk[d].op = "publish_release"}}
LockedRulesets == {clerk[c].set : c \in {d \in Clerks : clerk[d].op \in {"upsert_rule", "publish_ruleset"}}}
LockedRules == {clerk[c].rule : c \in {d \in Clerks : clerk[d].op = "review_rule"}}

RulesOf(s) == {r \in Rules : rule[r].status # "unborn" /\ RulesetOf[r] = s}

----------------------------------------------------------------------------
(* Versions and releases of knowledge.                                     *)

CreateVersion(v) ==
    /\ version[v] = "unborn"
    /\ version' = [version EXCEPT ![v] = "draft"]
    /\ UNCHANGED <<release, rule, ruleset, clerk, vetted>>

ReviewVersion(v, action) ==
    /\ version[v] # "unborn"
    /\ action = "reviewed" => version[v] \in {"draft", "rejected"}
    /\ action = "approved" => version[v] = "reviewed"
    /\ version' = [version EXCEPT ![v] = action]
    /\ UNCHANGED <<release, rule, ruleset, clerk, vetted>>

BeginRelease(c, r, vs) ==
    /\ vs # {} /\ \A v \in vs : version[v] = "approved"
    /\ Begin(c, [op |-> "release", release |-> r, items |-> vs])
    /\ UNCHANGED <<version, release, rule, ruleset, vetted>>

\* code and version of a release are unique: a second insert fails
EndRelease(c) ==
    /\ clerk[c].op = "release"
    /\ LET r == clerk[c].release IN
        release' = IF release[r].status = "unborn"
                   THEN [release EXCEPT ![r] = [status |-> "draft", items |-> clerk[c].items]]
                   ELSE release
    /\ End(c) /\ UNCHANGED <<version, rule, ruleset, vetted>>

BeginPublishRelease(c, r) ==
    /\ release[r].status = "draft" /\ r \notin LockedReleases
    /\ \A v \in release[r].items : version[v] = "approved"
    /\ Begin(c, [op |-> "publish_release", release |-> r])
    /\ UNCHANGED <<version, release, rule, ruleset, vetted>>

EndPublishRelease(c) ==
    /\ clerk[c].op = "publish_release"
    /\ release' = [release EXCEPT ![clerk[c].release].status = "published"]
    /\ End(c) /\ UNCHANGED <<version, rule, ruleset, vetted>>

----------------------------------------------------------------------------
(* Rules and rule-sets.                                                    *)

CreateRuleset(s) ==
    /\ ruleset[s] = "unborn"
    /\ ruleset' = [ruleset EXCEPT ![s] = "draft"]
    /\ UNCHANGED <<version, release, rule, clerk, vetted>>

OpenForRules(s) == ruleset[s] = "draft" /\ s \notin LockedRulesets

BeginUpsertRule(c, r, v) ==
    /\ OpenForRules(RulesetOf[r])
    /\ v # NoVersion => version[v] = "approved"
    /\ Begin(c, [op |-> "upsert_rule", rule |-> r, set |-> RulesetOf[r], version |-> v])
    /\ UNCHANGED <<version, release, rule, ruleset, vetted>>

\* Mutant: a revised rule keeps the status it had.
RevisedStatusKept(r) == IF rule[r].status = "unborn" THEN "draft" ELSE rule[r].status

RevisedStatus(r) == "draft"

EndUpsertRule(c) ==
    /\ clerk[c].op = "upsert_rule"
    /\ LET r == clerk[c].rule IN
        /\ r \notin LockedRules
        /\ rule' = [rule EXCEPT ![r].status = RevisedStatus(r),
                                ![r].version = clerk[c].version]
        /\ vetted' = vetted \ {r}
    /\ End(c) /\ UNCHANGED <<version, release, ruleset>>

BeginReviewRule(c, r, decision) ==
    /\ rule[r].status # "unborn" /\ r \notin LockedRules
    /\ ruleset[RulesetOf[r]] = "draft"
    /\ Begin(c, [op |-> "review_rule", rule |-> r, decision |-> decision])
    /\ UNCHANGED <<version, release, rule, ruleset, vetted>>

EndReviewRule(c) ==
    /\ clerk[c].op = "review_rule"
    /\ LET r == clerk[c].rule IN
        /\ rule' = [rule EXCEPT ![r].status = clerk[c].decision]
        /\ vetted' = IF clerk[c].decision = "approved" THEN vetted \cup {r} ELSE vetted
    /\ End(c) /\ UNCHANGED <<version, release, ruleset>>

BeginPublishRuleset(c, s) ==
    /\ ruleset[s] = "draft" /\ s \notin LockedRulesets
    /\ RulesOf(s) # {} /\ \A r \in RulesOf(s) : rule[r].status = "approved"
    /\ Begin(c, [op |-> "publish_ruleset", set |-> s])
    /\ UNCHANGED <<version, release, rule, ruleset, vetted>>

EndPublishRuleset(c) ==
    /\ clerk[c].op = "publish_ruleset"
    /\ ruleset' = [ruleset EXCEPT ![clerk[c].set] = "published"]
    /\ End(c) /\ UNCHANGED <<version, release, rule, vetted>>

KnowledgeNext ==
    \/ \E v \in Versions :
        CreateVersion(v) \/ \E a \in {"reviewed", "approved", "rejected"} : ReviewVersion(v, a)
    \/ \E s \in Rulesets : CreateRuleset(s)
    \/ \E c \in Clerks :
        \/ \E r \in Releases :
            \/ \E vs \in SUBSET Versions : BeginRelease(c, r, vs)
            \/ BeginPublishRelease(c, r)
        \/ EndRelease(c) \/ EndPublishRelease(c)
        \/ \E r \in Rules :
            \/ \E v \in Versions \cup {NoVersion} : BeginUpsertRule(c, r, v)
            \/ \E d \in {"approved", "rejected"} : BeginReviewRule(c, r, d)
        \/ EndUpsertRule(c) \/ EndReviewRule(c)
        \/ \E s \in Rulesets : BeginPublishRuleset(c, s)
        \/ EndPublishRuleset(c)

KnowledgeSpec == KnowledgeInit /\ [][KnowledgeNext]_kvars

----------------------------------------------------------------------------
(* Properties.                                                             *)

\* Every rule of a published rule-set has been approved in the form it was
\* published in, whatever reviews and revisions ran beside the publication: a
\* revision never slips into a rule-set unreviewed (publish_ruleset: "a
\* complete reviewed rule-set").  A rule approved once counts as reviewed,
\* also when it is rejected later: review_rule and publish_ruleset lock different
\* rows, so a rule may be rejected while its rule-set is published.
PublishedRulesVetted ==
    \A s \in Rulesets : ruleset[s] = "published" => RulesOf(s) \subseteq vetted
=============================================================================
