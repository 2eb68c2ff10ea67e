----------------------------- MODULE LocalRules -----------------------------
(***************************************************************************)
(* The diagnosis by local rules (agent/internal/core/service/              *)
(* rule_engine.go, the table of core/domain/ai.go).  What is read of a     *)
(* status is what the code looks for in its text: the exit code that       *)
(* ParseExitCode finds, and the words of the rules by status; what is read *)
(* of the logs, the patterns they contain.                                 *)
(***************************************************************************)
EXTENDS Integers, Sequences, FiniteSetsExt

LOCAL Any == {}

\* An exit code of -1 matches none; a rule without a pattern asks for none.
ByCode(code, patterns, severity, action) ==
  [code |-> code, patterns |-> patterns, status |-> {}, severity |-> severity, action |-> action]
ByStatus(words, severity, action) ==
  [code |-> -2, patterns |-> Any, status |-> words, severity |-> severity, action |-> action]

DefaultLocalRules == <<
  ByCode(137, Any, "critical", "restart"),
  ByCode(143, Any, "warning", "none"),
  ByCode(1, {"connection refused"}, "critical", "none"),
  ByCode(1, {"address already in use"}, "critical", "stop"),
  ByCode(1, {"no space left on device"}, "critical", "none"),
  ByCode(1, {"permission denied"}, "warning", "none"),
  ByCode(1, {"exec format error"}, "critical", "none"),
  ByCode(1, {"killed"}, "critical", "none"),
  ByStatus({"crashloopbackoff"}, "critical", "restart"),
  ByStatus({"oomkilled"}, "critical", "restart"),
  ByCode(255, Any, "warning", "none"),
  ByCode(0, Any, "info", "none") >>

\* ParseExitCode: the number in "Exited (n)" or "Restarting (n)", else -1.
ParseExitCode(status) ==
  IF status.state \in {"exited", "restarting"} THEN status.code ELSE -1

\* A slip of RuleMatches: the pattern of the logs is forgotten.
RuleMatchesAnyLog(rule, status, logs) ==
  \/ rule.status # {} /\ rule.status \subseteq status.words
  \/ rule.code = ParseExitCode(status)

RuleMatches(rule, status, logs) ==
  \/ rule.status # {} /\ rule.status \subseteq status.words
  \/ rule.code = ParseExitCode(status) /\ rule.patterns \subseteq logs

NoRule == 0

\* Evaluate: the first rule of the table that matches.
Evaluate(rules, status, logs) ==
  LET hits == {i \in DOMAIN rules : RuleMatches(rules[i], status, logs)} IN
  IF hits = {} THEN NoRule ELSE Min(hits)

\* The level and the severity without a model: a rule's, or those of the bare signal.
LocalVerdict(status, logs) ==
  LET i == Evaluate(DefaultLocalRules, status, logs) IN
  IF i = NoRule THEN [level |-> "SIG", severity |-> "info", action |-> "none"]
  ELSE [level |-> "RULE", severity |-> DefaultLocalRules[i].severity,
        action |-> DefaultLocalRules[i].action]

-----------------------------------------------------------------------------
(* Properties, over the inputs the rules tell apart.                       *)

LOCAL Codes == {-1, 0, 1, 2, 137, 143, 255}
LOCAL Patterns == UNION {DefaultLocalRules[i].patterns : i \in DOMAIN DefaultLocalRules}
LOCAL Statuses ==
  [state : {"up", "exited", "restarting"}, code : Codes,
   words : {{}, {"crashloopbackoff"}, {"oomkilled"}}]

\* Every rule of the table is the verdict on some container: none is hidden behind an
\* earlier one.  Restarting is proposed only for memory and crash loops, stopping only
\* for a port in use, and a container that runs gets no rule by its exit code.
RulesExact ==
  /\ \A i \in DOMAIN DefaultLocalRules : \E s \in Statuses, logs \in SUBSET Patterns :
       Evaluate(DefaultLocalRules, s, logs) = i
  /\ \A s \in Statuses, logs \in SUBSET Patterns :
       LET v == LocalVerdict(s, logs) IN
       /\ v.action = "restart" => s.words # {} \/ ParseExitCode(s) = 137
       /\ v.action = "stop" => ParseExitCode(s) = 1 /\ "address already in use" \in logs
       /\ s.state = "up" /\ s.words = {} => v.level = "SIG"
=============================================================================
