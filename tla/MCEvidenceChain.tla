--------------------------- MODULE MCEvidenceChain ---------------------------
\* One checkout, one edit of every kind, two generators after it.
EXTENDS EvidenceChain

MCContents ==
  [archive |-> {"edited"}, engine |-> {"wrong"},
   validator |-> {"edited", "lax", "strict", "broken"},
   runtime |-> {"earlier", "broken", "crash", "lenient", "live", "unguarded", "late"},
   contracts |-> {"drifted", "empty", "claims"}, docs |-> {"gone", "edited"},
   agents |-> {"edited"}, notes |-> {"edited"}, annex |-> {"edited"},
   history |-> {"reworded", "gutted", "gone"}]

\* Broken commands answer one decision wrongly: in one field, with any other value of it;
\* by running what was stopped, in full; or as if they had not heard the decision.
MCValues ==
  [ok |-> BOOLEAN, class |-> Classes, state |-> {"stopped", "continued"},
   status |-> {"none", "deferred", "applied"}, applied |-> BOOLEAN,
   size |-> {"none", "asked", "allowed"}, metrics |-> {"none", "full", "less", "odd"},
   ran |-> BOOLEAN, artifact |-> {"none", "invalid", "valid"}, version |-> {"v1", "v2"},
   filed_state |-> {"none", "stopped", "continued"},
   filed_status |-> {"none", "not_applicable", "applied"}, filed_applied |-> BOOLEAN,
   filed_size |-> {"none", "asked", "allowed"}]
MCWrong(s, c) ==
  UNION {{[Asked(s, c) EXCEPT ![f] = v] : v \in MCValues[f]} : f \in DOMAIN MCValues}
  \cup {Asked(s, "size"), [Asked(s, "size") EXCEPT !.class = c],
        [Asked(s, c) EXCEPT !.ran = TRUE, !.metrics = "full"]}
MCBroken ==
  [s \in Replayers |->
     UNION {{[[d \in Classes |-> Asked(s, d)] EXCEPT ![c] = r] : r \in MCWrong(s, c)}
            : c \in RunSet(s) \ {"block"}}]

\* The published tree, a working tree with every report, and one where they are tracked
\* and the last closure is still to be made.
MCCheckouts ==
  {[reports |-> {}, tracked |-> FALSE, missing |-> {"docs", "history", "notes"}],
   [reports |-> Stages, tracked |-> FALSE, missing |-> {}],
   [reports |-> Stages \ {"v511"}, tracked |-> TRUE, missing |-> {}]}

MCCutAt == {1, 3}
=============================================================================
