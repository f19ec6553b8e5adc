---------------------------- MODULE EvidenceScope ----------------------------
(***************************************************************************)
(* What the evidence generators of scripts/generate_*_evidence.py see of   *)
(* the working copy: git's four listings of changed paths, and the scope   *)
(* guards that accept or refuse them.  A path stands for a directory or a  *)
(* file the guards tell apart; a git state is a record of the commits, the *)
(* index and the working copy, each a function from paths to contents.     *)
(***************************************************************************)
EXTENDS Integers, Sequences, FiniteSets

Sources == {"archive",      \* docs/reports/v4*, data/v4*
            "engine",       \* risk/engine.py
            "validator",    \* scripts/validate_risk_contract.py
            "runtime",      \* rust/side-cli, rust/side-engine
            "contracts",    \* risk/contracts
            "docs",         \* docs/plans, docs/sessions: the sources a report cites
            "agents",       \* AGENTS.md
            "notes",        \* .planning/ROADMAP.md, STATE.md, REQUIREMENTS.md
            "history",      \* reports/v7.4, reports/v8.0
            "annex"}        \* .planning/phases/<the phase's own directory>

\* The reports, each a path: its JSON, its Markdown and the artifacts under it.
Guarded == {"v54", "v55", "v56", "v57", "v511"}
Surfaces == {"scan", "paper", "backtest"}
Notices == {"v81", "v82"}
Stages == Guarded \cup Surfaces \cup Notices \cup {"audit"}
Paths == Sources \cup Stages

\* .gitignore names .planning/ and reports/: git lists a path there only once
\* somebody forced it into the index.
Ignored == {"notes", "history", "annex"} \cup Stages

Gone == [is |-> "gone", of |-> "none"]
Source(p, c) == [is |-> c, of |-> p]

(***************************************************************************)
(* git                                                                     *)
(***************************************************************************)
\* git diff --name-only of two trees.  A file that is gone and whose content is under
\* a new path is a rename, of which only the new name is listed.
Renamed(old, new) == {p \in Paths : /\ new[p] = Gone /\ old[p] # Gone
                                    /\ \E q \in Paths : old[q] = Gone /\ new[q] = old[p]}
Diff(old, new) == {p \in Paths : old[p] # new[p]} \ Renamed(old, new)

Tip(g) == g.log[Len(g.log)]
Committed(g, b) == Diff(g.log[b], Tip(g))
Staged(g) == Diff(Tip(g), g.index)
Unstaged(g) == {p \in Paths : g.index[p] # Gone /\ g.work[p] # g.index[p]}
Untracked(g) == {p \in Paths \ Ignored : g.index[p] = Gone /\ g.work[p] # Gone}

\* Without a base the listing of the commits fails, and with it the guard.
NoBase == 0

\* The same listings without the untracked one.
ChangedTracked(g, b) == Committed(g, b) \cup Staged(g) \cup Unstaged(g)

\* The union the guards classify, and a listing restricted to a path.
Changed(g, b) == Committed(g, b) \cup Staged(g) \cup Unstaged(g) \cup Untracked(g)

Touched(old, new, p) == old[p] # new[p]

(***************************************************************************)
(* The base of the comparison, when --diff-base does not name it: the      *)
(* parent of the phase's first commit.                                     *)
(***************************************************************************)
\* v5.4 knows its commits by their message: here all but the first.
Phase128(g) == IF Len(g.log) > 1 THEN 1 ELSE NoBase
\* The others by the directory of the phase, which git knows only if it was forced in.
FirstTouch(g, p) == {k \in 1 .. Len(g.log) - 1 : /\ g.log[k + 1][p] # g.log[k][p]
                                                 /\ \A j \in 2 .. k : g.log[j][p] = g.log[j - 1][p]}
ParentOfFirst(g, p) == IF FirstTouch(g, p) = {} THEN NoBase ELSE CHOOSE k \in FirstTouch(g, p) : TRUE
Phase130(g) == ParentOfFirst(g, "annex")
Phase133(g) == ParentOfFirst(g, "annex")
Phase137(g) == ParentOfFirst(g, "annex")

(***************************************************************************)
(* The scopes: what each phase may touch.                                  *)
(***************************************************************************)
Allowed54 == {"notes", "annex", "v54"} \cup {"agents"}
Allowed55 == {"notes", "annex", "v55", "validator"}
Allowed56 == {"notes", "annex", "v56"}
Allowed57 == {"notes", "annex", "v57"}
Allowed511 == {"notes", "annex", "v511"}
Allowed(s) == CASE s = "v54" -> Allowed54 [] s = "v55" -> Allowed55
                [] s = "v56" -> Allowed56 [] s = "v57" -> Allowed57
                [] s = "v511" -> Allowed511

\* Each guard fails when a listing fails and when a path is of the archive, forbidden,
\* or simply not among the allowed.
Archive54(g, b) == /\ b # NoBase
                   /\ ~Touched(g.log[b], Tip(g), "archive")
                   /\ ~Touched(Tip(g), g.index, "archive")
                   /\ "archive" \notin Unstaged(g)
Scope54(g, b) == b # NoBase /\ Changed(g, b) \subseteq Allowed54
Scope55(g, b) == b # NoBase /\ Changed(g, b) \subseteq Allowed55
Archive55(g, b) == /\ b # NoBase
                   /\ "archive" \notin Unstaged(g)
                   /\ ~Touched(g.log[b], Tip(g), "archive")
                   /\ ~Touched(Tip(g), g.index, "archive")
Scope56(g, b) == b # NoBase /\ Changed(g, b) \subseteq Allowed56
Scope57(g, b) == b # NoBase /\ Changed(g, b) \subseteq Allowed57
Scope511(g, b) == b # NoBase /\ Changed(g, b) \subseteq Allowed511

(***************************************************************************)
(* The audit compares the working copy with the base and knows what is     *)
(* protected, not what is allowed.                                         *)
(***************************************************************************)
WorkingTree(g) == [p \in Paths |-> IF g.index[p] = Gone THEN Gone ELSE g.work[p]]
AuditChanged(g, b) == Diff(g.log[b], WorkingTree(g)) \cup Untracked(g)
Protected == {"archive", "contracts", "v57", "v81", "v82"}
SurfacesUntouched(g, b) == AuditChanged(g, b) \cap Protected = {}
LiveAbsent(tree) == tree["runtime"].is # "live"
Expanded(g, b) == "runtime" \in AuditChanged(g, b) /\ ~LiveAbsent(g.work)

(***************************************************************************)
(* Where a report may not be written: the v8 and v2 generators and the     *)
(* audit refuse a report directory that holds history.                     *)
(***************************************************************************)
ClosedScan == {"v57", "v81", "v82", "notes", "archive", "contracts"}
ClosedPaper == {"v57", "v81", "v82", "notes", "archive", "contracts"}
ClosedBacktest == {"v57", "v81", "v82", "notes", "archive", "contracts"}
ClosedParity == {"archive", "v57", "history"}
ClosedNotice == {"archive", "v57", "history", "v81"}
ClosedAudit == {"v57", "v81", "v82", "notes", "archive", "contracts"}
Closed(s) == CASE s = "scan" -> ClosedScan [] s = "paper" -> ClosedPaper
               [] s = "backtest" -> ClosedBacktest [] s = "v81" -> ClosedParity
               [] s = "v82" -> ClosedNotice [] s = "audit" -> ClosedAudit [] OTHER -> {}
=============================================================================
