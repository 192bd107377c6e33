--------------------------- MODULE MCBaselineChain ---------------------------
EXTENDS BaselineChain, TLC
CONSTANTS k1, k2, f1, f2, p1, p2, q1, q2, a1, a2
auto(behavior, failure) ==
  [execution |-> "completed", behavior |-> behavior, manual |-> FALSE,
   mandatory |-> TRUE, failure |-> failure]
open == [auto("needs_review", None) EXCEPT !.manual = TRUE]
unrun == [auto(None, None) EXCEPT !.execution = "not_run"]
Files(mode, x, y, m, n) ==
  [mode |-> mode, commit |-> 1, prints |-> 1, clean |-> TRUE,
   rows |-> (k1 :> x @@ k2 :> y), metric |-> (q1 :> m @@ q2 :> n), contract |-> "pass"]
pass == auto("pass", None)
fail == auto("fail", f1)
rule(x, y, m, n) == Files("rule_only", x, y, m, n)
live(x) == Files("live", x, open, 0, 0)
\* Reports of the rules: a known failure, a changed one, a repair,
\* better and worse metrics; reports no gate may let through; and
\* reports of the live mode.
MCSealed ==
  <<rule(fail, pass, 1, 2), rule(auto("fail", f2), pass, 1, 2), rule(pass, pass, 1, 2),
    rule(pass, pass, 3, 1),
    rule(pass, unrun, 2, 2), [rule(pass, pass, 2, 2) EXCEPT !.clean = FALSE],
    [rule(pass, pass, 2, 2) EXCEPT !.contract = "missing"],
    live(pass), live(fail), [live(pass) EXCEPT !.prints = 2]>>
judged == 8
flawed == 9
By(id, run, k, who, role, verdict, corrected) ==
  [id |-> id, run |-> run, key |-> k, reviewer |-> who, role |-> role,
   verdict |-> verdict, failure |-> f1, supersedes |-> corrected]
dev == By(1, judged, k2, p1, "developer", "pass", 0)
sales == By(2, judged, k2, p2, "sales", "pass", 0)
same == By(3, judged, k2, p1, "sales", "pass", 0)
against == By(4, judged, k2, p2, "sales", "fail", 0)
corrected == By(5, judged, k2, p2, "sales", "pass", 4)
devFlawed == By(6, flawed, k2, p1, "developer", "pass", 0)
salesFlawed == By(7, flawed, k2, p2, "sales", "pass", 0)
override == By(8, flawed, k1, p1, "developer", "pass", 0)
override2 == By(9, flawed, k1, p2, "sales", "pass", 0)
MCReview == {dev, sales, same, against, corrected, devFlawed, salesFlawed, override, override2}
MCReviewSet ==
  {{}, {dev, sales}, {dev, same}, {dev, against}, {dev, against, corrected},
   {devFlawed, salesFlawed}, {devFlawed, salesFlawed, override, override2}}
MCIssue == {[mode |-> "rule_only", key |-> k1, failure |-> f1]}
MaintainerSymmetry == Permutations(Maintainer)
=============================================================================
