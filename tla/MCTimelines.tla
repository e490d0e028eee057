----------------------------- MODULE MCTimelines -----------------------------
EXTENDS Timelines, TLC
CONSTANTS people, tasks, extra, m1, h1, h2

MCTemplate == <<people, tasks>>
MCSymmetry == Permutations({h1, h2})
=============================================================================
