-------------------------- MODULE MCTitleLifecycle --------------------------
(* Small instances of TitleLifecycle.                                       *)
EXTENDS TitleLifecycle

CONSTANTS u1, founding, trendsetter, w1, w2, c1

OneUser == {u1}
BothTitles == {founding, trendsetter}
OneRevocable == {trendsetter}
OneWorker == {w1}
TwoWorkers == {w1, w2}
OneClient == {c1}
NoClient == {}
==============================================================================
