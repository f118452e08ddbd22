------------------------ MODULE MCTitleNotifications ------------------------
(* Small instances of TitleNotifications.                                   *)
EXTENDS TitleNotifications

CONSTANTS u1, founding, trendsetter, w1, w2

OneUser == {u1}
BothTitles == {founding, trendsetter}
OneRevocable == {trendsetter}
OneWorker == {w1}
TwoWorkers == {w1, w2}
==============================================================================
