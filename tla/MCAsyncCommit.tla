---------------------------- MODULE MCAsyncCommit ----------------------------
(* AsyncCommit on two objects with two properties each.                    *)
EXTENDS AsyncCommit

MCObjects    == {3, 5}
MCProperties == {1, 2}
MCValues     == {0, 7}
=============================================================================
