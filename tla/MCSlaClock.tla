------------------------------ MODULE MCSlaClock ------------------------------
(* Two stages with a deadline, a rework loop between them and an outcome.  *)
EXTENDS SlaClock, TLC

MCStages == {"work", "review", "done"}
MCEdges  == {<<"work", "review">>, <<"review", "work">>, <<"review", "done">>}
MCHours  == ("work" :> 1) @@ ("review" :> 2) @@ ("done" :> 0)
=============================================================================
