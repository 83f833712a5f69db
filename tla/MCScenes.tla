------------------------------ MODULE MCScenes ------------------------------
(* Two stories of Subscription under one fair specification: "alone", where  *)
(* one subscription is sold and renewed, and "twice", where one checkout     *)
(* attempt is paid two times at a moment when nothing is renewed yet. The    *)
(* two sales are alike, so s1 is always the first.                           *)
EXTENDS MCSubscription

VARIABLE scene

InScene ==
    /\ scene = "alone" => prov[s2].status = "none"
    /\ scene = "twice" => /\ now = 0
                          /\ \A s \in Subs : bill[s][2].status = "none"
                          /\ prov[s1].status = "none" => prov[s2].status = "none"

SceneNext == Next /\ UNCHANGED scene /\ InScene'

SceneSpec ==
    /\ Init /\ scene \in {"alone", "twice"}
    /\ [][SceneNext]_<<vars, scene>>
    /\ WF_batch(Reconcile)   \* every step of Reconcile changes batch
=============================================================================
