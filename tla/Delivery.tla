------------------------------- MODULE Delivery -------------------------------
(***************************************************************************)
(* A policy from the custom resource to the sidecar's rule engine: the     *)
(* watcher writes the active ConfigMap, the kubelet brings the mounted     *)
(* file up to date, the hot loader reads it.  Without the bridge the file  *)
(* is changed by hand.                                                     *)
(***************************************************************************)
EXTENDS HotLoader, CRDWatcher

CONSTANT Mounted    \* what the mounted file may hold before the first sync

ASSUME DeliveryAssumption ==
    /\ Mounted \subseteq Content \union {Missing}
    /\ Content = DOMAIN SpecOf
    /\ \A e \in HandEdits : e[1] = Active => e[2] \in Content \union {Gone}
    /\ Valid = {c \in Content : LoadProxySpec(SpecOf[c])}

VARIABLE parts      \* what is deployed: the watcher, the sidecar or both

deliveryVars == <<vars, watcherVars, parts>>

DeliveryInit ==
    /\ Init /\ WatcherInit
    /\ parts \in SUBSET {"watcher", "sidecar"} \ {{}}
    /\ bridged <=> Cardinality(parts) = 2
    /\ parts = {"sidecar"} => budget = CHOOSE b \in Budget[FALSE] : TRUE
    /\ "watcher" \in parts => file \in (IF bridged THEN Mounted ELSE {Missing})

(* The kubelet refreshes the volume.  A ConfigMap that is gone leaves the  *)
(* file as it was.                                                         *)
Kubelet ==
    /\ bridged
    /\ cms[Active].holds # Gone
    /\ Edit(cms[Active].holds)
    /\ UNCHANGED <<watcherVars, parts>>

(* The sidecar's file is not the watcher's.                                *)
ByHand ==
    /\ parts = {"sidecar"}
    /\ \E v \in Content \union {Missing} : Edit(v)
    /\ UNCHANGED <<watcherVars, parts>>

Watching == "watcher" \in parts /\ WatcherStep /\ UNCHANGED <<vars, parts>>

Cluster ==
    /\ "watcher" \in parts
    /\ \/ \E r \in Named : \E v \in Versions[r] : Change(r, v)
       \/ HandEdit
       \/ Restart
    /\ UNCHANGED <<vars, parts>>

Loading == "sidecar" \in parts /\ Loader /\ UNCHANGED <<watcherVars, parts>>

DeliveryNext == Kubelet \/ ByHand \/ Watching \/ Cluster \/ Loading

(* Both tickers keep firing, and the kubelet keeps refreshing volumes.     *)
DeliverySpec ==
    /\ DeliveryInit /\ [][DeliveryNext]_deliveryVars
    /\ WF_deliveryVars(Loading) /\ WF_deliveryVars(Watching) /\ WF_deliveryVars(Kubelet)

-----------------------------------------------------------------------------
(* A policy that stays picked, and that the sidecar accepts, comes into    *)
(* force after any finite number of failed calls, changes and restarts,    *)
(* unless the active ConfigMap was changed behind lastActiveSig, the       *)
(* loader's two reads saw different files, or Watch never started          *)
(* (watcher.go:132-237 of the controller, 77-106 of the hot loader).       *)
ActivePolicyEnforced ==
    \A v \in Valid : <>[](bridged /\ Picked = v /\ ~astray /\ ~torn) => <>[](engine = v \/ pc = "static")
=============================================================================
