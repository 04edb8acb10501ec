-------------------------- MODULE FeatureRegister --------------------------
(***************************************************************************)
(* What the write path of the backend promises its clients: a feature is a *)
(* register that every successful request reads, modifies and writes in    *)
(* one step, that only a request naming its current version may change,    *)
(* and that nothing changes once it is deleted.  FeatureStore implements   *)
(* it with two reads that may be stale and one conditional write.          *)
(***************************************************************************)
CONSTANTS Versions, Levels, None

VARIABLES
    features,   \* the current version of every feature, or None
    used        \* the versions there ever were: none comes back

vars == <<features, used>>

Init ==
    /\ features = [id \in Versions |-> None]
    /\ used = {}

Live(id) == features[id] # None /\ ~features[id].deleted

\* POST: a feature comes into being, with the version that is named as it is.
Create(id, level) ==
    /\ features[id] = None
    /\ features' = [features EXCEPT ![id] =
                       [vis |-> level, body |-> {id}, etag |-> id, deleted |-> FALSE]]
    /\ used' = used \cup {id}

\* PUT: version e, and nothing but its own edit, takes the place of version base.
Replace(id, base, e, level) ==
    /\ Live(id) /\ features[id].etag = base
    /\ e \notin used
    /\ features' = [features EXCEPT ![id] =
                       [vis |-> level, body |-> {e}, etag |-> e, deleted |-> FALSE]]
    /\ used' = used \cup {e}

\* PATCH: version e adds its edit to those of version base.
Update(id, base, e, level) ==
    /\ Live(id) /\ features[id].etag = base
    /\ e \notin used
    /\ features' = [features EXCEPT ![id] =
                       [vis |-> level, body |-> @.body \cup {e}, etag |-> e,
                        deleted |-> FALSE]]
    /\ used' = used \cup {e}

\* DELETE: version base is the last one.
Delete(id, base) ==
    /\ Live(id) /\ features[id].etag = base
    /\ features' = [features EXCEPT ![id].deleted = TRUE]
    /\ UNCHANGED used

Next ==
    \E id \in Versions :
        \/ \E level \in Levels : Create(id, level)
        \/ \E base, e \in Versions, level \in Levels :
               Replace(id, base, e, level) \/ Update(id, base, e, level)
        \/ \E base \in Versions : Delete(id, base)

Spec == Init /\ [][Next]_vars
=============================================================================
