------------------------------ MODULE KeyValue -------------------------------
(***************************************************************************)
(* What NvsHandle promises: a map from keys to values that changes only    *)
(* when a caller writes or erases, and of which a restart keeps, for each  *)
(* key, a value that it had when the last commit returned or was given     *)
(* since.                                                                  *)
(***************************************************************************)
CONSTANTS Keys, Values, Absent

VARIABLES map,      \* what callers are told
          since     \* per key: the values a restart may find

Init ==
    /\ map = [k \in Keys |-> Absent]
    /\ since = [k \in Keys |-> {map[k]}]

Becomes(k, v) ==
    /\ map' = [map EXCEPT ![k] = v]
    /\ since' = [since EXCEPT ![k] = @ \cup {v}]

Put(k, v) == v \in Values /\ Becomes(k, v)

\* Erasing takes two steps: the first may bring back an older value, and the
\* second may come after somebody else's write of the key, which then counts,
\* unless a restart comes first.
Erase(k) ==
    \E v \in since[k] \cup {Absent} :
        /\ map' = [map EXCEPT ![k] = v]
        /\ \E gone \in {{}, {Absent}} : since' = [since EXCEPT ![k] = @ \cup {v} \cup gone]

Saved == since' = [k \in Keys |-> {map[k]}] /\ UNCHANGED map

Restart ==
    /\ map' \in [Keys -> Values \cup {Absent}]
    /\ \A k \in Keys : map'[k] \in since[k]
    /\ since' = [k \in Keys |-> {map'[k]}]

Next ==
    \/ \E k \in Keys : Erase(k) \/ \E v \in Values : Put(k, v)
    \/ Saved
    \/ Restart

Spec == Init /\ [][Next]_<<map, since>>
=============================================================================
