----------------------------- MODULE MCNvsHandle -----------------------------
(***************************************************************************)
(* NvsHandle on small instances, and as an implementation of KeyValue.     *)
(***************************************************************************)
EXTENDS NvsHandle

\* Strings of two sizes and a number.
MCValues == {<<"num", 1>>, <<"str", 1>>, <<"str", 2>>}
MCOne == {<<"str", 1>>}
MCNumbers == {<<"num", 1>>, <<"num", 2>>}

Store == INSTANCE KeyValue WITH map <- [k \in Keys |-> View(k)]

\* The cache, the store behind it, the timer and the callers together behave
\* as one map that only writes and erasures change, and of which commit() makes
\* durable what it holds.
ImplementsKeyValue == Store!Spec
=============================================================================
