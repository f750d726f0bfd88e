------------------------------ MODULE KeyedSync ------------------------------
(***************************************************************************)
(* How every reconciler of the agent converges one kind of host or BGP     *)
(* state: list what there is, remove the keys that are not desired, then   *)
(* add the desired keys that the list did not have.  A key that is both    *)
(* listed and desired is skipped, whatever its value.  A call that fails   *)
(* is recorded and the loop goes on.                                       *)
(*                                                                         *)
(* actual and desired map keys to values; failed holds the keys whose      *)
(* Remove or Add call returns an error.                                    *)
(***************************************************************************)
EXTENDS FiniteSets

kept(actual, desired, failed) ==
    {k \in DOMAIN actual : k \in DOMAIN desired \/ k \in failed}

added(actual, desired, failed) ==
    {k \in DOMAIN desired : k \notin DOMAIN actual /\ k \notin failed}

sync(actual, desired, failed) ==
    [k \in kept(actual, desired, failed) \cup added(actual, desired, failed) |->
        IF k \in DOMAIN actual THEN actual[k] ELSE desired[k]]

\* The two loops one by one: a reconciler that converges several kinds runs the
\* first loop of each kind before the second one of any.
orphans(actual, desired) == DOMAIN actual \ DOMAIN desired

missing(actual, desired) == DOMAIN desired \ DOMAIN actual

pruned(actual, desired, failed) ==
    [k \in kept(actual, desired, failed) |-> actual[k]]

\* A key whose removal failed is still there, and was listed; so a desired key
\* is missing now if it was missing in the list.
filled(actual, desired, failed) ==
    [k \in DOMAIN actual \cup added(actual, desired, failed) |->
        IF k \in DOMAIN actual THEN actual[k] ELSE desired[k]]

\* The keys a pass calls Remove or Add for.
calls(actual, desired) ==
    (DOMAIN actual \ DOMAIN desired) \cup (DOMAIN desired \ DOMAIN actual)

\* Two collections as one.
both(f, g) ==
    [k \in ({"first"} \X DOMAIN f) \cup ({"second"} \X DOMAIN g) |->
        IF k[1] = "first" THEN f[k[2]] ELSE g[k[2]]]
=============================================================================
