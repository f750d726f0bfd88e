------------------------------- MODULE Converge -------------------------------
(***************************************************************************)
(* What every reconciler of the agent promises: "Reconcile converges ...   *)
(* to the overlay snapshot".  A pass takes the desired state and moves the *)
(* actual one towards it: it removes only keys that are not wanted, adds   *)
(* only wanted ones with their wanted value, and may change a value only   *)
(* to the wanted one.  Calls may fail, and then the pass says so.  A pass  *)
(* that reports no failure ends with exactly the wanted keys.              *)
(*                                                                         *)
(* Nothing is promised of the value of a key that was there before: the    *)
(* reconcilers but WireGuard's skip it.                                    *)
(***************************************************************************)
VARIABLES
    want,    \* the desired state of the current or last pass
    have,    \* the actual state of the host or the BGP server
    busy,    \* a pass is under way
    failed   \* the current or last pass has had a failing call

vars == <<want, have, busy, failed>>

Init == DOMAIN have = {} /\ ~busy

\* The step of a pass moves `have' towards `want', and never away from it.
Moves ==
    /\ DOMAIN have \cap DOMAIN want \subseteq DOMAIN have'
    /\ \A k \in DOMAIN have' :
          \/ k \in DOMAIN have /\ have'[k] = have[k]
          \/ k \in DOMAIN want /\ have'[k] = want[k]

Begin == ~busy /\ busy' /\ have' = have

Step == busy /\ busy' /\ want' = want /\ (failed => failed') /\ Moves

End ==
    /\ busy /\ ~busy' /\ want' = want /\ (failed => failed') /\ Moves
    /\ ~failed' => DOMAIN have' = DOMAIN want

\* A new process keeps the host and forgets what was wanted.
Crash == ~busy' /\ have' = have /\ DOMAIN want' = {}

Spec == Init /\ [][Begin \/ Step \/ End \/ Crash]_vars
=============================================================================
