------------------------------- MODULE AgentBGP -------------------------------
(***************************************************************************)
(* The BGP loop of an agent process in either mode.  cmd/agent/main.go     *)
(* starts the BGP server and then, by --mode, the gateway or the internal- *)
(* node manager, whose loop feeds snapshots to the reconciler of that      *)
(* mode.  Both reconcilers work on the same BGP server, through the same   *)
(* interface, and make the same promise, Converge.                         *)
(*                                                                         *)
(* The definitions of InternalBGP have their own names here, those of      *)
(* GatewayBGP are Gateway's; both speak of the same variables.             *)
(***************************************************************************)
EXTENDS InternalBGP

CONSTANTS
    PeersOf, NodeIPs, IsSecondary   \* GatewayBGP's

ASSUME GatewayAssumption ==
    /\ DOMAIN PeersOf = Overlays /\ IsSecondary \in BOOLEAN
    /\ \A o \in Overlays : PeersOf[o] \cap NodeIPs = {}

VARIABLE
    mode   \* the flag --mode

Gateway == INSTANCE GatewayBGP

agentVars == <<mode, vars>>

AgentInit ==
    \/ mode = "gateway" /\ Gateway!Init /\ advertised = [v \in {} |-> 0]
    \/ mode = "internal" /\ Init

AgentNext ==
    \/ mode = "gateway" /\ Gateway!Next /\ UNCHANGED <<mode, advertised>>
    \/ mode = "internal" /\ Next /\ UNCHANGED mode

AgentSpec == AgentInit /\ [][AgentNext]_agentVars

-----------------------------------------------------------------------------
(* The reconcilers' properties, each in its mode.                          *)

\* All state is well typed in both modes; in particular the reconcilers only
\* configure policies and prefixes of overlays that have a community.
AgentTypeOK ==
    /\ mode = "gateway" => Gateway!TypeOK /\ DOMAIN advertised = {}
    /\ mode = "internal" => TypeOK

\* After a Reconcile without errors, whatever failed before and however the
\* snapshots were debounced and ordered, the server has exactly the neighbors,
\* policies and prefixes of the cluster, by key.
AgentServerMatches ==
    /\ mode = "gateway" => Gateway!SettledServerMatches
    /\ mode = "internal" => SettledServerMatches

-----------------------------------------------------------------------------
(* The refinement.                                                         *)

Server == INSTANCE Converge WITH
    want <- IF mode = "gateway" THEN Gateway!serverWanted ELSE serverWanted,
    have <- IF mode = "gateway" THEN Gateway!serverActual ELSE serverActual,
    busy <- pc # "idle", failed <- errs

\* Both reconcilers implement Converge: no step of any pass removes what the
\* snapshot wants or adds what it does not, and a pass that reports no error
\* ends with exactly the wanted keys, whatever earlier passes left undone.
ServerConverges == Server!Spec
=============================================================================
