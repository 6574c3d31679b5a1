---------------------------- MODULE MCAgentRouter ----------------------------
(***************************************************************************)
(* Instances of AgentRouter for TLC: one call between two agents, while    *)
(* the registry, the certificates and the policy change under it.  With    *)
(* records of two and a limit of three a payload or response can end       *)
(* before, at, just beyond (in the same record) and well beyond the limit. *)
(***************************************************************************)
EXTENDS AgentRouter, TLC

CONSTANTS a, b, r1

MCFrom == (r1 :> a)
MCTo == (r1 :> b)

\* A policy with the route, by a wildcard, and one without.
MCPolicies ==
    {{[from |-> "*", to |-> b]}, {[from |-> b, to |-> "*"]}}

=============================================================================
