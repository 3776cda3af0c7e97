-------------------------- MODULE MCGenPodCommand --------------------------
(***************************************************************************)
(* Two resources suffice, as the loop treats each alike.  The kubeconfig   *)
(* files lead nowhere or to a cluster each.                                *)
(***************************************************************************)
EXTENDS GenPodCommand

CONSTANTS memory, cpu, first, second, context

SmallPrecedence == <<first, second>>

SmallContents ==
    {Nowhere, Broken}
    \cup {[state |-> "read", current |-> context, contexts |-> [c \in {context} |-> c],
           clusters |-> [c \in given |-> name]] :
             given \in {{}, {context}}, name \in {"a", "b"}}

=============================================================================
