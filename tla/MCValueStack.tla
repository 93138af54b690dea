---------------------------- MODULE MCValueStack ----------------------------
(* The value stack under three kinds of program, so that each is explored deeply. *)
EXTENDS ValueStack

VARIABLE profile

Kinds == {vstack[i].k : i \in DOMAIN vstack}

\* One-word values with everything but sizeof; long doubles behind pointers, in calls and in
\* assignments; sizeof around calls and comparisons.
Fits ==
    \/ /\ profile = "scalars" /\ base = None
       /\ \A i \in DOMAIN vstack : ~vstack[i].two
    \/ /\ profile = "wide" /\ base = None
       /\ Kinds \cap {"const", "cmp"} = {}
    \/ /\ profile = "sizeof"
       /\ Kinds \cap {"at", "llocal"} = {}
       /\ \A i \in DOMAIN vstack : ~vstack[i].two

MCInit == Init /\ profile \in {"scalars", "wide", "sizeof"}
MCNext == Next /\ UNCHANGED profile /\ Fits'
MCSpec == MCInit /\ [][MCNext]_<<vars, profile>>
=============================================================================
