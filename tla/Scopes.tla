------------------------------- MODULE Scopes -------------------------------
(***************************************************************************)
(* What the symbol tables of a C compiler promise: a declaration is visible*)
(* from where it stands to the end of its scope, an inner one hides it, and *)
(* the end of a scope brings back what the scope hid.  A declaration of an  *)
(* external name also enters the file scope, where it stays.                *)
(***************************************************************************)
EXTENDS Integers, Sequences

CONSTANTS Names, Syms, Nil

VARIABLES scopes,    \* the open scopes, the file scope first; each maps a name
                     \* to its declaration in that scope, or to Nil
          visible    \* what a name stands for now

vars == <<scopes, visible>>

Empty == [v \in Names |-> Nil]

\* The declaration of v in the innermost of the scopes ss that has one.
Lookup(ss, v) ==
    LET here == {i \in DOMAIN ss : ss[i][v] # Nil}
    IN  IF here = {} THEN Nil
        ELSE ss[CHOOSE i \in here : \A j \in here : j <= i][v]

\* ss with v declared as s in its i-th scope.
Bind(ss, i, v, s) == [ss EXCEPT ![i][v] = s]

Publish == visible' = [v \in Names |-> Lookup(scopes', v)]

Open == scopes' = Append(scopes, Empty) /\ Publish

Close == Len(scopes) > 1 /\ scopes' = SubSeq(scopes, 1, Len(scopes) - 1) /\ Publish

Declare == \E v \in Names, s \in Syms : scopes' = Bind(scopes, Len(scopes), v, s) /\ Publish

\* An external name: its global symbol, made on first use, and the local one that
\* stands for it up to the end of the block.
DeclareExternal ==
    \E v \in Names, g \in Syms, s \in Syms \cup {Nil} :
        LET global == IF scopes[1][v] = Nil THEN Bind(scopes, 1, v, g) ELSE scopes
        IN  /\ scopes' = IF s = Nil THEN global ELSE Bind(global, Len(scopes), v, s)
            /\ Publish

\* A scope that opens with declarations in it: the parameters of a function.
OpenWith == \E scope \in [Names -> Syms \cup {Nil}] :
                scopes' = Append(scopes, scope) /\ Publish

\* The end of the translation unit, or the error that ends it anywhere.
End == scopes' = <<Empty>> /\ Publish

Init == scopes = <<Empty>> /\ visible = Empty

Next == Open \/ Close \/ Declare \/ DeclareExternal \/ OpenWith \/ End

Spec == Init /\ [][Next]_vars
=============================================================================
