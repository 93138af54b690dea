---------------------------- MODULE MCElfSymbols ----------------------------
(* Links of two or three files over three names.  All names share the bucket   *)
(* of a table of one bucket, f and h that of a table of two.  Or the references*)
(* of a program to one symbol or two (GotPlt), which come behind that; the two *)
(* share no variable, so a behaviour is of one of them.                        *)
EXTENDS ElfSymbols, GotPlt

MCNames == {"f", "g", "h"}
MCHashOf == [n \in MCNames |-> IF n = "g" THEN 1 ELSE 2]

E(n, bind, sec) == [name |-> n, bind |-> bind, vis |-> "default", sec |-> sec]

(* Object files: every way to define or use f, alone and with a use of g.      *)
Alone == {<<E("f", b, s)>> : b \in {"global", "weak"}, s \in {"undef", "common", "bss", "data"}}
MCObjects ==
    Alone \union
    { << [E("f", "global", "data") EXCEPT !.vis = "hidden"], E("g", "weak", "undef") >>,
      << E("h", "local", "data"), E("g", "global", "data"), E("f", "global", "undef") >>,
      << E("f", "weak", "once"), E("g", "global", "undef") >> }

(* Archives: a chain f -> g -> h in an order that one pass does not serve, two *)
(* members that define one name, and two archives that need each other.        *)
Chain == << <<E("h", "global", "data")>>,
            <<E("g", "global", "data"), E("h", "global", "undef")>>,
            <<E("f", "global", "data"), E("g", "global", "undef")>> >>
Rivals == << <<E("f", "global", "bss"), E("h", "weak", "undef")>>,
             <<E("f", "global", "data"), E("h", "global", "common")>> >>
Forth == << <<E("f", "global", "data"), E("g", "global", "undef")>>,
            <<E("h", "global", "data")>> >>
Back == << <<E("g", "weak", "data"), E("h", "global", "undef")>> >>
MCArchives == {Chain, Rivals}
MCGroups == {<<Forth, Back>>, <<Back, Forth>>}

(* Every symbol that is defined here, absolute, or undefined, with a type that *)
(* agrees with what the libraries have; and pairs of one of each kind.         *)
Sy(place, bind, type, lib) == [place |-> place, bind |-> bind, type |-> type, lib |-> lib]
Defined == {Sy("here", b, t, "none") : b \in {"global", "weak", "local"}, t \in {"func", "object"}}
Absolute == {Sy("abs", "global", "notype", "none")}
Wanting ==
    {y \in {Sy("undef", b, t, l) : b \in {"global", "weak"}, t \in {"func", "object", "notype"},
                                  l \in {"none", "func", "object", "notype"}} :
        y.lib \in {"func", "object"} => y.type \in {y.lib, "notype"}}
OfEachKind == <<Sy("here", "local", "func", "none"), Sy("here", "global", "object", "none"),
               Sy("abs", "global", "notype", "none"), Sy("undef", "global", "func", "func"),
               Sy("undef", "weak", "func", "none"), Sy("undef", "global", "object", "object"),
               Sy("undef", "global", "notype", "notype")>>
MCTables ==
    {<<y>> : y \in Defined \union Absolute \union Wanting} \union
    {<<OfEachKind[k[1]], OfEachKind[k[2]]>> : k \in {p \in (1..7) \X (1..7) : p[1] <= p[2]}}
MCOutputs == {"memory", "static", "exe", "pie", "dll"}

VARIABLE part       \* "files" or "references"

ReferencesIdle ==
    /\ output = "none" /\ symbols = << >> /\ refs = << >> /\ got = << >> /\ plt = << >>
    /\ attr = << >> /\ dyn = << >> /\ pass = 0 /\ at = 0 /\ stage = "none"
    /\ words = << >> /\ slots = << >>

LinkInit ==
    /\ Init
    /\ \/ part = "files" /\ ReferencesIdle
       \/ part = "references" /\ GotInit

FilesStep == part = "files" /\ Next /\ UNCHANGED <<part, gotVars>>
ReferencesStep == part = "references" /\ GotNext /\ UNCHANGED <<part, vars>>

LinkNext == FilesStep \/ ReferencesStep
LinkSpec == LinkInit /\ [][LinkNext]_<<part, vars, gotVars>>
==============================================================================
