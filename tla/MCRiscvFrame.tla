---------------------------- MODULE MCRiscvFrame ----------------------------
(* Small instances of RiscvFrame: constants at the ends of the parts they are loaded in. *)
EXTENDS RiscvFrame, TLC

MCSp == {12, 20, 38}

MCFrames == {-16, -24, -40, -2032, -2040, -2048, -4104, -70000}
MCTwoFrames == {-40, -2056}

\* Constants of 12, 32 and 64 bits around the places where a part becomes negative.
Pieces == {{}, {0}, 0..7, {7}, {11}, 0..11, {19}, 0..19, {20}, 19..30, {31}, 0..31, 12..31, 11..30}
Highs == {{}, {32}, 32..63, 32..62, {43}, 32..43, {63}, {50, 35}}
AllConsts == {l \cup h : l \in Pieces, h \in Highs}

\* None that tcc loads wrongly.
MCConsts == {c \in AllConsts : ~Misloaded(c)}
MCAddresses == {c \in MCConsts : ~Misplaced(c)}
MCTwoConsts == {{0, 11}, {7, 31, 50}}

\* Many constants in one access, and few in up to two accesses of many frames.
MCKinds == {"consts", "frames"}
Each(consts, frames) == ("consts" :> consts) @@ ("frames" :> frames)
MCIntRegs == Each({10}, {10, 11})
MCFloatRegs == Each({42}, {42})
MCAllFrames == Each(MCTwoFrames, MCFrames)
MCVaRegs == Each({0}, {0, 1, 7, 8})
MCAllConsts == Each(MCConsts, MCTwoConsts)
MCAllAddresses == Each(MCAddresses, MCTwoConsts)
MCAbsolute == Each(TRUE, FALSE)
MCMaxSteps == Each(1, 2)

\* Stores to constant addresses.
MCOneKind == {"consts"}
MCNoFloats == Each(FALSE, FALSE)

\* Instances in which the theorems hold.
ASSUME ConstantsAssumption == RightConstants
=============================================================================
