----------------------------- MODULE MCWasmPage -----------------------------
(* Two clicks over texts of every fate; the buffers hold two units.         *)
EXTENDS WasmPage, TLC

MCTexts == {"nothing", "small", "full", "long", "large", "wrong", "fatal", "header"}
MCSize == [t \in MCTexts |-> CASE t = "nothing" -> 0 [] t = "long" -> 2 [] OTHER -> 1]
MCFate == [t \in MCTexts |->
    CASE t = "wrong" -> "errors" [] t = "fatal" -> "exit" [] OTHER -> "object"]
MCWrites == [t \in MCTexts |->
    CASE t = "full" -> 2 [] t = "large" -> 3 [] OTHER -> 1]
=============================================================================
