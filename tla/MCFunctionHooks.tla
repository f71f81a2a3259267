--------------------------- MODULE MCFunctionHooks ---------------------------
(***************************************************************************)
(* A state is 0 or 1; an action flips it or leaves it as it is.  With     *)
(* the props "reset" the component sets it back to 0 whenever it renders  *)
(* with another.                                                          *)
(***************************************************************************)
EXTENDS FunctionHooks

MCStates  == {0, 1}
Reset     == [s \in MCStates |-> 0]
Flip      == [s \in MCStates |-> 1 - s]
Same      == [s \in MCStates |-> s]

MCActions == {Flip, Same}

MCProps == {"plain", "reset"}
MCRenderPhaseUpdate(props, state) ==
    IF props = "reset" /\ state # 0 THEN <<Reset>> ELSE <<>>

MCTimes == 1..3
===============================================================================
