----------------------------- MODULE LifoStack ------------------------------
(***************************************************************************)
(* What a stack of bounded capacity promises its users: a value pushed is  *)
(* popped once, and the value popped is the one pushed last of those left. *)
(***************************************************************************)
EXTENDS Naturals, Sequences

CONSTANTS StackValues, StackCapacity

VARIABLE stack      \* the values, the top one first

LifoInit == stack = <<>>

LifoPush(v) == Len(stack) < StackCapacity /\ stack' = <<v>> \o stack
LifoPop == stack # <<>> /\ stack' = Tail(stack)

LifoSpec == LifoInit /\ [][(\E v \in StackValues : LifoPush(v)) \/ LifoPop]_stack
=============================================================================
