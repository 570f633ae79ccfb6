----------------------------- MODULE BoundedFifo -----------------------------
(***************************************************************************)
(* What a bounded queue promises: elements leave in the order in which     *)
(* they entered, each once, and at most Capacity are inside.               *)
(***************************************************************************)
EXTENDS Integers, Sequences

CONSTANTS
  Values,    \* what is queued
  Poppers,   \* threads that take elements
  None,      \* no element
  Capacity   \* elements the queue can hold

VARIABLES
  items,  \* the queue, oldest first
  taken   \* the element each popper has taken and not yet returned, or None

vars == <<items, taken>>

Init ==
  /\ items = <<>>
  /\ taken = [c \in Poppers |-> None]

Push(v) ==
  /\ Len(items) < Capacity
  /\ items' = Append(items, v)
  /\ UNCHANGED taken

Pop(c) ==
  /\ items # <<>>
  /\ taken[c] = None
  /\ taken' = [taken EXCEPT ![c] = Head(items)]
  /\ items' = Tail(items)

Return(c) ==
  /\ taken[c] # None
  /\ taken' = [taken EXCEPT ![c] = None]
  /\ UNCHANGED items

Next ==
  \/ \E v \in Values : Push(v)
  \/ \E c \in Poppers : Pop(c) \/ Return(c)

Spec == Init /\ [][Next]_vars
=============================================================================
