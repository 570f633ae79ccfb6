----------------------------- MODULE TimerWheel ------------------------------
(***************************************************************************)
(* core::TimerWheel: a ring of buckets, one of which is due at each tick.  *)
(* A timer further away than one turn counts the turns it has left.  Its   *)
(* callback is represented by the client it belongs to.  Every method      *)
(* holds mutex_, so each is one step; tick() runs the callbacks after it   *)
(* has released mutex_, which is left to the modules that use the wheel.   *)
(***************************************************************************)
EXTENDS Integers, Sequences

CONSTANTS
  NumSlots,  \* slots_.size()
  TickMs     \* tick_ms_

ASSUME WheelAssumption == NumSlots \in Nat \ {0} /\ TickMs \in Nat \ {0}

VARIABLES
  slots,    \* slots_ : a sequence of timers [id, left, owner] per slot
  current,  \* current_slot_
  nextId    \* next_id_

wheel == <<slots, current, nextId>>

WheelInit ==
  /\ slots = [s \in 0 .. (NumSlots - 1) |-> <<>>]
  /\ current = 0
  /\ nextId = 1

\* The ticks after which a timer of delayMs fires: at least one.
Ticks(delayMs) == IF delayMs \div TickMs = 0 THEN 1 ELSE delayMs \div TickMs

\* Mutant: a timer of exactly one turn waits for another one.
AddTimerLate(delayMs, owner) ==
  LET slot == (current + Ticks(delayMs) - 1) % NumSlots
      left == Ticks(delayMs) \div NumSlots
  IN  /\ slots' = [slots EXCEPT ![slot] =
                     Append(@, [id |-> nextId, left |-> left, owner |-> owner])]
      /\ nextId' = nextId + 1
      /\ UNCHANGED current

\* add_timer; the new timer's id is nextId.
AddTimer(delayMs, owner) ==
  LET slot == (current + Ticks(delayMs) - 1) % NumSlots
      left == (Ticks(delayMs) - 1) \div NumSlots
  IN  /\ slots' = [slots EXCEPT ![slot] =
                     Append(@, [id |-> nextId, left |-> left, owner |-> owner])]
      /\ nextId' = nextId + 1
      /\ UNCHANGED current

\* cancel: removes the timer if it has not fired yet.
Cancel(id) ==
  /\ slots' = [s \in DOMAIN slots |-> SelectSeq(slots[s], LAMBDA e : e.id # id)]
  /\ UNCHANGED <<current, nextId>>

\* The timers a tick fires, in the order in which they were added.
Due == SelectSeq(slots[current], LAMBDA e : e.left = 0)

\* What tick() does under mutex_.
Tick ==
  LET later == SelectSeq(slots[current], LAMBDA e : e.left > 0)
  IN  /\ slots' = [slots EXCEPT ![current] =
                     [i \in DOMAIN later |-> [later[i] EXCEPT !.left = @ - 1]]]
      /\ current' = (current + 1) % NumSlots
      /\ UNCHANGED nextId
=============================================================================
