------------------------------ MODULE DmaTasks ------------------------------
(***************************************************************************)
(* What the Extended Legacy I/O protocol promises about DMA channels, with *)
(* no ports, flip-flops or half-written registers: programming a channel   *)
(* replaces its task in one step, a channel moves units only from a start  *)
(* to the end of its task, and every unit is counted once.  Started again  *)
(* without a new task, a channel goes on for a page of units.              *)
(***************************************************************************)
EXTENDS Integers

CONSTANTS
  Channels,  \* the channels
  Page       \* the size of a page: address and counter wrap at it

Task == [Address : Nat, Count : 0 .. Page - 1, Auto : BOOLEAN]

VARIABLES
  task,  \* the task each channel was last given
  on,    \* the channels that may move units
  left,  \* the units a channel still has to move
  at     \* the address of its next unit

vars == <<task, on, left, at>>

Init ==
  /\ task = [c \in Channels |-> [Address |-> 0, Count |-> 0, Auto |-> FALSE]]
  /\ on = [c \in Channels |-> FALSE]
  /\ left = [c \in Channels |-> 0]
  /\ at = [c \in Channels |-> 0]

(* Programming begins: the channel stops and what it had left is void.     *)
Void(c) ==
  /\ on' = [on EXCEPT ![c] = FALSE]
  /\ left' = [left EXCEPT ![c] = 0]
  /\ at' = [at EXCEPT ![c] = 0]
  /\ UNCHANGED task

(* Programming succeeds: the channel has a new task, from its first unit. *)
Commit(c) ==
  LET k == task'[c] IN
  /\ ~on[c] /\ left[c] = 0
  /\ k \in Task /\ k.Count # 0
  /\ task' = [task EXCEPT ![c] = k]
  /\ left' = [left EXCEPT ![c] = k.Count]
  /\ at' = [at EXCEPT ![c] = k.Address]
  /\ UNCHANGED on

(* LegacyDmaStart wants a task, not one with units left: after the end of  *)
(* the task, left is 0 and the next unit makes it Page - 1.                *)
Enable(c) ==
  /\ task[c].Count # 0
  /\ on' = [on EXCEPT ![c] = TRUE]
  /\ UNCHANGED <<task, left, at>>

Disable(c) ==
  /\ on' = [on EXCEPT ![c] = FALSE]
  /\ UNCHANGED <<task, left, at>>

NextAddress(a) == Page * (a \div Page) + ((a + 1) % Page)

(* One unit moves.  The last one ends the task or begins it again.         *)
Unit(c) ==
  /\ on[c]
  /\ IF left[c] = 1 /\ task[c].Auto
     THEN /\ left' = [left EXCEPT ![c] = task[c].Count]
          /\ at' = [at EXCEPT ![c] = task[c].Address]
     ELSE /\ left' = [left EXCEPT ![c] = (@ - 1) % Page]
          /\ at' = [at EXCEPT ![c] = NextAddress(@)]
  /\ on' = [on EXCEPT ![c] = left[c] # 1 \/ task[c].Auto]
  /\ UNCHANGED task

Next == \E c \in Channels : Void(c) \/ Commit(c) \/ Enable(c) \/ Disable(c) \/ Unit(c)

Spec == Init /\ [][Next]_vars
=============================================================================
