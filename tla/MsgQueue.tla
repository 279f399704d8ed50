------------------------------ MODULE MsgQueue ------------------------------
(***************************************************************************)
(* What utility_msg.c promises the threads that use its queues: a queue is *)
(* opened once with QueueSize places, a message is sent to it or received  *)
(* from it in one step while it is open, it never holds more than it has   *)
(* places for, and closing it drops what it holds.  A send that finds no   *)
(* memory may take one of the places with it.                              *)
(***************************************************************************)
EXTENDS Integers

CONSTANTS
    QueueSize,      \* the places of a queue
    MaxOpens        \* bound: queues opened

VARIABLES
    opened,         \* how many queues were opened
    open,           \* those of them that are open
    held,           \* the messages each open queue holds
    gone            \* the places each open queue has lost

qvars == <<opened, open, held, gone>>

Init ==
    /\ opened = 0 /\ open = {}
    /\ held = [q \in 1..MaxOpens |-> 0]
    /\ gone = [q \in 1..MaxOpens |-> 0]

HasRoom(q) == held[q] + gone[q] < QueueSize

Open ==
    /\ opened < MaxOpens
    /\ opened' = opened + 1 /\ open' = open \cup {opened + 1}
    /\ UNCHANGED <<held, gone>>

Send(q) ==
    /\ HasRoom(q)
    /\ held' = [held EXCEPT ![q] = @ + 1]
    /\ UNCHANGED <<opened, open, gone>>

LosePlace(q) ==
    /\ HasRoom(q)
    /\ gone' = [gone EXCEPT ![q] = @ + 1]
    /\ UNCHANGED <<opened, open, held>>

Receive(q) ==
    /\ held[q] > 0
    /\ held' = [held EXCEPT ![q] = @ - 1]
    /\ UNCHANGED <<opened, open, gone>>

Close(q) ==
    /\ open' = open \ {q}
    /\ held' = [held EXCEPT ![q] = 0]
    /\ gone' = [gone EXCEPT ![q] = 0]
    /\ UNCHANGED opened

Next == Open \/ \E q \in open : Send(q) \/ LosePlace(q) \/ Receive(q) \/ Close(q)

Spec == Init /\ [][Next]_qvars
=============================================================================
