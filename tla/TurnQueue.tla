------------------------------ MODULE TurnQueue ------------------------------
(***************************************************************************)
(* What the turns of the device promise their callers, stated without      *)
(* counters, tickets or condition variables: one caller has the device at  *)
(* a time, urgent callers go first in no particular order, and the others  *)
(* go in the order in which they came.                                     *)
(*                                                                         *)
(* Turns keeps three counters and a flag instead, and is shown to          *)
(* implement this module.                                                  *)
(***************************************************************************)
EXTENDS Naturals, Sequences

CONSTANTS
    Callers,
    UrgentCallers,
    Nobody

VARIABLES
    holder,     \* the caller that has the device, or Nobody
    crowd,      \* urgent callers that wait
    line        \* queued callers that wait, in the order they came

queueVars == <<holder, crowd, line>>

Init ==
    /\ holder = Nobody
    /\ crowd = {}
    /\ line = <<>>

\* A caller that finds the device free has it at once.
EnterUrgent(c) ==
    /\ c \in UrgentCallers \ crowd
    /\ c # holder
    /\ IF holder = Nobody THEN holder' = c /\ UNCHANGED crowd
       ELSE crowd' = crowd \union {c} /\ UNCHANGED holder
    /\ UNCHANGED line

EnterQueued(c) ==
    /\ c \in Callers \ UrgentCallers
    /\ c # holder
    /\ \A i \in 1..Len(line) : line[i] # c
    /\ IF holder = Nobody /\ crowd = {} /\ line = <<>>
       THEN holder' = c /\ UNCHANGED line
       ELSE line' = Append(line, c) /\ UNCHANGED holder
    /\ UNCHANGED crowd

ServeUrgent(c) ==
    /\ holder = Nobody
    /\ c \in crowd
    /\ holder' = c
    /\ crowd' = crowd \ {c}
    /\ UNCHANGED line

ServeQueued ==
    /\ holder = Nobody
    /\ crowd = {}
    /\ line # <<>>
    /\ holder' = Head(line)
    /\ line' = Tail(line)
    /\ UNCHANGED crowd

Free ==
    /\ holder # Nobody
    /\ holder' = Nobody
    /\ UNCHANGED <<crowd, line>>

Next ==
    \/ \E c \in Callers : EnterUrgent(c) \/ EnterQueued(c) \/ ServeUrgent(c)
    \/ ServeQueued
    \/ Free

Spec == Init /\ [][Next]_queueVars

===============================================================================
