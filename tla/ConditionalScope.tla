--------------------------- MODULE ConditionalScope ---------------------------
(***************************************************************************)
(* What the conditional stack of a script promises, stated without the     *)
(* stack: operations run exactly while no enclosing branch is a branch not *)
(* taken.  The scope is the nesting depth and the depth of the outermost   *)
(* branch not taken (zero when every enclosing branch is taken).  A branch *)
(* nested in one not taken cannot turn execution on again, whatever its    *)
(* own IF, NOTIF and ELSE would say; only the ELSE or the ENDIF of the     *)
(* outermost branch not taken can.                                         *)
(*                                                                         *)
(* The program keeps a stack of booleans and a count of the false ones     *)
(* instead (see ScriptMachine), and is shown to implement this module.     *)
(***************************************************************************)
EXTENDS Naturals

VARIABLES
    depth,      \* number of open IF or NOTIF operations
    notTaken,   \* depth of the outermost branch not taken, or 0
    executing   \* operations run

scopeVars == <<depth, notTaken, executing>>

Init ==
    /\ depth = 0
    /\ notTaken = 0
    /\ executing = TRUE

\* Operations run again exactly when no branch not taken is open.
Settle == executing' = (notTaken' = 0)

\* An IF or NOTIF that is executed, and whose branch is taken or not.
Enter(taken) ==
    /\ executing
    /\ depth' = depth + 1
    /\ notTaken' = IF taken THEN 0 ELSE depth + 1
    /\ Settle

\* An IF or NOTIF within a branch not taken.
EnterSkipped ==
    /\ ~executing
    /\ depth' = depth + 1
    /\ UNCHANGED <<notTaken, executing>>

\* An ELSE concerns only the innermost open IF or NOTIF.
Toggle ==
    /\ depth > 0
    /\ notTaken' = IF notTaken = 0 THEN depth
                   ELSE IF notTaken = depth THEN 0
                   ELSE notTaken
    /\ UNCHANGED depth
    /\ Settle

\* An ENDIF closes the innermost open IF or NOTIF.
Leave ==
    /\ depth > 0
    /\ depth' = depth - 1
    /\ notTaken' = IF notTaken = depth THEN 0 ELSE notTaken
    /\ Settle

Next ==
    \/ \E taken \in BOOLEAN : Enter(taken)
    \/ EnterSkipped
    \/ Toggle
    \/ Leave

Spec == Init /\ [][Next]_scopeVars

===============================================================================
