---------------------------- MODULE CoreRegistry ----------------------------
(***************************************************************************)
(* What the client factory of featureflip.go promises, with no retries,    *)
(* locks or half-finished shutdowns: per SDK key there is at most one      *)
(* current core; Get shares it or creates it; the last release retires it  *)
(* for good.  holders counts the references to a core.                     *)
(***************************************************************************)
EXTENDS Integers

CONSTANTS Keys, Cores, None

VARIABLES current, holders, spent, disowned

vars == <<current, holders, spent, disowned>>

Init ==
    /\ current = [k \in Keys |-> None]
    /\ holders = [c \in Cores |-> 0]
    /\ spent = {}
    /\ disowned = {}

Current == {current[k] : k \in Keys} \ {None}

\* A Get that looked the core up before it was disowned may still share it.
Share(c) ==
    /\ c \in Current \union disowned
    /\ holders[c] > 0
    /\ holders' = [holders EXCEPT ![c] = @ + 1]
    /\ UNCHANGED <<current, spent, disowned>>

\* A core is created once and never revived.
Create(k) ==
    /\ current[k] = None
    /\ \E c \in Cores \ spent :
         /\ current' = [current EXCEPT ![k] = c]
         /\ holders' = [holders EXCEPT ![c] = 1]
         /\ spent' = spent \union {c}
    /\ UNCHANGED disowned

\* The last release of the current core leaves its key without one.
Release(c) ==
    /\ holders[c] > 0
    /\ holders' = [holders EXCEPT ![c] = @ - 1]
    /\ current' = [k \in Keys |-> IF current[k] = c /\ holders[c] = 1
                                  THEN None ELSE current[k]]
    /\ disowned' = IF holders[c] = 1 THEN disowned \ {c} ELSE disowned
    /\ UNCHANGED spent

\* ResetForTesting disowns every current core; its holders go on.
Disown ==
    /\ current' = [k \in Keys |-> None]
    /\ disowned' = disowned \union Current
    /\ UNCHANGED <<holders, spent>>

Next ==
    \/ \E k \in Keys : Create(k)
    \/ \E c \in Cores : Share(c) \/ Release(c)
    \/ Disown

Spec == Init /\ [][Next]_vars

=============================================================================
