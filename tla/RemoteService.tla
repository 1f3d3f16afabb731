--------------------------- MODULE RemoteService ---------------------------
(***************************************************************************)
(* What card remoting promises a caller: every command gets a number that  *)
(* was never used before, and a call ends either without an answer or with *)
(* the proxy's answer to the command that this very call numbered.         *)
(***************************************************************************)
EXTENDS Naturals

CONSTANT Threads

VARIABLES
  issued,    \* the highest command number given out so far
  current,   \* the number of each thread's latest command, 0 before the first
  answer     \* whose answer its latest call returned, 0 for no answer

vars == <<issued, current, answer>>

Init ==
  /\ issued \in Nat
  /\ current = [t \in Threads |-> 0]
  /\ answer = [t \in Threads |-> 0]

\* Numbers may be skipped, never reused.
Skip == issued' > issued /\ UNCHANGED <<current, answer>>

Issue(t) ==
  /\ \A u \in Threads : current[u] < issued
  /\ current' = [current EXCEPT ![t] = issued]
  /\ UNCHANGED <<issued, answer>>

Deliver(t) ==
  /\ current[t] # 0
  /\ answer' = [answer EXCEPT ![t] = current[t]]
  /\ UNCHANGED <<issued, current>>

GiveUp(t) ==
  /\ answer' = [answer EXCEPT ![t] = 0]
  /\ UNCHANGED <<issued, current>>

Next == Skip \/ \E t \in Threads : Issue(t) \/ Deliver(t) \/ GiveUp(t)

Spec == Init /\ [][Next]_vars
=============================================================================
