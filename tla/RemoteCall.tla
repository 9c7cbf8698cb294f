----------------------------- MODULE RemoteCall -----------------------------
(***************************************************************************)
(* What one descriptor's channel promises the wrappers that use it: every   *)
(* call hands the descriptor's worker one request, the worker executes that *)
(* request exactly once, and the call returns the outcome of exactly that   *)
(* execution.  Calls of one caller are numbered 1, 2, ...; each variable    *)
(* maps a caller to the number of the last call that has reached a stage.   *)
(***************************************************************************)
EXTENDS Naturals

CONSTANTS
  Callers,   \* application threads that use the descriptor
  MaxCalls   \* bound: calls per caller

VARIABLES
  asked,     \* last call made
  executed,  \* last call whose system call the worker has performed
  answered   \* last call whose outcome the caller holds

vars == <<asked, executed, answered>>

Init ==
  /\ asked = [c \in Callers |-> 0]
  /\ executed = [c \in Callers |-> 0]
  /\ answered = [c \in Callers |-> 0]

(* A caller without a call in flight hands over a request. *)
Ask(c) ==
  /\ asked[c] < MaxCalls
  /\ answered[c] = asked[c]
  /\ asked' = [asked EXCEPT ![c] = @ + 1]
  /\ UNCHANGED <<executed, answered>>

(* The worker performs the system call of the request in flight. *)
Execute(c) ==
  /\ executed[c] < asked[c]
  /\ executed' = [executed EXCEPT ![c] = @ + 1]
  /\ UNCHANGED <<asked, answered>>

(* The caller obtains the outcome of the system call it asked for. *)
Answer(c) ==
  /\ answered[c] < executed[c]
  /\ answered' = [answered EXCEPT ![c] = executed[c]]
  /\ UNCHANGED <<asked, executed>>

Next == \E c \in Callers : Ask(c) \/ Execute(c) \/ Answer(c)

Spec == Init /\ [][Next]_vars
=============================================================================
