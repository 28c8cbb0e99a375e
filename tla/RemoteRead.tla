------------------------------ MODULE RemoteRead ------------------------------
(****************************************************************************)
(* What a download promises: a call returns what the remote source held at  *)
(* some moment between the call and its return, or it returns no data.      *)
(*                                                                          *)
(* The contents of a source are numbered in the order they are published; 0 *)
(* stands for no contents.                                                  *)
(****************************************************************************)
EXTENDS Naturals

CONSTANTS Callers, Sources

VARIABLES remote,   \* remote[s]: what source s holds
          call,     \* call[c]: the call in progress and what it has sampled
          result    \* result[c]: what the last call of c returned

vars == <<remote, call, result>>

NoCall == [state |-> "none", source |-> CHOOSE s \in Sources : TRUE, value |-> 0]

Init ==
    /\ remote = [s \in Sources |-> 0]
    /\ call = [c \in Callers |-> NoCall]
    /\ result = [c \in Callers |-> 0]

Publish(s) ==
    /\ remote' = [remote EXCEPT ![s] = @ + 1]
    /\ UNCHANGED <<call, result>>

Begin(c, s) ==
    /\ call[c].state = "none"
    /\ call' = [call EXCEPT ![c] = [state |-> "reading", source |-> s, value |-> 0]]
    /\ UNCHANGED <<remote, result>>

Sample(c) ==
    /\ call[c].state = "reading"
    /\ call' = [call EXCEPT ![c].value = remote[call[c].source]]
    /\ UNCHANGED <<remote, result>>

Return(c) ==
    /\ call[c].state = "reading"
    /\ call' = [call EXCEPT ![c] = NoCall]
    /\ \E r \in {0, call[c].value} : result' = [result EXCEPT ![c] = r]
    /\ UNCHANGED remote

\* The process of the callers stops: their calls have no result.
Abort == call' = [c \in Callers |-> NoCall] /\ UNCHANGED <<remote, result>>

Next ==
    \/ \E s \in Sources : Publish(s)
    \/ \E c \in Callers : \/ \E s \in Sources : Begin(c, s)
                          \/ Sample(c) \/ Return(c)
    \/ Abort

Spec == Init /\ [][Next]_vars
=============================================================================
