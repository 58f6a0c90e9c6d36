------------------------------ MODULE RpcCalls ------------------------------
(***************************************************************************)
(* What Client::send_pdu of wezterm-client/src/client.rs promises the code *)
(* that calls it: the server runs a request at most once, and a caller     *)
(* gets the result of its own request, after the server ran it, or an      *)
(* error.  Nothing is said here of serials, streams and connections: Rpc   *)
(* has those, and implements this.                                         *)
(***************************************************************************)
EXTENDS Naturals

CONSTANTS
  Call,     \* calls of send_pdu, each made at most once
  NoResult  \* no call's result

VARIABLES
  call,     \* where each call is
  answer,   \* whose result each call returned
  executed  \* how many times the server ran each request

callVars == <<call, answer, executed>>

States == {"unmade", "waiting", "answered", "failed", "abandoned"}

Unmade ==
  /\ call = [c \in Call |-> "unmade"]
  /\ answer = [c \in Call |-> NoResult]
  /\ executed = [c \in Call |-> 0]

Start(c) ==
  /\ call[c] = "unmade"
  /\ call' = [call EXCEPT ![c] = "waiting"]
  /\ UNCHANGED <<answer, executed>>

Refuse(c) ==
  /\ call[c] = "unmade"
  /\ call' = [call EXCEPT ![c] = "failed"]
  /\ UNCHANGED <<answer, executed>>

\* The server may run a request whose caller no longer waits.
Run(c) ==
  /\ call[c] # "unmade"
  /\ executed[c] = 0
  /\ executed' = [executed EXCEPT ![c] = 1]
  /\ UNCHANGED <<call, answer>>

Answer(c) ==
  /\ call[c] = "waiting"
  /\ executed[c] = 1
  /\ call' = [call EXCEPT ![c] = "answered"]
  /\ answer' = [answer EXCEPT ![c] = c]
  /\ UNCHANGED executed

Fail(C) ==
  /\ \A c \in C : call[c] = "waiting"
  /\ call' = [c \in Call |-> IF c \in C THEN "failed" ELSE call[c]]
  /\ UNCHANGED <<answer, executed>>

GiveUp(c) ==
  /\ call[c] = "waiting"
  /\ call' = [call EXCEPT ![c] = "abandoned"]
  /\ UNCHANGED <<answer, executed>>

CallStep ==
  \/ \E c \in Call : Start(c) \/ Refuse(c) \/ Run(c) \/ Answer(c) \/ GiveUp(c)
  \/ \E C \in SUBSET Call : Fail(C)

CallSpec == Unmade /\ [][CallStep]_callVars
=============================================================================
