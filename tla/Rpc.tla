-------------------------------- MODULE Rpc --------------------------------
(***************************************************************************)
(* Calls from a client to a mux server: the client thread of               *)
(* wezterm-client/src/client.rs, the stream, and the server's sessions     *)
(* (wezterm-mux-server-impl/src/dispatch.rs and sessionhandler.rs).        *)
(*                                                                         *)
(* A caller posts its request in a channel.  The client thread gives it    *)
(* the next serial, remembers the serial's promise, and writes it.  The    *)
(* session at the other end answers each request it reads under the        *)
(* request's serial, most of them from tasks that end in any order, and    *)
(* writes unasked-for messages under serial 0.  When the stream fails the  *)
(* thread fails every promise and, for some kinds of domain, connects      *)
(* again, with serials from 1 and the same channel.                        *)
(*                                                                         *)
(* Since answers come in any order, the requests and the answers under way *)
(* are sets: the order in which a stream delivers them tells nothing more. *)
(***************************************************************************)
EXTENDS Naturals, Sequences, Functions

CONSTANTS
  Call,           \* calls of send_pdu, each made at most once
  NoResult,       \* the content of a message nobody asked for
  Impatient,      \* the calls with a timeout (GetCodecVersion has one)
  Reconnectable,  \* whether the domain connects again (TLS) or not (unix, ssh)
  MaxConnections  \* bound: connections the client thread ever makes

ASSUME RpcAssumption ==
  /\ NoResult \notin Call
  /\ Impatient \subseteq Call
  /\ Reconnectable \in BOOLEAN
  /\ MaxConnections \in Nat \ {0}

VARIABLES
  call,       \* where each call is: unmade, waiting, answered, failed, abandoned
  answer,     \* whose result each call returned
  executed,   \* how many times the server ran each request
  channel,    \* the requests posted for the client thread, in order
  thread,     \* "serving", "reconnecting", "leaving" (the receiver is not dropped
              \* yet) or "ended"
  nextSerial, \* next_serial
  promises,   \* the promises map, as a set of [serial, call]
  requests,   \* [conn, serial, call] written and not answered by the server yet
  responses,  \* [serial, result] on their way to the client over this connection
  link,       \* the stream: "up", "eof" (closed by the server) or "broken"
  conn,       \* which connection this is
  owned       \* whether anything still holds the Client

vars == <<call, answer, executed, channel, thread, nextSerial, promises,
          requests, responses, link, conn, owned>>

FirstSerialZero == 0  \* mutant: serials start at the one of unasked-for messages

FirstSerial == 1

Push == [serial |-> 0, result |-> NoResult]

Init ==
  /\ call = [c \in Call |-> "unmade"]
  /\ answer = [c \in Call |-> NoResult]
  /\ executed = [c \in Call |-> 0]
  /\ channel = <<>>
  /\ thread = "serving"
  /\ nextSerial = FirstSerial
  /\ promises = {}
  /\ requests = {}
  /\ responses = {}
  /\ link = "up"
  /\ conn = 1
  /\ owned = TRUE

-----------------------------------------------------------------------------
(* The callers.                                                            *)

\* The receiver is dropped only when the thread ends; until then the channel
\* accepts requests, whether or not anybody will read them.
Request(c) ==
  /\ call[c] = "unmade"
  /\ owned
  /\ IF thread = "ended"
     THEN /\ call' = [call EXCEPT ![c] = "failed"]
          /\ UNCHANGED channel
     ELSE /\ call' = [call EXCEPT ![c] = "waiting"]
          /\ channel' = Append(channel, c)
  /\ UNCHANGED <<answer, executed, thread, nextSerial, promises, requests,
                 responses, link, conn, owned>>

\* The timeout: the caller drops its end of the promise, and nobody else
\* learns of it.
Abandon(c) ==
  /\ c \in Impatient
  /\ call[c] = "waiting"
  /\ call' = [call EXCEPT ![c] = "abandoned"]
  /\ UNCHANGED <<answer, executed, channel, thread, nextSerial, promises,
                 requests, responses, link, conn, owned>>

\* A call in progress borrows the client.
DropClient ==
  /\ owned
  /\ \A c \in Call : call[c] # "waiting"
  /\ owned' = FALSE
  /\ UNCHANGED <<call, answer, executed, channel, thread, nextSerial, promises,
                 requests, responses, link, conn>>

-----------------------------------------------------------------------------
(* The client thread.                                                      *)

Promised == {p.call : p \in promises}

\* Promises::fail_all, for the promises of these calls
FailAll(C) ==
  call' = [c \in Call |-> IF c \in C /\ call[c] = "waiting" THEN "failed" ELSE call[c]]

\* client_thread returns an error, which drops the promises; its caller
\* connects again or gives up.  Mutant: the map outlives the connection.
LeaveKeeping(retry, ps) ==
  /\ UNCHANGED call
  /\ promises' = ps
  /\ thread' = IF retry THEN "reconnecting" ELSE "leaving"

Leave(retry, ps) ==
  /\ FailAll({p.call : p \in ps})
  /\ promises' = {}
  /\ thread' = IF retry THEN "reconnecting" ELSE "leaving"

\* A request is taken before an answer is read.  Over a stream that is gone
\* the write fails, or seems to succeed.
Send ==
  /\ thread = "serving"
  /\ channel # <<>>
  /\ channel' = Tail(channel)
  /\ nextSerial' = nextSerial + 1
  /\ LET mine == [serial |-> nextSerial, call |-> Head(channel)]
         sent == [conn |-> conn, serial |-> nextSerial, call |-> Head(channel)]
     IN \/ /\ link = "up"
           /\ requests' = requests \cup {sent}
           /\ promises' = promises \cup {mine}
           /\ UNCHANGED <<call, thread>>
        \/ /\ link # "up"
           /\ promises' = promises \cup {mine}
           /\ UNCHANGED <<call, requests, thread>>
        \/ /\ link # "up"
           /\ Leave(Reconnectable, promises \cup {mine})
           /\ UNCHANGED requests
  /\ UNCHANGED <<answer, executed, responses, link, conn, owned>>

Reading == thread = "serving" /\ channel = <<>>

\* A message nobody asked for goes to a task of the main thread.
ReceivePush(m) ==
  /\ m.serial = 0
  /\ UNCHANGED <<call, answer, promises, thread>>

\* The promise's caller is there, and gets the result.
ReceiveAnswer(m) ==
  /\ m.serial # 0
  /\ \E p \in promises :
       /\ p.serial = m.serial
       /\ call[p.call] = "waiting"
       /\ call' = [call EXCEPT ![p.call] = "answered"]
       /\ answer' = [answer EXCEPT ![p.call] = m.result]
       /\ promises' = promises \ {p}
  /\ UNCHANGED thread

\* The promise's caller is gone: the thread takes the whole client for gone.
ReceiveLate(m) ==
  /\ m.serial # 0
  /\ \E p \in promises :
       /\ p.serial = m.serial
       /\ call[p.call] # "waiting"
       /\ Leave(FALSE, promises \ {p})
  /\ UNCHANGED answer

\* No such promise, or a serial beyond any given out
ReceiveStray(m) ==
  /\ m.serial # 0
  /\ \A p \in promises : p.serial # m.serial
  /\ Leave(Reconnectable, promises)
  /\ UNCHANGED answer

Receive(m) ==
  /\ Reading
  /\ responses' = responses \ {m}
  /\ ReceivePush(m) \/ ReceiveAnswer(m) \/ ReceiveLate(m) \/ ReceiveStray(m)
  /\ UNCHANGED <<executed, channel, nextSerial, requests, link, conn, owned>>

\* Decoding fails: at the end of the stream, which is no reason to connect
\* again, or for another reason, and then unread answers are lost.
ReceiveEnd ==
  /\ Reading
  /\ \/ link = "eof" /\ responses = {} /\ Leave(FALSE, promises)
     \/ link = "broken" /\ Leave(Reconnectable, promises)
  /\ UNCHANGED <<answer, executed, channel, nextSerial, requests, responses,
                 link, conn, owned>>

\* recv fails once the channel is empty and its senders are gone.
Exit ==
  /\ Reading
  /\ ~owned
  /\ Leave(FALSE, promises)
  /\ UNCHANGED <<answer, executed, channel, nextSerial, requests, responses,
                 link, conn, owned>>

\* The retry loop succeeds, and client_thread starts again.
Reconnect ==
  /\ thread = "reconnecting"
  /\ conn < MaxConnections
  /\ conn' = conn + 1
  /\ link' = "up"
  /\ responses' = {}
  /\ nextSerial' = FirstSerial
  /\ thread' = "serving"
  /\ UNCHANGED <<call, answer, executed, channel, promises, requests, owned>>

\* The thread's closure returns: the receiver goes, and closes the channel,
\* but what is queued stays queued, its promises never dropped.
End ==
  /\ thread = "leaving"
  /\ thread' = "ended"
  /\ UNCHANGED <<call, answer, executed, channel, nextSerial, promises, requests,
                 responses, link, conn, owned>>

-----------------------------------------------------------------------------
(* The server and the stream.                                              *)

\* process_one, and the task it spawns: one answer for each request read.
\* The session of a lost connection may still run what it read, but its
\* answer goes nowhere.  Mutant: the answer goes to the latest session.
ExecuteForLatest(r) ==
  /\ executed' = [executed EXCEPT ![r.call] = @ + 1]
  /\ requests' = requests \ {r}
  /\ responses' = IF link = "up"
                  THEN responses \cup {[serial |-> r.serial, result |-> r.call]}
                  ELSE responses

Execute(r) ==
  /\ executed' = [executed EXCEPT ![r.call] = @ + 1]
  /\ requests' = requests \ {r}
  /\ responses' = IF r.conn = conn /\ link = "up"
                  THEN responses \cup {[serial |-> r.serial, result |-> r.call]}
                  ELSE responses

ServerExecutes ==
  /\ \E r \in requests : Execute(r)
  /\ UNCHANGED <<call, answer, channel, thread, nextSerial, promises, link, conn, owned>>

\* A notification of the server's mux, or changes of a pane
ServerPushes ==
  /\ thread = "serving"
  /\ link = "up"
  /\ responses' = responses \cup {Push}
  /\ UNCHANGED <<call, answer, executed, channel, thread, nextSerial, promises,
                 requests, link, conn, owned>>

\* The server closes the stream, or the network or the server dies.
LinkFails ==
  /\ link = "up"
  /\ link' \in {"eof", "broken"}
  /\ UNCHANGED <<call, answer, executed, channel, thread, nextSerial, promises,
                 requests, responses, conn, owned>>

-----------------------------------------------------------------------------

Caller == DropClient \/ \E c \in Call : Request(c) \/ Abandon(c)
Reads == \E m \in responses : Receive(m)
ReadsResultOf(c) == \E m \in responses : m.result = c /\ Receive(m)

ClientThread == Send \/ Reads \/ ReceiveEnd \/ Exit \/ Reconnect \/ End
Server == ServerExecutes \/ ServerPushes

Next == Caller \/ ClientThread \/ Server \/ LinkFails

\* The client thread runs, the server goes on running the requests it has
\* read, and no unasked-for message overtakes an answer for ever: a stream
\* delivers in order.
FairSpec ==
  /\ Init /\ [][Next]_vars
  /\ WF_vars(ClientThread)
  /\ WF_vars(ServerExecutes)
  /\ \A c \in Call : WF_vars(ReadsResultOf(c))

Spec == Init /\ [][Next]_vars

-----------------------------------------------------------------------------
(* Properties.                                                             *)

\* The types, with serial 0 never given to a call.
TypeOK ==
  /\ call \in [Call -> {"unmade", "waiting", "answered", "failed", "abandoned"}]
  /\ answer \in [Call -> Call \cup {NoResult}]
  /\ executed \in [Call -> Nat]
  /\ channel \in Seq(Call)
  /\ thread \in {"serving", "reconnecting", "leaving", "ended"}
  /\ nextSerial \in Nat \ {0}
  /\ promises \subseteq [serial : Nat \ {0}, call : Call]
  /\ requests \subseteq [conn : Nat \ {0}, serial : Nat \ {0}, call : Call]
  /\ responses \subseteq [serial : Nat, result : Call \cup {NoResult}]
  /\ link \in {"up", "eof", "broken"}
  /\ conn \in Nat \ {0}
  /\ owned \in BOOLEAN

\* While the thread serves a connection, whatever answer arrives over it has
\* its promise: the protocol-error branch of client_thread_async, which fails
\* every call in flight, is not reached, in spite of abandoned calls,
\* reconnections and requests still running for a lost connection.
NoStrayAnswer ==
  thread = "serving" =>
    \A m \in responses : m.serial = 0 \/ \E p \in promises : p.serial = m.serial

\* Every caller gets its own result or an error, and the server runs no
\* request twice, although serials restart with every connection and requests
\* outlive the connection they came over.
ServesCalls == INSTANCE RpcCalls
  WITH call <- call, answer <- answer, executed <- executed
CallsServed == ServesCalls!CallSpec

\* A call whose request has been given a serial returns, with a result or an
\* error, whatever happens to the stream.
SentCallsReturn == \A c \in Call : c \in Promised ~> call[c] # "waiting"

\* Every call returns: client_thread_async fails what it holds "Client was
\* destroyed" when it goes, and send_pdu reports a closed channel.
EveryCallReturns == \A c \in Call : call[c] = "waiting" ~> call[c] # "waiting"
=============================================================================
