----------------------------- MODULE Rpc_proofs -----------------------------
(***************************************************************************)
(* For any number of calls and connections: no stray answer arrives, and   *)
(* Rpc implements RpcCalls.                                                *)
(*                                                                         *)
(* NoStrayAnswer is not inductive.  What keeps it is where a serial of the *)
(* current connection can be: beside its promise, it is either in one      *)
(* request or in one answer, both for the same call.  And what keeps a     *)
(* request from running twice is that a call is in the channel once, or in *)
(* one request, and then the server has not run it.                        *)
(***************************************************************************)
EXTENDS Rpc, TLAPS

\* Serials and connections already used are below the next ones.
Young ==
  /\ \A p \in promises : p.serial < nextSerial
  /\ \A r \in requests : r.conn <= conn /\ (r.conn = conn => r.serial < nextSerial)
  /\ \A m \in responses : m.serial < nextSerial

\* A serial of this connection names one promise, one request or one answer.
Distinct ==
  /\ \A p, q \in promises : p.serial = q.serial => p = q
  /\ \A r, q \in requests : r.conn = conn /\ q.conn = conn /\ r.serial = q.serial => r = q
  /\ \A m, n \in responses : m.serial # 0 /\ m.serial = n.serial => m = n
  /\ \A r \in requests, m \in responses : r.conn = conn => r.serial # m.serial

\* What goes under the serial of a promise is for the promise's call.
Matching ==
  /\ \A p \in promises, r \in requests :
       r.conn = conn /\ r.serial = p.serial => r.call = p.call
  /\ \A p \in promises, m \in responses :
       m.serial = p.serial => m.result = p.call /\ executed[p.call] = 1

\* While the thread serves, requests and answers have their promises; when it
\* does not, there are no promises.
Covered ==
  /\ thread = "serving" =>
       \A r \in requests : r.conn = conn => \E p \in promises : p.serial = r.serial
  /\ NoStrayAnswer
  /\ thread # "serving" => promises = {}

\* A call waits in the channel once, or in one request, or was run.
Once ==
  /\ \A i, j \in DOMAIN channel : channel[i] = channel[j] => i = j
  /\ \A i \in DOMAIN channel : call[channel[i]] # "unmade" /\ executed[channel[i]] = 0
  /\ \A r \in requests : call[r.call] # "unmade" /\ executed[r.call] = 0
  /\ \A r \in requests, i \in DOMAIN channel : channel[i] # r.call
  /\ \A r, q \in requests : r.call = q.call => r = q
  /\ \A c \in Call : call[c] = "unmade" => executed[c] = 0

Inv == TypeOK /\ Young /\ Distinct /\ Matching /\ Covered /\ Once

States == {"unmade", "waiting", "answered", "failed", "abandoned"}

-----------------------------------------------------------------------------

\* What leaving client_thread does to the calls, whatever the reason: it makes
\* none unmade, and leaves no promise.
LEMMA Leaving ==
  ASSUME TypeOK, NEW retry \in BOOLEAN, NEW ps, Leave(retry, ps)
  PROVE  /\ promises' = {}
         /\ thread' \in {"reconnecting", "leaving"}
         /\ call' \in [Call -> States]
         /\ \A c \in Call : call'[c] = "unmade" <=> call[c] = "unmade"
BY DEF TypeOK, Leave, FailAll, States

\* The invariant outlives an error of client_thread that took at most one
\* answer from the stream.
LEMMA LeavingKeepsInv ==
  ASSUME Inv, NEW retry \in BOOLEAN, NEW ps, Leave(retry, ps),
         responses' \subseteq responses,
         UNCHANGED <<answer, executed, channel, nextSerial, requests, link, conn, owned>>
  PROVE  Inv'
<1>1. /\ promises' = {}
      /\ thread' \in {"reconnecting", "leaving"}
      /\ call' \in [Call -> States]
      /\ \A c \in Call : call'[c] = "unmade" <=> call[c] = "unmade"
  BY Leaving DEF Inv
<1>2. TypeOK'
  BY <1>1 DEF Inv, TypeOK, States
<1>3. Young'
  BY <1>1 DEF Inv, Young
<1>4. Distinct'
  BY <1>1 DEF Inv, Distinct
<1>5. Matching'
  BY <1>1 DEF Inv, Matching
<1>6. Covered'
  BY <1>1 DEF Inv, Covered, NoStrayAnswer
<1>7. Once'
  BY <1>1 DEF Inv, Once, TypeOK
<1> QED
  BY <1>2, <1>3, <1>4, <1>5, <1>6, <1>7 DEF Inv

LEMMA InitInv == Init => Inv
BY RpcAssumption
   DEF Init, Inv, TypeOK, Young, Distinct, Matching, Covered, NoStrayAnswer, Once,
       FirstSerial

LEMMA RequestInv == ASSUME Inv, NEW c \in Call, Request(c) PROVE Inv'
<1>1. TypeOK'
  <2>1. channel' \in Seq(Call)
    <3>1. channel \in Seq(Call)
      BY DEF Inv, TypeOK
    <3>2. channel' = channel \/ channel' = Append(channel, c)
      BY DEF Request
    <3> QED
      BY <3>1, <3>2
  <2>2. call' \in [Call -> States]
    BY DEF Inv, TypeOK, Request, States
  <2> QED
    BY <2>1, <2>2 DEF Inv, TypeOK, Request, States
<1>2. Young' /\ Distinct' /\ Matching' /\ Covered'
  BY DEF Inv, Young, Distinct, Matching, Covered, NoStrayAnswer, Request
<1>3. Once'
  <2>1. CASE thread = "ended"
    BY <2>1 DEF Inv, Once, TypeOK, Request
  <2>2. CASE thread # "ended"
    <3>1. /\ channel' = Append(channel, c)
          /\ call' = [call EXCEPT ![c] = "waiting"]
          /\ call[c] = "unmade"
          /\ UNCHANGED <<executed, requests>>
      BY <2>2 DEF Request
    <3>2. /\ DOMAIN channel' = DOMAIN channel \cup {Len(channel) + 1}
          /\ \A i \in DOMAIN channel : channel'[i] = channel[i] /\ i # Len(channel) + 1
          /\ channel'[Len(channel) + 1] = c
      BY <3>1 DEF Inv, TypeOK
    <3>3. \A i \in DOMAIN channel : channel[i] \in Call /\ channel[i] # c
      BY <3>1 DEF Inv, Once, TypeOK
    <3>4. \A r \in requests : r.call \in Call /\ r.call # c
      BY <3>1 DEF Inv, Once, TypeOK
    <3> QED
      BY <3>1, <3>2, <3>3, <3>4 DEF Inv, Once, TypeOK
  <2> QED
    BY <2>1, <2>2
<1> QED
  BY <1>1, <1>2, <1>3 DEF Inv

LEMMA AbandonInv == ASSUME Inv, NEW c \in Call, Abandon(c) PROVE Inv'
<1>1. TypeOK'
  BY DEF Inv, TypeOK, Abandon
<1>2. Young' /\ Distinct' /\ Matching' /\ Covered'
  BY DEF Inv, Young, Distinct, Matching, Covered, NoStrayAnswer, Abandon
<1>3. Once'
  BY DEF Inv, Once, TypeOK, Abandon
<1> QED
  BY <1>1, <1>2, <1>3 DEF Inv

\* Sending moves the head of the channel into a request and a promise under a
\* serial nothing carries yet; or only the promise is kept, or none.
LEMMA SendInv == ASSUME Inv, Send PROVE Inv'
<1> DEFINE c == Head(channel)
           mine == [serial |-> nextSerial, call |-> c]
           sent == [conn |-> conn, serial |-> nextSerial, call |-> c]
<1>1. /\ c \in Call
      /\ channel' \in Seq(Call)
      /\ channel # <<>>
      /\ channel' = Tail(channel)
      /\ nextSerial' = nextSerial + 1
      /\ thread = "serving"
      /\ UNCHANGED <<answer, executed, responses, link, conn, owned>>
  BY DEF Inv, TypeOK, Send
<1>2. /\ \A i \in DOMAIN channel' : i + 1 \in DOMAIN channel /\ channel'[i] = channel[i + 1]
      /\ \A i \in DOMAIN channel' : i \in Nat /\ i + 1 # 1
      /\ 1 \in DOMAIN channel
      /\ c = channel[1]
  BY <1>1 DEF Inv, TypeOK
<1>3. \A i \in DOMAIN channel' : channel'[i] # c /\ channel'[i] \in Call
  <2>1. \A i \in DOMAIN channel : channel[i] = channel[1] => i = 1
    BY <1>2 DEF Inv, Once
  <2> QED
    BY <1>2, <2>1 DEF Inv, TypeOK
<1>4. call[c] # "unmade" /\ executed[c] = 0 /\ \A r \in requests : r.call # c
  BY <1>2 DEF Inv, Once
<1>5. /\ mine \in [serial : Nat \ {0}, call : Call]
      /\ mine.serial = nextSerial /\ mine.call = c
      /\ sent \in [conn : Nat \ {0}, serial : Nat \ {0}, call : Call]
      /\ sent.conn = conn /\ sent.serial = nextSerial /\ sent.call = c
  BY <1>1 DEF Inv, TypeOK
<1>6. /\ \A p \in promises : p.serial \in Nat /\ p.serial < nextSerial
      /\ \A r \in requests : r.conn = conn => r.serial \in Nat /\ r.serial < nextSerial
      /\ \A m \in responses : m.serial \in Nat /\ m.serial < nextSerial
      /\ nextSerial \in Nat /\ conn \in Nat
  BY DEF Inv, TypeOK, Young
<1>7. \/ /\ requests' = requests \cup {sent}
         /\ promises' = promises \cup {mine}
         /\ UNCHANGED <<call, thread>>
      \/ /\ promises' = promises \cup {mine}
         /\ UNCHANGED <<call, requests, thread>>
      \/ /\ Leave(Reconnectable, promises \cup {mine})
         /\ UNCHANGED requests
  BY DEF Send
<1> HIDE DEF c, mine, sent
<1>8. CASE /\ requests' = requests \cup {sent}
           /\ promises' = promises \cup {mine}
           /\ UNCHANGED <<call, thread>>
  <2>1. TypeOK'
    BY <1>1, <1>5, <1>8 DEF Inv, TypeOK
  <2>2. Young'
    BY <1>1, <1>5, <1>6, <1>8 DEF Inv, Young, TypeOK
  <2>3. Distinct'
    BY <1>1, <1>5, <1>6, <1>8 DEF Inv, Distinct
  <2>4. Matching'
    BY <1>1, <1>5, <1>6, <1>8 DEF Inv, Matching
  <2>5. Covered'
    BY <1>1, <1>5, <1>8 DEF Inv, Covered, NoStrayAnswer
  <2>6. Once'
    BY <1>1, <1>2, <1>3, <1>4, <1>5, <1>8 DEF Inv, Once
  <2> QED
    BY <2>1, <2>2, <2>3, <2>4, <2>5, <2>6 DEF Inv
<1>9. CASE /\ promises' = promises \cup {mine}
           /\ UNCHANGED <<call, requests, thread>>
  <2>1. TypeOK'
    BY <1>1, <1>5, <1>9 DEF Inv, TypeOK
  <2>2. Young'
    BY <1>1, <1>5, <1>6, <1>9 DEF Inv, Young, TypeOK
  <2>3. Distinct'
    BY <1>1, <1>5, <1>6, <1>9 DEF Inv, Distinct
  <2>4. Matching'
    BY <1>1, <1>5, <1>6, <1>9 DEF Inv, Matching
  <2>5. Covered'
    BY <1>1, <1>5, <1>9 DEF Inv, Covered, NoStrayAnswer
  <2>6. Once'
    BY <1>1, <1>2, <1>3, <1>4, <1>9 DEF Inv, Once
  <2> QED
    BY <2>1, <2>2, <2>3, <2>4, <2>5, <2>6 DEF Inv
<1>10. CASE /\ Leave(Reconnectable, promises \cup {mine})
            /\ UNCHANGED requests
  <2>1. /\ promises' = {}
        /\ thread' \in {"reconnecting", "leaving"}
        /\ call' \in [Call -> States]
        /\ \A d \in Call : call'[d] = "unmade" <=> call[d] = "unmade"
    BY <1>10, RpcAssumption, Leaving DEF Inv
  <2>2. TypeOK'
    BY <1>1, <1>10, <2>1 DEF Inv, TypeOK, States
  <2>3. Young'
    BY <1>1, <1>6, <1>10, <2>1 DEF Inv, Young, TypeOK
  <2>4. Distinct' /\ Matching' /\ Covered'
    BY <1>1, <1>10, <2>1 DEF Inv, Distinct, Matching, Covered, NoStrayAnswer
  <2>5. Once'
    BY <1>1, <1>2, <1>3, <1>10, <2>1 DEF Inv, Once, TypeOK
  <2> QED
    BY <2>2, <2>3, <2>4, <2>5 DEF Inv
<1> QED
  BY <1>7, <1>8, <1>9, <1>10

\* Receiving takes one answer, with its promise.
LEMMA ReceiveInv == ASSUME Inv, NEW m \in responses, Receive(m) PROVE Inv'
<1>1. /\ thread = "serving"
      /\ responses' = responses \ {m}
      /\ UNCHANGED <<executed, channel, nextSerial, requests, link, conn, owned>>
      /\ ReceivePush(m) \/ ReceiveAnswer(m) \/ ReceiveLate(m) \/ ReceiveStray(m)
  BY DEF Receive, Reading
<1>2. CASE ReceivePush(m)
  <2>1. UNCHANGED <<call, answer, promises, thread>>
    BY <1>2 DEF ReceivePush
  <2>2. TypeOK' /\ Young' /\ Distinct' /\ Matching'
    BY <1>1, <2>1 DEF Inv, TypeOK, Young, Distinct, Matching
  <2>3. Covered' /\ Once'
    BY <1>1, <2>1 DEF Inv, Covered, NoStrayAnswer, Once
  <2> QED
    BY <2>2, <2>3 DEF Inv
<1>3. CASE ReceiveAnswer(m)
  <2>1. PICK p \in promises :
          /\ p.serial = m.serial
          /\ call[p.call] = "waiting"
          /\ call' = [call EXCEPT ![p.call] = "answered"]
          /\ answer' = [answer EXCEPT ![p.call] = m.result]
          /\ promises' = promises \ {p}
    BY <1>3 DEF ReceiveAnswer
  <2>2. UNCHANGED thread /\ m.serial # 0
    BY <1>3 DEF ReceiveAnswer
  <2>3. p.call \in Call /\ m.result \in Call \cup {NoResult}
    BY DEF Inv, TypeOK
  <2>4. TypeOK'
    BY <1>1, <2>1, <2>2, <2>3 DEF Inv, TypeOK
  <2>5. Young' /\ Distinct' /\ Matching'
    BY <1>1, <2>1 DEF Inv, Young, Distinct, Matching
  <2>6. Covered'
    <3>1. \A n \in responses' : n.serial # p.serial
      BY <1>1, <2>1, <2>2 DEF Inv, Distinct
    <3>2. \A r \in requests : r.conn = conn => r.serial # p.serial
      BY <2>1 DEF Inv, Distinct
    <3> QED
      BY <1>1, <2>1, <2>2, <3>1, <3>2 DEF Inv, Covered, NoStrayAnswer
  <2>7. Once'
    BY <1>1, <2>1, <2>3 DEF Inv, Once, TypeOK
  <2> QED
    BY <2>4, <2>5, <2>6, <2>7 DEF Inv
<1>4. CASE ReceiveLate(m)
  <2>1. PICK p \in promises : Leave(FALSE, promises \ {p})
    BY <1>4 DEF ReceiveLate
  <2>2. UNCHANGED answer
    BY <1>4 DEF ReceiveLate
  <2> QED
    BY <1>1, <2>1, <2>2, LeavingKeepsInv
<1>5. CASE ReceiveStray(m)
  BY <1>1, <1>5, RpcAssumption, LeavingKeepsInv DEF ReceiveStray
<1> QED
  BY <1>1, <1>2, <1>3, <1>4, <1>5

LEMMA ReconnectInv == ASSUME Inv, Reconnect PROVE Inv'
<1>1. /\ conn' = conn + 1
      /\ conn \in Nat
      /\ nextSerial' = 1
      /\ promises = {} /\ promises' = {}
      /\ responses' = {}
      /\ UNCHANGED <<call, executed, channel, requests>>
  BY DEF Inv, TypeOK, Covered, Reconnect, FirstSerial
<1>2. \A r \in requests : r.conn \in Nat /\ r.conn < conn'
  BY <1>1 DEF Inv, TypeOK, Young
<1>3. TypeOK'
  BY DEF Inv, TypeOK, Reconnect, FirstSerial
<1>4. Young' /\ Distinct' /\ Matching'
  BY <1>1, <1>2 DEF Young, Distinct, Matching
<1>5. Covered' /\ Once'
  BY <1>1, <1>2 DEF Inv, Covered, NoStrayAnswer, Once
<1> QED
  BY <1>3, <1>4, <1>5 DEF Inv

\* Running a request turns it into the answer under the same serial, or drops
\* the answer when the request's connection is gone.
LEMMA ExecuteInv ==
  ASSUME Inv, NEW r \in requests, Execute(r),
         UNCHANGED <<call, answer, channel, thread, nextSerial, promises, link, conn, owned>>
  PROVE  Inv'
<1> DEFINE new == [serial |-> r.serial, result |-> r.call]
<1>1. /\ r.call \in Call /\ r.serial \in Nat \ {0}
      /\ new \in [serial : Nat, result : Call \cup {NoResult}]
      /\ new.serial = r.serial /\ new.result = r.call
  BY DEF Inv, TypeOK
<1>2. /\ executed' = [executed EXCEPT ![r.call] = @ + 1]
      /\ requests' = requests \ {r}
      /\ executed[r.call] = 0 /\ executed'[r.call] = 1
      /\ \/ r.conn = conn /\ responses' = responses \cup {new}
         \/ UNCHANGED responses
  BY <1>1 DEF Inv, Once, TypeOK, Execute
<1> HIDE DEF new
<1>3. \A d \in Call : d # r.call => executed'[d] = executed[d]
  BY <1>2 DEF Inv, TypeOK
<1>4. TypeOK'
  BY <1>1, <1>2 DEF Inv, TypeOK
<1>5. Young'
  BY <1>1, <1>2 DEF Inv, Young
<1>6. Distinct'
  BY <1>1, <1>2 DEF Inv, Distinct
<1>7. Matching'
  <2>1. \A p \in promises : p.call \in Call
    BY DEF Inv, TypeOK
  <2> QED
    BY <1>1, <1>2, <1>3, <2>1 DEF Inv, Matching
<1>8. Covered'
  BY <1>1, <1>2 DEF Inv, Covered, NoStrayAnswer
<1>9. Once'
  <2>1. \A q \in requests' : q \in requests /\ q.call \in Call /\ q.call # r.call
    BY <1>2 DEF Inv, Once, TypeOK
  <2>2. \A i \in DOMAIN channel : channel[i] \in Call /\ channel[i] # r.call
    BY DEF Inv, Once, TypeOK
  <2> QED
    BY <1>1, <1>2, <1>3, <2>1, <2>2 DEF Inv, Once
<1> QED
  BY <1>4, <1>5, <1>6, <1>7, <1>8, <1>9 DEF Inv

LEMMA PushInv == ASSUME Inv, ServerPushes PROVE Inv'
<1>1. /\ responses' = responses \cup {Push}
      /\ UNCHANGED <<call, answer, executed, channel, thread, nextSerial, promises,
                     requests, link, conn, owned>>
  BY DEF ServerPushes
<1>2. /\ Push \in [serial : Nat, result : Call \cup {NoResult}]
      /\ Push.serial = 0 /\ Push.result = NoResult
  BY DEF Push
<1> HIDE DEF Push
<1>3. TypeOK'
  BY <1>1, <1>2 DEF Inv, TypeOK
<1>4. Young'
  BY <1>1, <1>2 DEF Inv, Young, TypeOK
<1>5. \A r \in requests : r.serial # 0
  BY DEF Inv, TypeOK
<1>6. \A p \in promises : p.serial # 0
  BY DEF Inv, TypeOK
<1>7. Distinct' /\ Matching'
  BY <1>1, <1>2, <1>5, <1>6 DEF Inv, Distinct, Matching
<1>8. Covered' /\ Once'
  BY <1>1, <1>2 DEF Inv, Covered, NoStrayAnswer, Once
<1> QED
  BY <1>3, <1>4, <1>7, <1>8 DEF Inv

\* The other actions touch neither requests nor answers, or only drop promises.
LEMMA NextInv == Inv /\ [Next]_vars => Inv'
<1> SUFFICES ASSUME Inv, [Next]_vars PROVE Inv'
  OBVIOUS
<1>1. CASE Caller
  <2>1. CASE DropClient
    BY <2>1 DEF Inv, TypeOK, Young, Distinct, Matching, Covered, NoStrayAnswer, Once, DropClient
  <2> QED
    BY <1>1, <2>1, RequestInv, AbandonInv DEF Caller
<1>2. CASE ClientThread
  <2>1. CASE ReceiveEnd
    BY <2>1, RpcAssumption, LeavingKeepsInv DEF ReceiveEnd
  <2>2. CASE Exit
    BY <2>2, LeavingKeepsInv DEF Exit
  <2>3. CASE End
    BY <2>3 DEF Inv, TypeOK, Young, Distinct, Matching, Covered, NoStrayAnswer, Once, End
  <2> QED
    BY <1>2, <2>1, <2>2, <2>3, SendInv, ReceiveInv, ReconnectInv DEF ClientThread, Reads
<1>3. CASE Server
  <2>1. CASE ServerExecutes
    BY <2>1, ExecuteInv DEF ServerExecutes
  <2> QED
    BY <1>3, <2>1, PushInv DEF Server
<1>4. CASE LinkFails
  BY <1>4 DEF Inv, TypeOK, Young, Distinct, Matching, Covered, NoStrayAnswer, Once, LinkFails
<1>5. CASE UNCHANGED vars
  BY <1>5 DEF Inv, TypeOK, Young, Distinct, Matching, Covered, NoStrayAnswer, Once, vars
<1> QED
  BY <1>1, <1>2, <1>3, <1>4, <1>5 DEF Next

\* The invariant holds in every reachable state.
LEMMA AlwaysInv == Spec => []Inv
<1>1. Init => Inv
  BY InitInv
<1>2. Inv /\ [Next]_vars => Inv'
  BY NextInv
<1> QED
  BY <1>1, <1>2, PTL DEF Spec

\* No answer without a promise reaches a serving client thread, so a protocol
\* error never fails the calls in flight.
THEOREM StrayNever == Spec => []NoStrayAnswer
<1>1. Inv => NoStrayAnswer
  BY DEF Inv, Covered
<1> QED
  BY <1>1, AlwaysInv, PTL

\* The types, for any number of calls and connections
THEOREM RpcTyped == Spec => []TypeOK
<1>1. Inv => TypeOK
  BY DEF Inv
<1> QED
  BY <1>1, AlwaysInv, PTL

-----------------------------------------------------------------------------
(* Rpc implements RpcCalls: what each step does to the calls.              *)

\* An error of client_thread fails some of the waiting calls.
LEMMA LeavingServes ==
  ASSUME Inv, NEW retry, NEW ps, Leave(retry, ps), UNCHANGED <<answer, executed>>
  PROVE  ServesCalls!CallStep
<1> DEFINE C == {c \in Call : c \in {p.call : p \in ps} /\ call[c] = "waiting"}
<1>1. C \in SUBSET Call
  OBVIOUS
<1>2. ServesCalls!Fail(C)
  BY DEF Leave, FailAll, ServesCalls!Fail
<1> QED
  BY <1>1, <1>2 DEF ServesCalls!CallStep

\* A step that leaves the calls alone stutters.
LEMMA ReceiveServes ==
  ASSUME Inv, NEW m \in responses, Receive(m)
  PROVE  ServesCalls!CallStep \/ UNCHANGED <<call, answer, executed>>
<1>1. UNCHANGED executed
  BY DEF Receive
<1>2. CASE ReceivePush(m)
  BY <1>1, <1>2 DEF ReceivePush
<1>3. CASE ReceiveAnswer(m)
  <2>1. PICK p \in promises :
          /\ p.serial = m.serial
          /\ call[p.call] = "waiting"
          /\ call' = [call EXCEPT ![p.call] = "answered"]
          /\ answer' = [answer EXCEPT ![p.call] = m.result]
    BY <1>3 DEF ReceiveAnswer
  <2>2. p.call \in Call
    BY DEF Inv, TypeOK
  <2>3. m.result = p.call /\ executed[p.call] = 1
    BY <2>1 DEF Inv, Matching
  <2>4. ServesCalls!Answer(p.call)
    BY <1>1, <2>1, <2>3 DEF ServesCalls!Answer
  <2> QED
    BY <2>2, <2>4 DEF ServesCalls!CallStep
<1>4. CASE ReceiveLate(m)
  BY <1>1, <1>4, LeavingServes DEF ReceiveLate
<1>5. CASE ReceiveStray(m)
  BY <1>1, <1>5, LeavingServes DEF ReceiveStray
<1> QED
  BY <1>2, <1>3, <1>4, <1>5 DEF Receive

LEMMA StepServes ==
  Inv /\ [Next]_vars => ServesCalls!CallStep \/ UNCHANGED <<call, answer, executed>>
<1> SUFFICES ASSUME Inv, [Next]_vars
             PROVE  ServesCalls!CallStep \/ UNCHANGED <<call, answer, executed>>
  OBVIOUS
<1>1. ASSUME NEW c \in Call, Request(c) PROVE ServesCalls!CallStep
  <2>1. ServesCalls!Start(c) \/ ServesCalls!Refuse(c)
    BY <1>1 DEF Request, ServesCalls!Start, ServesCalls!Refuse
  <2> QED
    BY <1>1, <2>1 DEF ServesCalls!CallStep
<1>2. ASSUME NEW c \in Call, Abandon(c) PROVE ServesCalls!CallStep
  <2>1. ServesCalls!GiveUp(c)
    BY <1>2 DEF Abandon, ServesCalls!GiveUp
  <2> QED
    BY <1>2, <2>1 DEF ServesCalls!CallStep
<1>3. ASSUME NEW r \in requests, Execute(r), UNCHANGED <<call, answer>>
      PROVE  ServesCalls!CallStep
  <2>1. r.call \in Call /\ call[r.call] # "unmade" /\ executed[r.call] = 0
    BY <1>3 DEF Inv, Once, TypeOK
  <2>2. executed' = [executed EXCEPT ![r.call] = 1]
    BY <1>3, <2>1 DEF Execute
  <2>3. ServesCalls!Run(r.call)
    BY <1>3, <2>1, <2>2 DEF ServesCalls!Run
  <2> QED
    BY <2>1, <2>3 DEF ServesCalls!CallStep
<1>4. CASE Send
  <2>1. CASE UNCHANGED call
    BY <1>4, <2>1 DEF Send
  <2>2. CASE Leave(Reconnectable, promises \cup {[serial |-> nextSerial, call |-> Head(channel)]})
    <3>1. UNCHANGED <<answer, executed>>
      BY <1>4 DEF Send
    <3> QED
      BY <2>2, <3>1, LeavingServes
  <2> QED
    BY <1>4, <2>1, <2>2 DEF Send
<1>5. CASE ReceiveEnd
  BY <1>5, LeavingServes DEF ReceiveEnd
<1>6. CASE Exit
  BY <1>6, LeavingServes DEF Exit
<1>7. CASE DropClient \/ Reconnect \/ End \/ ServerPushes \/ LinkFails \/ UNCHANGED vars
  BY <1>7 DEF DropClient, Reconnect, End, ServerPushes, LinkFails, vars
<1>8. CASE Reads
  BY <1>8, ReceiveServes DEF Reads
<1>9. CASE ServerExecutes
  BY <1>3, <1>9 DEF ServerExecutes
<1> QED
  BY <1>1, <1>2, <1>4, <1>5, <1>6, <1>7, <1>8, <1>9
     DEF Next, Caller, ClientThread, Server

\* Whatever the number of calls and connections: each caller gets the result of
\* its own request, after the server ran it, or an error, and the server runs
\* no request twice.
THEOREM CallsAlwaysServed == Spec => CallsServed
<1>1. Init => ServesCalls!Unmade
  BY DEF Init, ServesCalls!Unmade
<1>2. Inv /\ [Next]_vars => [ServesCalls!CallStep]_(ServesCalls!callVars)
  BY StepServes DEF ServesCalls!callVars
<1> QED
  BY <1>1, <1>2, AlwaysInv, PTL DEF Spec, CallsServed, ServesCalls!CallSpec
=============================================================================
