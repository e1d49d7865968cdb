--------------------------- MODULE LspSession_proofs ---------------------------
(***************************************************************************)
(* Proofs about one language-server session, for any set of tool calls and  *)
(* documents and any number of events.                                     *)
(***************************************************************************)
EXTENDS LspSession, TLAPS

-----------------------------------------------------------------------------
(***************************************************************************)
(* Type correctness, one lemma for each operator the actions are built from.*)
(***************************************************************************)

\* #send appends messages to the pipe or loses them.
LEMMA SendType ==
    ASSUME TypeOK, NEW msgs \in Seq(ToServerMessage), Send(msgs)
    PROVE  /\ stdin' \in Seq(ToServerMessage)
           /\ host' \in {"up", "crashed", "exited"}
<1>1. stdin \in Seq(ToServerMessage) /\ host \in {"up", "crashed", "exited"}
  BY DEF TypeOK
<1>2. stdin \o msgs \in Seq(ToServerMessage)
  BY <1>1
<1> QED BY <1>1, <1>2 DEF Send

\* What follows a rejection only moves the promise, the phase and the host.
LEMMA RejectType ==
    ASSUME TypeOK, NEW K, Reject(K)
    PROVE  /\ promise' \in [Asker -> {"none", "waiting", "resolved", "failed"}]
           /\ phase' \in {"new", "starting", "ready", "failed"}
           /\ host' \in {"up", "crashed", "exited"}
  BY DEF Reject, TypeOK

\* Setting and deleting an entry keeps #pending a map from ids to askers.
LEMMA PutType ==
    ASSUME NEW m, DOMAIN m \subseteq Nat, m \in [DOMAIN m -> Asker],
           NEW id \in Nat, NEW k \in Asker
    PROVE  /\ DOMAIN Put(m, id, k) = DOMAIN m \cup {id}
           /\ DOMAIN Put(m, id, k) \subseteq Nat
           /\ Put(m, id, k) \in [DOMAIN Put(m, id, k) -> Asker]
           /\ Put(m, id, k)[id] = k
           /\ \A i \in DOMAIN m : i # id => Put(m, id, k)[i] = m[i]
  BY DEF Put

\* ... and so does deleting one.
LEMMA DeleteType ==
    ASSUME NEW m, DOMAIN m \subseteq Nat, m \in [DOMAIN m -> Asker], NEW id
    PROVE  /\ DOMAIN Delete(m, id) = DOMAIN m \ {id}
           /\ DOMAIN Delete(m, id) \subseteq Nat
           /\ Delete(m, id) \in [DOMAIN Delete(m, id) -> Asker]
           /\ \A i \in DOMAIN m \ {id} : Delete(m, id)[i] = m[i]
  BY DEF Delete

\* The empty map is such a map.
LEMMA EmptyMapType ==
    /\ DOMAIN EmptyMap = {}
    /\ DOMAIN EmptyMap \subseteq Nat
    /\ EmptyMap \in [DOMAIN EmptyMap -> Asker]
  BY DEF EmptyMap

\* A request that could not be sent leaves the map as it was.
LEMMA FailedSend ==
    ASSUME TypeOK, NEW id \in Nat, id \notin DOMAIN pending, NEW k \in Asker
    PROVE  PendingAfterFailedSend(id, k) = pending
<1>1. pending = [i \in DOMAIN pending |-> pending[i]]
  BY DEF TypeOK
<1>2. (DOMAIN pending \cup {id}) \ {id} = DOMAIN pending
  OBVIOUS
<1> QED BY <1>1, <1>2 DEF PendingAfterFailedSend, Put, Delete

\* request(), with notifications that are well-formed messages.
LEMMA RequestType ==
    ASSUME TypeOK, NEW k \in Asker, NEW before \in Seq(ToServerMessage),
           Request(k, before)
    PROVE  /\ nextId' \in Nat \ {0}
           /\ DOMAIN pending' \subseteq Nat
           /\ pending' \in [DOMAIN pending' -> Asker]
           /\ promise' \in [Asker -> {"none", "waiting", "resolved", "failed"}]
           /\ phase' \in {"new", "starting", "ready", "failed"}
           /\ host' \in {"up", "crashed", "exited"}
           /\ stdin' \in Seq(ToServerMessage)
<1>1. nextId \in Nat /\ nextId' \in Nat \ {0}
  BY DEF Request, TypeOK
<1>2. RequestMessage(nextId, k) \in ToServerMessage
  BY <1>1 DEF RequestMessage, ToServerMessage
<1>3. before \o <<RequestMessage(nextId, k)>> \in Seq(ToServerMessage)
  BY <1>2
<1>4. CASE /\ Send(before \o <<RequestMessage(NewId, k)>>)
           /\ pending' = Put(pending, NewId, k)
           /\ promise' = [promise EXCEPT ![k] = "waiting"]
           /\ phase' = phase
  <2>1. stdin' \in Seq(ToServerMessage) /\ host' \in {"up", "crashed", "exited"}
    BY <1>3, <1>4, SendType DEF NewId
  <2>2. DOMAIN pending' \subseteq Nat /\ pending' \in [DOMAIN pending' -> Asker]
    BY <1>1, <1>4, PutType DEF NewId, TypeOK
  <2>3. promise' \in [Asker -> {"none", "waiting", "resolved", "failed"}]
        /\ phase' \in {"new", "starting", "ready", "failed"}
    BY <1>4 DEF TypeOK
  <2> QED BY <1>1, <2>1, <2>2, <2>3
<1>5. CASE /\ dead
           /\ pending' = PendingAfterFailedSend(NewId, k)
           /\ Reject({k})
           /\ stdin' = stdin
  <2>1. DOMAIN pending' \subseteq Nat /\ pending' \in [DOMAIN pending' -> Asker]
    <3>1. LET m == Put(pending, nextId, k)
          IN DOMAIN m \subseteq Nat /\ m \in [DOMAIN m -> Asker]
      BY <1>1, PutType DEF TypeOK
    <3> QED BY <1>5, <3>1, DeleteType DEF PendingAfterFailedSend, NewId
  <2> QED BY <1>1, <1>5, <2>1, RejectType DEF TypeOK
<1> QED BY <1>4, <1>5 DEF Request

\* What start(), shutdown() and a tool call do with an answer.
LEMMA ResolveType ==
    ASSUME TypeOK, NEW k \in Asker, NEW from \in Asker, Resolve(k, from)
    PROVE  /\ promise' \in [Asker -> {"none", "waiting", "resolved", "failed"}]
           /\ repliedTo' \in [Asker -> Asker \cup {NoAsker}]
           /\ phase' \in {"new", "starting", "ready", "failed"}
           /\ host' \in {"up", "crashed", "exited"}
           /\ stdin' \in Seq(ToServerMessage)
<1>1. /\ promise' \in [Asker -> {"none", "waiting", "resolved", "failed"}]
      /\ repliedTo' \in [Asker -> Asker \cup {NoAsker}]
  BY DEF Resolve, TypeOK
<1>2. \A method \in {"initialized", "exit"} : Notification(method) \in ToServerMessage
  BY DEF Notification, ToServerMessage
<1>3. stdin \in Seq(ToServerMessage)
  BY DEF TypeOK
<1>4. CASE k = Initialize /\ phase' = "ready" /\ Send(<<Notification("initialized")>>)
  <2>1. <<Notification("initialized")>> \in Seq(ToServerMessage)
    BY <1>2
  <2> QED BY <1>1, <1>4, <2>1, SendType
<1>5. CASE /\ k = Shutdown
           /\ phase' = phase
           /\ stdin' = Append(stdin, Notification("exit"))
           /\ host' = "exited"
  <2>1. Append(stdin, Notification("exit")) \in Seq(ToServerMessage)
    BY <1>2, <1>3
  <2> QED BY <1>1, <1>5, <2>1 DEF TypeOK
<1>6. CASE k \in Call /\ UNCHANGED <<phase, stdin, host>>
  BY <1>1, <1>6 DEF TypeOK
<1> QED BY <1>4, <1>5, <1>6 DEF Resolve

\* The message syncFile() sends, didOpen or didChange.
LEMMA SyncMessageType ==
    ASSUME TypeOK, NEW u \in Uri, NEW t \in Nat
    PROVE  /\ SyncMessage(u, t) \in ToServerMessage
           /\ SyncedDocs(u) \in [Uri -> Nat]
<1>1. openDocs \in [Uri -> Nat]
  BY DEF TypeOK
<1>2. SyncedDocs(u) \in [Uri -> Nat]
  BY <1>1 DEF SyncedDocs
<1>3. /\ OpenMessage(u, openDocs[u] + 1, t) \in ToServerMessage
      /\ ChangeMessage(u, openDocs[u] + 1, t) \in ToServerMessage
  BY <1>1 DEF OpenMessage, ChangeMessage, ToServerMessage
<1> QED BY <1>2, <1>3 DEF SyncMessage

\* Taking an entry out of #pending.
LEMMA PendingDeleteType ==
    ASSUME TypeOK, NEW id \in DOMAIN pending
    PROVE  /\ pending[id] \in Asker
           /\ DOMAIN Delete(pending, id) \subseteq Nat
           /\ Delete(pending, id) \in [DOMAIN Delete(pending, id) -> Asker]
<1>1. DOMAIN pending \subseteq Nat /\ pending \in [DOMAIN pending -> Asker]
  BY DEF TypeOK
<1>2. pending[id] \in Asker
  BY <1>1
<1> QED BY <1>1, <1>2, DeleteType

\* Reading the pipes, writing to them.
LEMMA PipeType ==
    ASSUME TypeOK
    PROVE  /\ stdin # <<>> => Head(stdin) \in ToServerMessage /\ Tail(stdin) \in Seq(ToServerMessage)
           /\ stdout # <<>> => Head(stdout) \in ToClientMessage /\ Tail(stdout) \in Seq(ToClientMessage)
           /\ \A m \in ToServerMessage : Append(stdin, m) \in Seq(ToServerMessage)
           /\ \A m \in ToClientMessage : Append(stdout, m) \in Seq(ToClientMessage)
<1>1. stdin \in Seq(ToServerMessage) /\ stdout \in Seq(ToClientMessage)
  BY DEF TypeOK
<1> QED BY <1>1

\* The fields of the messages the two sides read.
LEMMA MessageFields ==
    /\ \A m \in ToClientMessage :
         /\ m.type = "response" => m.id \in Nat /\ m.for \in Asker /\ m.ok \in BOOLEAN
         /\ m.type = "publishDiagnostics" => m.uri \in Uri /\ m.rev \in Nat
         /\ m.type = "serverRequest" => m.id \in Nat
    /\ \A m \in ToServerMessage :
         /\ m.type = "request" => m.id \in Nat /\ m.for \in Asker
         /\ m.type \in {"didOpen", "didChange"} => m.uri \in Uri /\ m.version \in Nat /\ m.rev \in Nat
         /\ m.type = "result" => m.id \in Nat
<1>1. \A m \in ToClientMessage :
         /\ m.type = "response" => m.id \in Nat /\ m.for \in Asker /\ m.ok \in BOOLEAN
         /\ m.type = "publishDiagnostics" => m.uri \in Uri /\ m.rev \in Nat
         /\ m.type = "serverRequest" => m.id \in Nat
  BY DEF ToClientMessage
<1>2. \A m \in ToServerMessage :
         /\ m.type = "request" => m.id \in Nat /\ m.for \in Asker
         /\ m.type \in {"didOpen", "didChange"} => m.uri \in Uri /\ m.version \in Nat /\ m.rev \in Nat
         /\ m.type = "result" => m.id \in Nat
  BY DEF ToServerMessage
<1> QED BY <1>1, <1>2

\* The variables have their types at first.
LEMMA InitType == Init => TypeOK
<1> SUFFICES ASSUME Init PROVE TypeOK
  OBVIOUS
<1>1. DOMAIN pending \subseteq Nat /\ pending \in [DOMAIN pending -> Asker]
  BY EmptyMapType DEF Init, ClientInit
<1>2. stdin \in Seq(ToServerMessage) /\ stdout \in Seq(ToClientMessage)
  BY DEF Init, ClientInit
<1>3. promise \in [Asker -> {"none", "waiting", "resolved", "failed"}]
      /\ repliedTo \in [Asker -> Asker \cup {NoAsker}]
  BY DEF Init, ClientInit
<1>4. /\ phase \in {"new", "starting", "ready", "failed"}
      /\ host \in {"up", "crashed", "exited"}
      /\ proc \in {"none", "running", "exited"}
      /\ nextId \in Nat \ {0}
  BY DEF Init, ClientInit
<1>5. /\ dead \in BOOLEAN
      /\ openDocs \in [Uri -> Nat]
      /\ diagnostics \in [Uri -> Nat]
  BY DEF Init, ClientInit
<1>6. /\ srvVersion \in [Uri -> Nat]
      /\ srvRev \in [Uri -> Nat]
      /\ asked \subseteq [id : Nat, for : Asker]
      /\ owed \subseteq Nat
      /\ events \in Nat
  BY DEF Init, ServerInit
<1>7. /\ disk \in [Uri -> Nat]
      /\ pc \in [Call -> {"idle", "reading", "read", "asked", "pausing", "returned"}]
      /\ wants \in [Call -> {"query", "diagnostics", "symbols"}]
      /\ uri \in [Call -> Uri]
      /\ since \in [Call -> Nat]
      /\ text \in [Call -> Nat]
  BY DEF Init
<1> QED BY <1>1, <1>2, <1>3, <1>4, <1>6, <1>7, <1>5 DEF TypeOK

\* Start and the shutdown request.
LEMMA StartStopType ==
    ASSUME TypeOK, Start \/ AskToShutDown, UNCHANGED <<serverVars, callVars>>
    PROVE  TypeOK'
<1>1. Initialize \in Asker /\ Shutdown \in Asker
  BY DEF Asker
<1>2. nextId \in Nat
  BY DEF TypeOK
<1>3. CASE Start
  <2>1. RequestMessage(NewId, Initialize) \in ToServerMessage
    BY <1>1, <1>2 DEF RequestMessage, ToServerMessage, NewId
  <2>2. stdin' \in Seq(ToServerMessage)
    BY <1>3, <2>1, PipeType DEF Start, TypeOK
  <2>3. DOMAIN pending' \subseteq Nat /\ pending' \in [DOMAIN pending' -> Asker]
    BY <1>1, <1>2, <1>3, PutType DEF Start, NewId, TypeOK
  <2> QED BY <1>1, <1>2, <1>3, <2>2, <2>3 DEF Start, TypeOK, serverVars, callVars
<1>4. CASE AskToShutDown
  <2>1. CASE dead /\ host' = "exited" /\ UNCHANGED <<nextId, pending, promise, stdin, phase>>
    BY <1>4, <2>1 DEF AskToShutDown, TypeOK, serverVars, callVars
  <2>2. CASE Request(Shutdown, <<>>)
    <3>1. <<>> \in Seq(ToServerMessage)
      OBVIOUS
    <3> QED BY <1>1, <1>4, <2>2, <3>1, RequestType DEF AskToShutDown, TypeOK, serverVars, callVars
  <2> QED BY <1>4, <2>1, <2>2 DEF AskToShutDown
<1> QED BY <1>3, <1>4

\* Timers and the death of the process.
LEMMA SettleType ==
    ASSUME TypeOK, MarkDead \/ \E id \in DOMAIN pending : Timeout(id),
           UNCHANGED <<serverVars, callVars>>
    PROVE  TypeOK'
<1>1. CASE MarkDead
  BY <1>1, RejectType, EmptyMapType DEF MarkDead, TypeOK, serverVars, callVars
<1>2. CASE \E id \in DOMAIN pending : Timeout(id)
  BY <1>2, RejectType, PendingDeleteType DEF Timeout, TypeOK, serverVars, callVars
<1> QED BY <1>1, <1>2

\* #onData and #handleMessage, for each kind of message.
LEMMA OnDataType ==
    ASSUME TypeOK, OnData, UNCHANGED <<serverVars, callVars>>
    PROVE  TypeOK'
<1> DEFINE m == Head(stdout)
<1>1. m \in ToClientMessage /\ stdout' \in Seq(ToClientMessage)
  BY PipeType DEF OnData
<1>2. CASE OnResponse(m)
  <2>1. m.for \in Asker
    BY <1>1, <1>2, MessageFields DEF OnResponse
  <2>2. CASE m.id \in DOMAIN pending
    <3>1. /\ pending[m.id] \in Asker
          /\ DOMAIN pending' \subseteq Nat
          /\ pending' \in [DOMAIN pending' -> Asker]
      BY <1>2, <2>2, PendingDeleteType DEF OnResponse
    <3>2. CASE m.ok /\ Resolve(pending[m.id], m.for)
      BY <1>1, <1>2, <2>1, <3>1, <3>2, ResolveType DEF OnResponse, TypeOK, serverVars, callVars
    <3>3. CASE ~m.ok /\ Reject({pending[m.id]}) /\ UNCHANGED <<repliedTo, stdin>>
      BY <1>1, <1>2, <3>1, <3>3, RejectType DEF OnResponse, TypeOK, serverVars, callVars
    <3> QED BY <1>2, <2>2, <3>2, <3>3 DEF OnResponse
  <2>3. CASE m.id \notin DOMAIN pending
    BY <1>1, <1>2, <2>3 DEF OnResponse, TypeOK, serverVars, callVars
  <2> QED BY <2>2, <2>3
<1>3. CASE OnDiagnostics(m)
  BY <1>1, <1>3, MessageFields DEF OnDiagnostics, TypeOK, serverVars, callVars
<1>4. CASE OnServerRequest(m)
  <2>1. <<ResultMessage(m.id)>> \in Seq(ToServerMessage)
    <3>1. ResultMessage(m.id) \in ToServerMessage
      BY <1>1, <1>4, MessageFields DEF OnServerRequest, ResultMessage, ToServerMessage
    <3> QED BY <3>1
  <2>2. stdin' \in Seq(ToServerMessage) /\ host' \in {"up", "crashed", "exited"}
    BY <1>4, <2>1, SendType DEF OnServerRequest, TypeOK
  <2> QED BY <1>1, <1>4, <2>2 DEF OnServerRequest, TypeOK, serverVars, callVars
<1>5. CASE OnJunk(m)
  BY <1>1, <1>5 DEF OnJunk, TypeOK, serverVars, callVars
<1> QED BY <1>2, <1>3, <1>4, <1>5 DEF OnData

\* What the language server does.
LEMMA ServerType ==
    ASSUME TypeOK, ServerNext, UNCHANGED callVars
    PROVE  TypeOK'
<1>1. CASE Receive
  <2> DEFINE m == Head(stdin)
  <2>1. m \in ToServerMessage /\ stdin' \in Seq(ToServerMessage)
    BY <1>1, PipeType DEF Receive
  <2>2. srvVersion' \in [Uri -> Nat] /\ srvRev' \in [Uri -> Nat]
    <3>1. srvVersion \in [Uri -> Nat] /\ srvRev \in [Uri -> Nat]
      BY DEF TypeOK
    <3> QED BY <1>1, <2>1, <3>1, MessageFields DEF Receive
  <2>3. asked' \subseteq [id : Nat, for : Asker] /\ owed' \subseteq Nat
    <3>1. asked \subseteq [id : Nat, for : Asker] /\ owed \subseteq Nat
      BY DEF TypeOK
    <3>2. CASE m.type = "request"
      <4>1. [id |-> m.id, for |-> m.for] \in [id : Nat, for : Asker]
        BY <2>1, <3>2, MessageFields
      <4> QED BY <1>1, <3>1, <3>2, <4>1 DEF Receive
    <3>3. CASE m.type # "request"
      BY <1>1, <3>1, <3>3 DEF Receive
    <3> QED BY <3>2, <3>3
  <2> QED BY <1>1, <2>1, <2>2, <2>3 DEF Receive, TypeOK, callVars
<1>2. ASSUME NEW q \in asked, Answer(q) PROVE TypeOK'
  <2>1. \A ok \in BOOLEAN : Response(q.id, q.for, ok) \in ToClientMessage
    BY DEF Response, ToClientMessage, TypeOK
  <2> QED BY <1>2, <2>1, PipeType DEF Answer, Say, TypeOK, callVars
<1>3. CASE Push
  <2>1. \A u \in Uri : Published(u, srvRev[u]) \in ToClientMessage
    BY DEF Published, ToClientMessage, TypeOK
  <2>2. /\ ServerRequest(events + 1) \in ToClientMessage
        /\ \A trips \in BOOLEAN : Junk(trips) \in ToClientMessage
    BY DEF ServerRequest, Junk, ToClientMessage, TypeOK
  <2>3. stdout' \in Seq(ToClientMessage)
    BY <1>3, <2>1, <2>2, PipeType DEF Push, Say
  <2>4. owed' \subseteq Nat /\ events' \in Nat
    BY <1>3 DEF Push, TypeOK
  <2> QED BY <1>3, <2>3, <2>4 DEF Push, Say, TypeOK, callVars
<1>4. CASE Die
  BY <1>4 DEF Die, TypeOK, serverVars, callVars
<1> QED BY <1>1, <1>2, <1>3, <1>4 DEF ServerNext

\* What the tool calls do.
LEMMA ToolCallType ==
    ASSUME TypeOK, NEW c \in Call, ToolCall(c)
    PROVE  TypeOK'
<1>1. c \in Asker /\ uri[c] \in Uri /\ text[c] \in Nat
  BY DEF Asker, TypeOK
<1>2. <<SyncMessage(uri[c], text[c])>> \in Seq(ToServerMessage)
      /\ SyncedDocs(uri[c]) \in [Uri -> Nat]
  BY <1>1, SyncMessageType
<1>3. \A label \in {"idle", "reading", "read", "asked", "pausing", "returned"} :
         Goto(c, label) => pc' \in [Call -> {"idle", "reading", "read", "asked", "pausing", "returned"}]
  BY DEF Goto, TypeOK
<1>4. CASE BeginOnFile(c)
  <2>1. pc' \in [Call -> {"idle", "reading", "read", "asked", "pausing", "returned"}]
    BY <1>3, <1>4 DEF BeginOnFile
  <2>2. since' \in [Call -> Nat]
    BY <1>1, <1>4 DEF BeginOnFile, TypeOK
  <2>3. wants' \in [Call -> {"query", "diagnostics", "symbols"}]
    BY <1>4 DEF BeginOnFile, TypeOK
  <2>4. UNCHANGED <<clientVars, serverVars, disk, uri, text>>
    BY <1>4 DEF BeginOnFile
  <2> QED BY <2>1, <2>2, <2>3, <2>4 DEF TypeOK, clientVars, serverVars
<1>5. CASE BeginSymbols(c)
  <2>1. <<>> \in Seq(ToServerMessage)
    OBVIOUS
  <2> QED BY <1>1, <1>3, <1>5, <2>1, RequestType DEF BeginSymbols, TypeOK, serverVars
<1>6. CASE Read(c)
  BY <1>1, <1>3, <1>6 DEF Read, TypeOK, clientVars, serverVars
<1>7. CASE SyncDead(c)
  BY <1>2, <1>3, <1>7 DEF SyncDead, TypeOK, serverVars
<1>8. CASE SyncAndAsk(c)
  BY <1>1, <1>2, <1>3, <1>8, RequestType DEF SyncAndAsk, TypeOK, serverVars
<1>9. CASE SyncAndPause(c)
  BY <1>2, <1>3, <1>9, SendType DEF SyncAndPause, TypeOK, serverVars
<1>10. CASE Collect(c)
  BY <1>3, <1>10 DEF Collect, TypeOK, clientVars, serverVars
<1> QED BY <1>4, <1>5, <1>6, <1>7, <1>8, <1>9, <1>10 DEF ToolCall

\* Every step keeps the types.
LEMMA NextType == TypeOK /\ [Next]_vars => TypeOK'
<1> SUFFICES ASSUME TypeOK, [Next]_vars PROVE TypeOK'
  OBVIOUS
<1>1. CASE ClientNext /\ UNCHANGED <<serverVars, callVars>>
  BY <1>1, StartStopType, SettleType, OnDataType DEF ClientNext
<1>2. CASE ServerNext /\ UNCHANGED callVars
  BY <1>2, ServerType
<1>3. CASE \E c \in Call : ToolCall(c)
  BY <1>3, ToolCallType
<1>4. ASSUME NEW u \in Uri, Edit(u) PROVE TypeOK'
  <2>1. disk' \in [Uri -> Nat] /\ events' \in Nat
    BY <1>4 DEF Edit, TypeOK
  <2>2. /\ UNCHANGED <<phase, host, proc, dead, nextId, pending, promise, repliedTo,
                       openDocs, diagnostics, stdin, stdout>>
        /\ UNCHANGED <<srvVersion, srvRev, asked, owed, pc, wants, uri, since, text>>
    BY <1>4 DEF Edit, clientVars
  <2> QED BY <2>1, <2>2 DEF TypeOK
<1>5. CASE UNCHANGED vars
  BY <1>5 DEF vars, clientVars, serverVars, callVars, TypeOK
<1> QED BY <1>1, <1>2, <1>3, <1>4, <1>5 DEF Next

\* The variables always have their types.
THEOREM TypeCorrect == Spec => []TypeOK
  BY InitType, NextType, PTL DEF Spec

-----------------------------------------------------------------------------
(***************************************************************************)
(* The correlation of requests and answers.  CorrelationInv is inductive;   *)
(* the lemmas follow what a step can do to #pending: add an entry under a   *)
(* fresh id, take one out as its promise settles, or be emptied for good.   *)
(***************************************************************************)
Settled == {"resolved", "failed"}

\* The map and the counter only change in ways that keep old ids honest: an
\* id handed out before this step still stands for the same asker, or for none.
Monotone ==
    /\ nextId' >= nextId
    /\ \A i \in DOMAIN pending' :
         i < nextId => i \in DOMAIN pending /\ pending'[i] = pending[i]

\* So the messages belong after a step that adds only messages that do.
LEMMA MessagesStay ==
    ASSUME TypeOK, TypeOK', Monotone, MessagesBelong,
           \A i \in DOMAIN stdin' : stdin'[i].type = "request" =>
              \/ \E j \in DOMAIN stdin : stdin'[i] = stdin[j]
              \/ Belongs(stdin[i].id, stdin[i].for)',
           \A q \in asked' : q \in asked \/ Belongs(q.id, q.for)',
           \A i \in DOMAIN stdout' : stdout'[i].type = "response" =>
              \/ \E j \in DOMAIN stdout : stdout'[i] = stdout[j]
              \/ Belongs(stdout[i].id, stdout[i].for)'
    PROVE  MessagesBelong'
<1>1. ASSUME NEW i \in DOMAIN stdin', stdin'[i].type = "request"
      PROVE  Belongs(stdin[i].id, stdin[i].for)'
  <2>1. CASE \E j \in DOMAIN stdin : stdin'[i] = stdin[j]
    <3>1. PICK j \in DOMAIN stdin : stdin'[i] = stdin[j]
      BY <2>1
    <3>2. stdin[j] \in ToServerMessage /\ stdin[j].type = "request"
      BY <1>1, <3>1 DEF TypeOK
    <3>3. stdin[j].id \in Nat /\ Belongs(stdin[j].id, stdin[j].for)
      BY <3>2, MessageFields DEF MessagesBelong
    <3>4. nextId \in Nat /\ nextId' \in Nat
      BY DEF TypeOK
    <3> QED BY <3>1, <3>3, <3>4 DEF Belongs, Monotone
  <2> QED BY <1>1, <2>1
<1>2. ASSUME NEW q \in asked'
      PROVE  Belongs(q.id, q.for)'
  <2>1. CASE q \in asked
    <3>1. q.id \in Nat /\ Belongs(q.id, q.for)
      BY <2>1 DEF TypeOK, MessagesBelong
    <3>2. nextId \in Nat /\ nextId' \in Nat
      BY DEF TypeOK
    <3> QED BY <3>1, <3>2 DEF Belongs, Monotone
  <2> QED BY <1>2, <2>1
<1>3. ASSUME NEW i \in DOMAIN stdout', stdout'[i].type = "response"
      PROVE  Belongs(stdout[i].id, stdout[i].for)'
  <2>1. CASE \E j \in DOMAIN stdout : stdout'[i] = stdout[j]
    <3>1. PICK j \in DOMAIN stdout : stdout'[i] = stdout[j]
      BY <2>1
    <3>2. stdout[j] \in ToClientMessage /\ stdout[j].type = "response"
      BY <1>3, <3>1 DEF TypeOK
    <3>3. stdout[j].id \in Nat /\ Belongs(stdout[j].id, stdout[j].for)
      BY <3>2, MessageFields DEF MessagesBelong
    <3>4. nextId \in Nat /\ nextId' \in Nat
      BY DEF TypeOK
    <3> QED BY <3>1, <3>3, <3>4 DEF Belongs, Monotone
  <2> QED BY <1>3, <2>1
<1> QED BY <1>1, <1>2, <1>3 DEF MessagesBelong

\* Writing messages that are no requests adds no request to the pipe.
LEMMA SendAddsNoRequest ==
    ASSUME TypeOK, NEW msgs \in Seq(ToServerMessage),
           \A i \in DOMAIN msgs : msgs[i].type # "request",
           Send(msgs)
    PROVE  \A i \in DOMAIN stdin' : stdin'[i].type = "request" =>
              \E j \in DOMAIN stdin : stdin'[i] = stdin[j]
<1>1. stdin \in Seq(ToServerMessage)
  BY DEF TypeOK
<1>2. CASE stdin' = stdin \o msgs
  <2>1. \A i \in DOMAIN stdin' :
          \/ i \in DOMAIN stdin /\ stdin'[i] = stdin[i]
          \/ i - Len(stdin) \in DOMAIN msgs /\ stdin'[i] = msgs[i - Len(stdin)]
    BY <1>1, <1>2
  <2> QED BY <2>1
<1>3. CASE stdin' = stdin
  BY <1>3
<1> QED BY <1>2, <1>3 DEF Send

\* The facts about the map and the promises that do not mention messages.
MapInv ==
    /\ PendingIdsAreUsed
    /\ OneEntryEach
    /\ DeadMeansNothingPending
    /\ UnsettledIsPending

\* Taking out the entry of a promise that settles.
LEMMA SettleKeepsMap ==
    ASSUME CorrelationInv, TypeOK', NEW id \in DOMAIN pending,
           pending' = Delete(pending, id), nextId' = nextId, dead' = dead,
           NEW result \in Settled,
           promise' = [promise EXCEPT ![pending[id]] = result]
    PROVE  MapInv' /\ Monotone
<1>1. /\ nextId \in Nat
      /\ DOMAIN pending \subseteq Nat
      /\ pending \in [DOMAIN pending -> Asker]
      /\ promise \in [Asker -> {"none", "waiting", "resolved", "failed"}]
  BY DEF CorrelationInv, TypeOK
<1>2. /\ DOMAIN pending' = DOMAIN pending \ {id}
      /\ \A i \in DOMAIN pending \ {id} : pending'[i] = pending[i]
  BY DEF Delete
<1>3. PendingIdsAreUsed' /\ OneEntryEach' /\ Monotone
  BY <1>1, <1>2 DEF CorrelationInv, PendingIdsAreUsed, OneEntryEach, Monotone
<1>4. ~dead
  <2>1. DOMAIN EmptyMap = {}
    BY EmptyMapType
  <2> QED BY <2>1 DEF CorrelationInv, DeadMeansNothingPending
<1>5. UnsettledIsPending'
  <2> SUFFICES ASSUME NEW k \in Asker
               PROVE  promise'[k] = "waiting" <=> \E i \in DOMAIN pending' : pending'[i] = k
    BY DEF UnsettledIsPending, Waiting
  <2>1. promise[k] = "waiting" <=> \E i \in DOMAIN pending : pending[i] = k
    BY DEF CorrelationInv, UnsettledIsPending, Waiting
  <2>2. CASE k = pending[id]
    BY <1>1, <1>2, <2>2 DEF CorrelationInv, OneEntryEach, Settled
  <2>3. CASE k # pending[id]
    BY <1>1, <1>2, <2>1, <2>3
  <2> QED BY <2>2, <2>3
<1> QED BY <1>3, <1>4, <1>5 DEF MapInv, DeadMeansNothingPending

\* A new entry under a fresh id, for an asker that has not asked.
LEMMA PutKeepsMap ==
    ASSUME CorrelationInv, TypeOK', NEW k \in Asker, promise[k] = "none",
           ~dead, dead' = dead, nextId' = nextId + 1,
           pending' = Put(pending, nextId, k),
           promise' = [promise EXCEPT ![k] = "waiting"]
    PROVE  MapInv' /\ Monotone
<1>1. /\ nextId \in Nat
      /\ DOMAIN pending \subseteq Nat
      /\ pending \in [DOMAIN pending -> Asker]
      /\ promise \in [Asker -> {"none", "waiting", "resolved", "failed"}]
  BY DEF CorrelationInv, TypeOK
<1>2. nextId \notin DOMAIN pending
  BY <1>1 DEF CorrelationInv, PendingIdsAreUsed
<1>3. /\ DOMAIN pending' = DOMAIN pending \cup {nextId}
      /\ pending'[nextId] = k
      /\ \A i \in DOMAIN pending : pending'[i] = pending[i]
  BY <1>1, <1>2 DEF Put
<1>4. \A i \in DOMAIN pending : pending[i] # k
  BY <1>1 DEF CorrelationInv, UnsettledIsPending, Waiting
<1>5. PendingIdsAreUsed' /\ OneEntryEach' /\ Monotone
  BY <1>1, <1>2, <1>3, <1>4 DEF CorrelationInv, PendingIdsAreUsed, OneEntryEach, Monotone
<1>6. UnsettledIsPending'
  <2> SUFFICES ASSUME NEW j \in Asker
               PROVE  promise'[j] = "waiting" <=> \E i \in DOMAIN pending' : pending'[i] = j
    BY DEF UnsettledIsPending, Waiting
  <2>1. promise[j] = "waiting" <=> \E i \in DOMAIN pending : pending[i] = j
    BY DEF CorrelationInv, UnsettledIsPending, Waiting
  <2> QED BY <1>1, <1>2, <1>3, <2>1
<1> QED BY <1>5, <1>6 DEF MapInv, DeadMeansNothingPending

\* request() of an asker that has not asked: a new entry, or a failure at
\* once and the map as it was.
LEMMA RequestKeepsMap ==
    ASSUME CorrelationInv, TypeOK', NEW k \in Asker, promise[k] = "none",
           NEW before, Request(k, before), dead' = dead
    PROVE  MapInv' /\ Monotone
<1>1. /\ nextId \in Nat
      /\ DOMAIN pending \subseteq Nat
      /\ pending \in [DOMAIN pending -> Asker]
      /\ promise \in [Asker -> {"none", "waiting", "resolved", "failed"}]
  BY DEF CorrelationInv, TypeOK
<1>2. nextId' = nextId + 1 /\ nextId \notin DOMAIN pending
  BY <1>1 DEF Request, CorrelationInv, PendingIdsAreUsed
<1>3. CASE /\ ~dead
           /\ pending' = Put(pending, nextId, k)
           /\ promise' = [promise EXCEPT ![k] = "waiting"]
  BY <1>2, <1>3, PutKeepsMap
<1>4. CASE /\ dead
           /\ pending' = PendingAfterFailedSend(nextId, k)
           /\ Reject({k})
  <2>1. pending' = pending
    BY <1>1, <1>2, <1>4, FailedSend DEF CorrelationInv
  <2>2. PendingIdsAreUsed' /\ OneEntryEach' /\ Monotone
    BY <1>1, <1>2, <2>1 DEF CorrelationInv, PendingIdsAreUsed, OneEntryEach, Monotone
  <2>3. UnsettledIsPending'
    BY <1>1, <1>4, <2>1 DEF CorrelationInv, UnsettledIsPending, Waiting, Reject
  <2> QED BY <1>4, <2>1, <2>2, <2>3 DEF MapInv, DeadMeansNothingPending, CorrelationInv
<1> QED BY <1>3, <1>4 DEF Request, NewId, Send

\* Death: the map is emptied and everybody in it is told.
LEMMA MarkDeadKeepsMap ==
    ASSUME CorrelationInv, TypeOK', MarkDead
    PROVE  MapInv' /\ Monotone
<1>1. /\ nextId \in Nat
      /\ promise \in [Asker -> {"none", "waiting", "resolved", "failed"}]
  BY DEF CorrelationInv, TypeOK
<1>2. pending' = EmptyMap /\ DOMAIN pending' = {} /\ nextId' = nextId
  BY EmptyMapType DEF MarkDead
<1>3. UnsettledIsPending'
  BY <1>1, <1>2 DEF MarkDead, Reject, RejectedByDeath, UnsettledIsPending, Waiting, CorrelationInv
<1> QED BY <1>1, <1>2, <1>3
        DEF MapInv, Monotone, PendingIdsAreUsed, OneEntryEach, DeadMeansNothingPending

\* A step that leaves the map, the counter and the promises alone.
LEMMA QuietKeepsMap ==
    ASSUME CorrelationInv, UNCHANGED <<pending, nextId, promise, dead>>
    PROVE  MapInv' /\ Monotone
<1>1. nextId \in Nat
  BY DEF CorrelationInv, TypeOK
<1> QED BY <1>1 DEF CorrelationInv, MapInv, Monotone, PendingIdsAreUsed, OneEntryEach,
                    DeadMeansNothingPending, UnsettledIsPending, Waiting

\* The pipe after request(): the notifications, then a request under an id
\* that the map holds for the asker.
LEMMA RequestKeepsMessages ==
    ASSUME CorrelationInv, TypeOK', NEW k \in Asker, promise[k] = "none",
           NEW before \in Seq(ToServerMessage),
           \A i \in DOMAIN before : before[i].type # "request",
           Request(k, before), dead' = dead, UNCHANGED <<asked, stdout>>
    PROVE  MessagesBelong'
<1>1. MapInv' /\ Monotone
  BY RequestKeepsMap
<1>2. /\ nextId \in Nat
      /\ nextId' = nextId + 1
      /\ stdin \in Seq(ToServerMessage)
  BY DEF CorrelationInv, TypeOK, Request
<1>3. \A i \in DOMAIN stdin' : stdin'[i].type = "request" =>
          \/ \E j \in DOMAIN stdin : stdin'[i] = stdin[j]
          \/ Belongs(stdin[i].id, stdin[i].for)'
  <2>1. CASE stdin' = stdin
    BY <2>1
  <2>2. CASE /\ stdin' = stdin \o (before \o <<RequestMessage(nextId, k)>>)
             /\ pending' = Put(pending, nextId, k)
    <3> DEFINE r == RequestMessage(nextId, k)
    <3>1. \A i \in DOMAIN stdin' :
            \/ i \in DOMAIN stdin /\ stdin'[i] = stdin[i]
            \/ i - Len(stdin) \in DOMAIN before /\ stdin'[i] = before[i - Len(stdin)]
            \/ stdin'[i] = r
      <4>1. r \in ToServerMessage
        BY <1>2 DEF RequestMessage, ToServerMessage
      <4> HIDE DEF r
      <4> QED BY <1>2, <2>2, <4>1 DEF r
    <3>2. r.id = nextId /\ r.for = k
      BY DEF RequestMessage
    <3>3. pending'[nextId] = k
      BY <2>2 DEF Put
    <3> QED BY <1>2, <3>1, <3>2, <3>3 DEF Belongs
  <2> QED BY <2>1, <2>2 DEF Request, Send, NewId
<1> QED BY <1>1, <1>3, MessagesStay DEF CorrelationInv

-----------------------------------------------------------------------------
(***************************************************************************)
(* One lemma for each action: the invariant after it.                      *)
(***************************************************************************)
\* The invariant holds at first.
LEMMA InitCorrelation == Init => CorrelationInv
<1> SUFFICES ASSUME Init PROVE CorrelationInv
  OBVIOUS
<1>1. TypeOK
  BY InitType
<1>2. pending = EmptyMap /\ DOMAIN pending = {}
  BY EmptyMapType DEF Init, ClientInit
<1>3. /\ phase = "new" /\ proc = "none" /\ dead = FALSE
      /\ promise = [k \in Asker |-> "none"]
      /\ stdin = <<>> /\ stdout = <<>> /\ asked = {}
  BY DEF Init, ClientInit, ServerInit
<1>4. UnsettledIsPending
  BY <1>2, <1>3 DEF UnsettledIsPending, Waiting
<1>5. DeathFollowsExit /\ DeadMeansNothingPending /\ AnswersReachTheirAsker
  BY <1>2, <1>3 DEF DeathFollowsExit, DeadMeansNothingPending, AnswersReachTheirAsker
<1>6. NotYetAsked
  BY <1>3 DEF NotYetAsked, Asker
<1>7. PendingIdsAreUsed /\ OneEntryEach
  BY <1>2 DEF PendingIdsAreUsed, OneEntryEach
<1>8. MessagesBelong
  BY <1>3 DEF MessagesBelong
<1> QED BY <1>1, <1>4, <1>5, <1>6, <1>7, <1>8 DEF CorrelationInv

\* start(): the first entry, and the first message.
LEMMA StartCorrelation ==
    ASSUME CorrelationInv, TypeOK', Start, UNCHANGED <<serverVars, callVars>>
    PROVE  CorrelationInv'
<1>1. /\ Initialize \in Asker
      /\ promise[Initialize] = "none"
      /\ nextId \in Nat
      /\ stdin \in Seq(ToServerMessage)
      /\ promise \in [Asker -> {"none", "waiting", "resolved", "failed"}]
  BY DEF Start, CorrelationInv, NotYetAsked, TypeOK, Asker
<1>2. ~dead
  BY DEF Start, CorrelationInv, DeathFollowsExit
<1>3. MapInv' /\ Monotone
  BY <1>1, <1>2, PutKeepsMap DEF Start, NewId
<1>4. MessagesBelong'
  <2> DEFINE r == RequestMessage(nextId, Initialize)
  <2>1. \A i \in DOMAIN stdin' : stdin'[i] = r \/ \E j \in DOMAIN stdin : stdin'[i] = stdin[j]
    <3> HIDE DEF r
    <3>1. CASE stdin' = stdin
      BY <3>1
    <3>2. CASE stdin' = Append(stdin, r)
      BY <1>1, <3>2
    <3> QED BY <3>1, <3>2 DEF Start, NewId, r
  <2>2. r.id = nextId /\ r.for = Initialize /\ nextId' = nextId + 1 /\ pending'[nextId] = Initialize
    BY DEF RequestMessage, Start, Put, NewId
  <2>3. UNCHANGED <<asked, stdout>>
    BY DEF Start, serverVars
  <2> QED BY <1>1, <1>3, <2>1, <2>2, <2>3, MessagesStay DEF CorrelationInv, Belongs
<1>5. DeathFollowsExit'
  BY <1>2 DEF Start, DeathFollowsExit
<1>6. NotYetAsked' /\ AnswersReachTheirAsker'
  BY <1>1, AskerAssumption
     DEF Start, callVars, NotYetAsked, AnswersReachTheirAsker, CorrelationInv, Asker
<1> QED BY <1>3, <1>4, <1>5, <1>6 DEF CorrelationInv, MapInv

\* shutdown(): one more request, or nothing on a dead object.
LEMMA ShutdownCorrelation ==
    ASSUME CorrelationInv, TypeOK', AskToShutDown, UNCHANGED <<serverVars, callVars>>
    PROVE  CorrelationInv'
<1>1. /\ Shutdown \in Asker
      /\ promise[Shutdown] = "none"
      /\ promise \in [Asker -> {"none", "waiting", "resolved", "failed"}]
      /\ phase = "ready"
      /\ UNCHANGED <<proc, dead, repliedTo, stdout, asked, pc>>
  BY DEF AskToShutDown, ClientReady, CorrelationInv, TypeOK, Asker, serverVars, callVars
<1>2. CASE dead /\ UNCHANGED <<nextId, pending, promise, stdin, phase>>
  <2>1. MapInv' /\ Monotone
    BY <1>1, <1>2, QuietKeepsMap
  <2>2. MessagesBelong'
    BY <1>1, <1>2, <2>1, MessagesStay DEF CorrelationInv
  <2> QED BY <1>1, <1>2, <2>1, <2>2
          DEF CorrelationInv, MapInv, DeathFollowsExit, NotYetAsked, AnswersReachTheirAsker
<1>3. CASE Request(Shutdown, <<>>)
  <2>1. MapInv' /\ MessagesBelong'
    <3>1. <<>> \in Seq(ToServerMessage) /\ \A i \in DOMAIN <<>> : <<>>[i].type # "request"
      OBVIOUS
    <3> QED BY <1>1, <1>3, <3>1, RequestKeepsMap, RequestKeepsMessages
  <2>2. /\ \A k \in Asker \ {Shutdown} : promise'[k] = promise[k]
        /\ promise'[Shutdown] # "resolved"
        /\ phase' = phase
    BY <1>1, <1>3, AskerAssumption DEF Request, Reject
  <2>3. DeathFollowsExit' /\ NotYetAsked' /\ AnswersReachTheirAsker'
    BY <1>1, <2>2, AskerAssumption
       DEF DeathFollowsExit, NotYetAsked, AnswersReachTheirAsker, CorrelationInv, Asker
  <2> QED BY <2>1, <2>3 DEF CorrelationInv, MapInv
<1> QED BY <1>2, <1>3 DEF AskToShutDown

\* A timer that fires: its promise fails.
LEMMA TimeoutCorrelation ==
    ASSUME CorrelationInv, TypeOK', NEW id \in DOMAIN pending, Timeout(id),
           UNCHANGED <<serverVars, callVars>>
    PROVE  CorrelationInv'
<1>1. /\ pending[id] \in Asker
      /\ promise \in [Asker -> {"none", "waiting", "resolved", "failed"}]
      /\ pending' = Delete(pending, id)
      /\ UNCHANGED <<proc, dead, nextId, repliedTo, stdin, stdout, asked, pc>>
  BY PendingDeleteType DEF Timeout, CorrelationInv, TypeOK, serverVars, callVars
<1>2. promise' = [promise EXCEPT ![pending[id]] = "failed"]
  BY <1>1 DEF Timeout, Reject
<1>3. promise[pending[id]] = "waiting"
  BY <1>1 DEF CorrelationInv, UnsettledIsPending, Waiting
<1>4. MapInv' /\ Monotone
  BY <1>1, <1>2, SettleKeepsMap DEF Settled
<1>5. MessagesBelong'
  BY <1>1, <1>4, MessagesStay DEF CorrelationInv
<1>6. DeathFollowsExit'
  BY <1>1 DEF Timeout, Reject, CorrelationInv, DeathFollowsExit
<1>7. AnswersReachTheirAsker'
  BY <1>1, <1>2 DEF CorrelationInv, AnswersReachTheirAsker
<1>8. NotYetAsked'
  BY <1>1, <1>2, <1>3 DEF Timeout, Reject, CorrelationInv, NotYetAsked, Asker
<1> QED BY <1>4, <1>5, <1>6, <1>7, <1>8 DEF CorrelationInv, MapInv

\* The exit event: every promise in the map fails.
LEMMA MarkDeadCorrelation ==
    ASSUME CorrelationInv, TypeOK', MarkDead, UNCHANGED <<serverVars, callVars>>
    PROVE  CorrelationInv'
<1>1. /\ promise \in [Asker -> {"none", "waiting", "resolved", "failed"}]
      /\ UNCHANGED <<proc, repliedTo, stdin, stdout, asked, pc>>
  BY DEF MarkDead, CorrelationInv, TypeOK, serverVars, callVars
<1>2. MapInv' /\ Monotone
  BY MarkDeadKeepsMap
<1>3. MessagesBelong'
  BY <1>1, <1>2, MessagesStay DEF CorrelationInv
<1>4. \A k \in Asker : promise[k] # "waiting" => promise'[k] = promise[k]
  BY DEF MarkDead, Reject, RejectedByDeath, CorrelationInv, UnsettledIsPending
<1>5. \A k \in Asker : promise'[k] = promise[k] \/ promise'[k] = "failed"
  BY DEF MarkDead, Reject
<1>6. DeathFollowsExit'
  BY <1>1 DEF MarkDead, Reject, CorrelationInv, DeathFollowsExit
<1>7. NotYetAsked' /\ AnswersReachTheirAsker'
  BY <1>1, <1>4, <1>5
     DEF MarkDead, Reject, CorrelationInv, NotYetAsked, AnswersReachTheirAsker, Asker
<1> QED BY <1>2, <1>3, <1>6, <1>7 DEF CorrelationInv, MapInv

\* An answer: if its id is in the map, the asker it was written for is there.
LEMMA OnResponseCorrelation ==
    ASSUME CorrelationInv, TypeOK', stdout # <<>>, stdout' = Tail(stdout),
           OnResponse(Head(stdout)), UNCHANGED <<serverVars, callVars>>
    PROVE  CorrelationInv'
<1> DEFINE m == Head(stdout)
<1>1. /\ m \in ToClientMessage /\ m.type = "response" /\ m = stdout[1] /\ 1 \in DOMAIN stdout
      /\ promise \in [Asker -> {"none", "waiting", "resolved", "failed"}]
      /\ repliedTo \in [Asker -> Asker \cup {NoAsker}]
      /\ stdin \in Seq(ToServerMessage)
      /\ stdout \in Seq(ToClientMessage)
      /\ UNCHANGED <<proc, dead, nextId, asked, pc>>
  BY PipeType DEF OnResponse, CorrelationInv, TypeOK, serverVars, callVars
<1>2. Belongs(m.id, m.for) /\ m.for \in Asker
  BY <1>1, MessageFields DEF CorrelationInv, MessagesBelong
<1>3. \A i \in DOMAIN stdout' : \E j \in DOMAIN stdout : stdout'[i] = stdout[j]
  <2>1. \A i \in DOMAIN stdout' : i + 1 \in DOMAIN stdout /\ stdout'[i] = stdout[i + 1]
    BY <1>1
  <2> QED BY <2>1
<1>4. CASE m.id \notin DOMAIN pending
  <2>1. UNCHANGED <<phase, host, pending, promise, repliedTo, stdin>>
    BY <1>4 DEF OnResponse
  <2>2. MapInv' /\ Monotone
    BY <1>1, <2>1, QuietKeepsMap
  <2>3. MessagesBelong'
    BY <1>1, <1>3, <2>1, <2>2, MessagesStay DEF CorrelationInv
  <2> QED BY <1>1, <2>1, <2>2, <2>3
          DEF CorrelationInv, MapInv, DeathFollowsExit, NotYetAsked, AnswersReachTheirAsker
<1>5. CASE m.id \in DOMAIN pending
  <2> DEFINE k == pending[m.id]
  <2>1. k \in Asker /\ pending' = Delete(pending, m.id) /\ k = m.for
    BY <1>2, <1>5, PendingDeleteType DEF OnResponse, CorrelationInv, Belongs
  <2>2. promise[k] = "waiting"
    BY <1>5, <2>1 DEF CorrelationInv, UnsettledIsPending, Waiting
  <2>3. PICK result \in Settled :
          /\ promise' = [promise EXCEPT ![k] = result]
          /\ repliedTo' = IF result = "resolved" THEN [repliedTo EXCEPT ![k] = m.for] ELSE repliedTo
    BY <1>1, <1>5, <2>1 DEF OnResponse, Resolve, Reject, Settled
  <2>4. MapInv' /\ Monotone
    BY <1>1, <1>5, <2>1, <2>3, SettleKeepsMap
  <2>5. \A i \in DOMAIN stdin' : stdin'[i].type = "request" =>
           \E j \in DOMAIN stdin : stdin'[i] = stdin[j]
    <3>1. \A method \in {"initialized", "exit"} :
             Notification(method) \in ToServerMessage /\ Notification(method).type # "request"
      BY DEF Notification, ToServerMessage
    <3>2. CASE Send(<<Notification("initialized")>>)
      <4>1. /\ <<Notification("initialized")>> \in Seq(ToServerMessage)
            /\ \A i \in DOMAIN <<Notification("initialized")>> :
                  <<Notification("initialized")>>[i].type # "request"
        BY <3>1
      <4> QED BY <3>2, <4>1, SendAddsNoRequest DEF CorrelationInv
    <3>3. CASE stdin' = Append(stdin, Notification("exit"))
      <4> DEFINE x == Notification("exit")
      <4>1. x \in ToServerMessage /\ x.type # "request"
        BY <3>1
      <4> HIDE DEF x
      <4>2. stdin' = Append(stdin, x)
        BY <3>3 DEF x
      <4> QED BY <1>1, <4>1, <4>2
    <3>4. CASE stdin' = stdin
      BY <3>4
    <3> QED BY <1>5, <3>2, <3>3, <3>4 DEF OnResponse, Resolve
  <2>6. MessagesBelong'
    BY <1>1, <1>3, <2>4, <2>5, MessagesStay DEF CorrelationInv
  <2>7. AnswersReachTheirAsker'
    BY <1>1, <2>1, <2>3 DEF CorrelationInv, AnswersReachTheirAsker
  <2>8. phase # "new" \/ k # Initialize
    BY <2>2 DEF CorrelationInv, NotYetAsked
  <2>9. phase' = "new" => phase = "new"
    BY <1>5 DEF OnResponse, Resolve, Reject
  <2>10. DeathFollowsExit'
    BY <1>1, <2>9 DEF CorrelationInv, DeathFollowsExit
  <2>11. NotYetAsked'
    BY <1>1, <2>1, <2>2, <2>3, <2>9 DEF CorrelationInv, NotYetAsked, Asker
  <2> QED BY <2>4, <2>6, <2>7, <2>10, <2>11 DEF CorrelationInv, MapInv
<1> QED BY <1>4, <1>5

\* A step about which the map, the promises and the phase do not care, and
\* which puts no request or answer into the pipes.
LEMMA QuietCorrelation ==
    ASSUME CorrelationInv, TypeOK',
           UNCHANGED <<phase, dead, nextId, pending, promise, repliedTo>>,
           proc' = proc \/ proc = "running",
           \A c \in Call : pc[c] = "asked" <=> pc'[c] = "asked",
           \A i \in DOMAIN stdin' : stdin'[i].type = "request" =>
              \E j \in DOMAIN stdin : stdin'[i] = stdin[j],
           \A q \in asked' : q \in asked \/ Belongs(q.id, q.for),
           \A i \in DOMAIN stdout' : stdout'[i].type = "response" =>
              \/ \E j \in DOMAIN stdout : stdout'[i] = stdout[j]
              \/ Belongs(stdout'[i].id, stdout'[i].for)
    PROVE  CorrelationInv'
<1>1. MapInv' /\ Monotone
  BY QuietKeepsMap
<1>2. MessagesBelong'
  BY <1>1, MessagesStay DEF CorrelationInv, Belongs
<1>3. DeathFollowsExit' /\ NotYetAsked' /\ AnswersReachTheirAsker'
  BY DEF CorrelationInv, DeathFollowsExit, NotYetAsked, AnswersReachTheirAsker
<1> QED BY <1>1, <1>2, <1>3 DEF CorrelationInv, MapInv

\* #handleMessage: only a response touches the map.
LEMMA OnDataCorrelation ==
    ASSUME CorrelationInv, TypeOK', OnData, UNCHANGED <<serverVars, callVars>>
    PROVE  CorrelationInv'
<1> DEFINE m == Head(stdout)
<1>1. stdout # <<>> /\ stdout' = Tail(stdout) /\ m \in ToClientMessage
  BY PipeType DEF OnData, CorrelationInv
<1>2. \A i \in DOMAIN stdout' : \E j \in DOMAIN stdout : stdout'[i] = stdout[j]
  <2>1. stdout \in Seq(ToClientMessage)
    BY DEF CorrelationInv, TypeOK
  <2>2. \A i \in DOMAIN stdout' : i + 1 \in DOMAIN stdout /\ stdout'[i] = stdout[i + 1]
    BY <1>1, <2>1
  <2> QED BY <2>2
<1>3. UNCHANGED <<asked, pc>>
  BY DEF serverVars, callVars
<1>4. CASE OnResponse(m)
  BY <1>1, <1>4, OnResponseCorrelation
<1>5. CASE OnDiagnostics(m)
  BY <1>2, <1>3, <1>5, QuietCorrelation DEF OnDiagnostics
<1>6. CASE OnServerRequest(m)
  <2>1. \A i \in DOMAIN stdin' : stdin'[i].type = "request" =>
           \E j \in DOMAIN stdin : stdin'[i] = stdin[j]
    <3>1. CASE Send(<<ResultMessage(m.id)>>)
      <4>1. ResultMessage(m.id) \in ToServerMessage /\ ResultMessage(m.id).type # "request"
        BY <1>1, <1>6, MessageFields DEF OnServerRequest, ResultMessage, ToServerMessage
      <4>2. /\ <<ResultMessage(m.id)>> \in Seq(ToServerMessage)
            /\ \A i \in DOMAIN <<ResultMessage(m.id)>> : <<ResultMessage(m.id)>>[i].type # "request"
        BY <4>1
      <4> QED BY <3>1, <4>2, SendAddsNoRequest DEF CorrelationInv
    <3>2. CASE stdin' = stdin
      BY <3>2
    <3> QED BY <1>6, <3>1, <3>2 DEF OnServerRequest
  <2> QED BY <1>2, <1>3, <1>6, <2>1, QuietCorrelation DEF OnServerRequest
<1>7. CASE OnJunk(m)
  BY <1>2, <1>3, <1>7, QuietCorrelation DEF OnJunk
<1> QED BY <1>4, <1>5, <1>6, <1>7 DEF OnData

\* The language server only answers what it was asked.
LEMMA ServerCorrelation ==
    ASSUME CorrelationInv, TypeOK', ServerNext, UNCHANGED callVars
    PROVE  CorrelationInv'
<1>1. /\ stdin \in Seq(ToServerMessage)
      /\ stdout \in Seq(ToClientMessage)
      /\ UNCHANGED pc
  BY DEF CorrelationInv, TypeOK, callVars
<1>2. CASE Receive
  <2>1. \A i \in DOMAIN stdin' : \E j \in DOMAIN stdin : stdin'[i] = stdin[j]
    <3>1. \A i \in DOMAIN stdin' : i + 1 \in DOMAIN stdin /\ stdin'[i] = stdin[i + 1]
      BY <1>1, <1>2 DEF Receive
    <3> QED BY <3>1
  <2>2. \A q \in asked' : q \in asked \/ Belongs(q.id, q.for)
    <3>1. Head(stdin) = stdin[1] /\ 1 \in DOMAIN stdin
      BY <1>1, <1>2 DEF Receive
    <3>2. stdin[1].type = "request" => Belongs(stdin[1].id, stdin[1].for)
      BY <3>1 DEF CorrelationInv, MessagesBelong
    <3>3. CASE stdin[1].type = "request"
      <4>1. asked' = asked \cup {[id |-> stdin[1].id, for |-> stdin[1].for]}
        BY <1>2, <3>1, <3>3 DEF Receive
      <4> QED BY <3>2, <3>3, <4>1
    <3>4. CASE stdin[1].type # "request"
      <4>1. asked' = asked
        BY <1>2, <3>1, <3>4 DEF Receive
      <4> QED BY <4>1
    <3> QED BY <3>3, <3>4
  <2>3. UNCHANGED <<phase, proc, dead, nextId, pending, promise, repliedTo, stdout>>
    BY <1>2 DEF Receive
  <2> QED BY <1>1, <2>1, <2>2, <2>3, QuietCorrelation
<1>3. ASSUME NEW q \in asked, Answer(q) PROVE CorrelationInv'
  <2>1. PICK ok \in BOOLEAN : stdout' = Append(stdout, Response(q.id, q.for, ok))
    BY <1>3 DEF Answer, Say
  <2>2. Belongs(q.id, q.for)
    BY DEF CorrelationInv, MessagesBelong
  <2>3. \A i \in DOMAIN stdout' : stdout'[i].type = "response" =>
           \/ \E j \in DOMAIN stdout : stdout'[i] = stdout[j]
           \/ Belongs(stdout'[i].id, stdout'[i].for)
    <3> DEFINE r == Response(q.id, q.for, ok)
    <3>1. r.id = q.id /\ r.for = q.for
      BY DEF Response
    <3> HIDE DEF r
    <3>2. stdout' = Append(stdout, r)
      BY <2>1 DEF r
    <3>3. \A i \in DOMAIN stdout' : stdout'[i] = r \/ (i \in DOMAIN stdout /\ stdout'[i] = stdout[i])
      BY <1>1, <3>2
    <3> QED BY <2>2, <3>1, <3>3
  <2>4. /\ UNCHANGED <<phase, proc, dead, nextId, pending, promise, repliedTo, stdin>>
        /\ asked' \subseteq asked
    BY <1>3 DEF Answer, Say
  <2> QED BY <1>1, <2>3, <2>4, QuietCorrelation
<1>4. CASE Push
  <2>1. PICK m : stdout' = Append(stdout, m) /\ m.type # "response"
    <3>1. CASE \E u \in Uri : Say(Published(u, srvRev[u]))
      <4>1. PICK u \in Uri : Say(Published(u, srvRev[u]))
        BY <3>1
      <4>2. Published(u, srvRev[u]).type # "response"
        BY DEF Published
      <4> QED BY <4>1, <4>2 DEF Say
    <3>2. CASE Say(ServerRequest(events + 1))
      <4>1. ServerRequest(events + 1).type # "response"
        BY DEF ServerRequest
      <4> QED BY <3>2, <4>1 DEF Say
    <3>3. CASE \E trips \in BOOLEAN : Say(Junk(trips))
      <4>1. PICK trips \in BOOLEAN : Say(Junk(trips))
        BY <3>3
      <4>2. Junk(trips).type # "response"
        BY DEF Junk
      <4> QED BY <4>1, <4>2 DEF Say
    <3> QED BY <1>4, <3>1, <3>2, <3>3 DEF Push
  <2>2. \A i \in DOMAIN stdout' : stdout'[i] = m \/ (i \in DOMAIN stdout /\ stdout'[i] = stdout[i])
    BY <1>1, <2>1
  <2>3. UNCHANGED <<phase, proc, dead, nextId, pending, promise, repliedTo, stdin, asked>>
    BY <1>4 DEF Push, Say
  <2> QED BY <1>1, <2>1, <2>2, <2>3, QuietCorrelation
<1>5. CASE Die
  <2>1. /\ UNCHANGED <<phase, dead, nextId, pending, promise, repliedTo, stdin, stdout, asked>>
        /\ proc = "running"
    BY <1>5 DEF Die, Running, serverVars
  <2> QED BY <1>1, <2>1, QuietCorrelation
<1> QED BY <1>2, <1>3, <1>4, <1>5 DEF ServerNext

\* A tool call that makes its request.
LEMMA AskCorrelation ==
    ASSUME CorrelationInv, TypeOK', NEW c \in Call, pc[c] # "asked",
           NEW before \in Seq(ToServerMessage),
           \A i \in DOMAIN before : before[i].type # "request",
           Request(c, before), pc' = [pc EXCEPT ![c] = "asked"],
           UNCHANGED <<proc, dead, repliedTo, stdout, asked>>
    PROVE  CorrelationInv'
<1>1. /\ c \in Asker /\ promise[c] = "none"
      /\ promise \in [Asker -> {"none", "waiting", "resolved", "failed"}]
      /\ pc \in [Call -> {"idle", "reading", "read", "asked", "pausing", "returned"}]
  BY DEF CorrelationInv, NotYetAsked, TypeOK, Asker
<1>2. MapInv' /\ MessagesBelong'
  BY <1>1, RequestKeepsMap, RequestKeepsMessages
<1>3. /\ \A k \in Asker \ {c} : promise'[k] = promise[k]
      /\ promise'[c] # "resolved"
      /\ phase' = phase
  BY <1>1, AskerAssumption DEF Request, Reject
<1>4. DeathFollowsExit' /\ AnswersReachTheirAsker'
  BY <1>1, <1>3 DEF DeathFollowsExit, AnswersReachTheirAsker, CorrelationInv
<1>5. NotYetAsked'
  BY <1>1, <1>3, AskerAssumption DEF NotYetAsked, CorrelationInv, Asker
<1> QED BY <1>2, <1>4, <1>5 DEF CorrelationInv, MapInv

\* A tool call: it waits, synchronises its document, asks or returns.
LEMMA ToolCallCorrelation ==
    ASSUME CorrelationInv, TypeOK', NEW c \in Call, ToolCall(c)
    PROVE  CorrelationInv'
<1>1. /\ pc \in [Call -> {"idle", "reading", "read", "asked", "pausing", "returned"}]
      /\ uri[c] \in Uri /\ text[c] \in Nat
      /\ stdout \in Seq(ToClientMessage)
  BY DEF CorrelationInv, TypeOK
<1> DEFINE sync == SyncMessage(uri[c], text[c])
<1>2. /\ <<sync>> \in Seq(ToServerMessage)
      /\ \A i \in DOMAIN <<sync>> : <<sync>>[i].type # "request"
  <2>1. sync \in ToServerMessage
    BY <1>1, SyncMessageType DEF CorrelationInv
  <2>2. sync.type # "request"
    BY DEF SyncMessage, OpenMessage, ChangeMessage
  <2> HIDE DEF sync
  <2> QED BY <2>1, <2>2
<1>3. CASE BeginOnFile(c)
  BY <1>1, <1>3, QuietCorrelation DEF BeginOnFile, Goto, clientVars, serverVars
<1>4. CASE BeginSymbols(c)
  <2>1. <<>> \in Seq(ToServerMessage) /\ \A i \in DOMAIN <<>> : <<>>[i].type # "request"
    OBVIOUS
  <2> QED BY <1>4, <2>1, AskCorrelation DEF BeginSymbols, Goto, serverVars
<1>5. CASE Read(c)
  BY <1>1, <1>5, QuietCorrelation DEF Read, Goto, clientVars, serverVars
<1>6. CASE SyncDead(c)
  BY <1>1, <1>6, QuietCorrelation DEF SyncDead, Goto, serverVars
<1>7. CASE SyncAndAsk(c)
  BY <1>2, <1>7, AskCorrelation DEF SyncAndAsk, Goto, serverVars
<1>8. CASE SyncAndPause(c)
  <2>1. \A i \in DOMAIN stdin' : stdin'[i].type = "request" =>
           \E j \in DOMAIN stdin : stdin'[i] = stdin[j]
    BY <1>2, <1>8, SendAddsNoRequest DEF SyncAndPause, CorrelationInv
  <2>2. /\ UNCHANGED <<phase, proc, dead, nextId, pending, promise, repliedTo, stdout, asked>>
        /\ \A d \in Call : pc[d] = "asked" <=> pc'[d] = "asked"
    BY <1>1, <1>8 DEF SyncAndPause, Goto, serverVars
  <2> QED BY <2>1, <2>2, QuietCorrelation
<1>9. CASE Collect(c)
  BY <1>1, <1>9, QuietCorrelation DEF Collect, Goto, clientVars, serverVars
<1> QED BY <1>3, <1>4, <1>5, <1>6, <1>7, <1>8, <1>9 DEF ToolCall

\* The invariant is inductive.
LEMMA NextCorrelation == CorrelationInv /\ [Next]_vars => CorrelationInv'
<1> SUFFICES ASSUME CorrelationInv, [Next]_vars PROVE CorrelationInv'
  OBVIOUS
<1>1. TypeOK'
  BY NextType DEF CorrelationInv
<1>2. CASE ClientNext /\ UNCHANGED <<serverVars, callVars>>
  BY <1>1, <1>2, StartCorrelation, OnDataCorrelation, TimeoutCorrelation,
     MarkDeadCorrelation, ShutdownCorrelation DEF ClientNext
<1>3. CASE ServerNext /\ UNCHANGED callVars
  BY <1>1, <1>3, ServerCorrelation
<1>4. CASE \E c \in Call : ToolCall(c)
  BY <1>1, <1>4, ToolCallCorrelation
<1>5. CASE \E u \in Uri : Edit(u)
  BY <1>1, <1>5, QuietCorrelation DEF Edit, clientVars
<1>6. CASE UNCHANGED vars
  BY <1>1, <1>6, QuietCorrelation DEF vars, clientVars, serverVars, callVars
<1> QED BY <1>2, <1>3, <1>4, <1>5, <1>6 DEF Next

\* The strengthening behind the next three theorems always holds: ids are not
\* reused, and what the two processes say to each other names the right asker.
THEOREM CorrelationCorrect == Spec => []CorrelationInv
  BY InitCorrelation, NextCorrelation, PTL DEF Spec

\* Nothing is left in #pending once the process is known to be dead.
THEOREM DeadCorrect == Spec => []DeadMeansNothingPending
  BY CorrelationCorrect, PTL DEF CorrelationInv

\* A promise is unsettled exactly while #pending has its entry.
THEOREM UnsettledCorrect == Spec => []UnsettledIsPending
  BY CorrelationCorrect, PTL DEF CorrelationInv

\* No promise is ever resolved with the answer to somebody else's request.
THEOREM AnswersCorrect == Spec => []AnswersReachTheirAsker
  BY CorrelationCorrect, PTL DEF CorrelationInv

-----------------------------------------------------------------------------
(***************************************************************************)
(* The session implements RequestTable and ClientLife.  Both follow from    *)
(* what a step can do to the promises, to the phase and to the death.       *)
(***************************************************************************)
\* A new request, which fails at once on a dead object.
Asks ==
    /\ UNCHANGED <<proc, dead, phase>>
    /\ \E k \in Asker \ {Initialize} :
         /\ promise[k] = "none"
         /\ promise' = [promise EXCEPT ![k] = IF dead THEN "failed" ELSE "waiting"]

\* start() makes its request.
Starts ==
    /\ ~dead /\ dead' = dead
    /\ phase = "new" /\ phase' = "starting" /\ proc' \in {"running", "exited"}
    /\ promise[Initialize] = "none"
    /\ promise' = [promise EXCEPT ![Initialize] = "waiting"]

\* One promise is settled, and start() goes on if it is its own.
Settles ==
    /\ UNCHANGED <<proc, dead>>
    /\ \E k \in Asker, r \in Settled :
         /\ promise[k] = "waiting"
         /\ promise' = [promise EXCEPT ![k] = r]
         /\ phase' = IF k # Initialize THEN phase ELSE IF r = "failed" THEN "failed" ELSE "ready"

\* The death of the process becomes known.
Dies ==
    /\ ~dead /\ dead' = TRUE /\ proc = "exited" /\ proc' = proc
    /\ promise' = [k \in Asker |-> IF promise[k] = "waiting" THEN "failed" ELSE promise[k]]
    /\ phase' = IF promise[Initialize] = "waiting" THEN "failed" ELSE phase

\* Anything else leaves them alone, and may end the process.
Elsewhere ==
    /\ UNCHANGED <<promise, dead, phase>>
    /\ proc' = proc \/ (proc = "running" /\ proc' = "exited")

\* request() on the promises.
LEMMA RequestPromises ==
    ASSUME CorrelationInv, NEW k \in Asker \ {Initialize}, NEW before, Request(k, before),
           promise[k] = "none", UNCHANGED <<proc, dead>>
    PROVE  Asks
<1>1. promise \in [Asker -> {"none", "waiting", "resolved", "failed"}]
  BY DEF CorrelationInv, TypeOK
<1>2. CASE ~dead
  BY <1>1, <1>2 DEF Request, Asks
<1>3. CASE dead
  <2>1. Reject({k})
    BY <1>3 DEF Request, Send
  <2>2. promise' = [promise EXCEPT ![k] = "failed"] /\ phase' = phase
    BY <1>1, <2>1 DEF Reject
  <2> QED BY <1>3, <2>2 DEF Asks
<1> QED BY <1>2, <1>3

\* Taking an entry out of #pending settles its promise.
LEMMA SettlePromises ==
    ASSUME CorrelationInv, NEW id \in DOMAIN pending, UNCHANGED <<proc, dead>>,
           \/ Reject({pending[id]})
           \/ \E from \in Asker : Resolve(pending[id], from)
    PROVE  Settles
<1> DEFINE k == pending[id]
<1>1. promise \in [Asker -> {"none", "waiting", "resolved", "failed"}] /\ k \in Asker
  BY DEF CorrelationInv, TypeOK
<1>2. promise[k] = "waiting"
  BY <1>1 DEF CorrelationInv, UnsettledIsPending, Waiting
<1> HIDE DEF k
<1>3. CASE Reject({k})
  <2>1. promise' = [promise EXCEPT ![k] = "failed"]
    BY <1>1, <1>3 DEF Reject
  <2>2. phase' = IF k = Initialize THEN "failed" ELSE phase
    BY <1>3 DEF Reject
  <2> QED BY <1>1, <1>2, <2>1, <2>2 DEF Settles, Settled
<1>4. CASE \E from \in Asker : Resolve(k, from)
  <2>1. promise' = [promise EXCEPT ![k] = "resolved"]
    BY <1>4 DEF Resolve
  <2>2. phase' = IF k = Initialize THEN "ready" ELSE phase
    BY <1>4, AskerAssumption DEF Resolve
  <2> QED BY <1>1, <1>2, <2>1, <2>2 DEF Settles, Settled
<1> QED BY <1>3, <1>4 DEF k

\* What any step does to the promises.
LEMMA PromiseSteps ==
    ASSUME CorrelationInv, [Next]_vars
    PROVE  Asks \/ Starts \/ Settles \/ Dies \/ Elsewhere
<1> USE AskerAssumption
<1>1. CASE UNCHANGED vars
  BY <1>1 DEF vars, clientVars, Elsewhere
<1>2. CASE Start
  BY <1>2 DEF Start, Starts, CorrelationInv, DeathFollowsExit, NotYetAsked
<1>3. CASE OnData
  <2> DEFINE m == Head(stdout)
  <2>1. m \in ToClientMessage
    BY <1>3, PipeType DEF OnData, CorrelationInv
  <2>2. CASE OnResponse(m)
    <3>1. m.for \in Asker /\ UNCHANGED <<proc, dead>>
      BY <2>1, <2>2, MessageFields DEF OnResponse
    <3>2. CASE m.id \in DOMAIN pending
      <4>1. Reject({pending[m.id]}) \/ Resolve(pending[m.id], m.for)
        BY <2>2, <3>2 DEF OnResponse
      <4> QED BY <3>1, <3>2, <4>1, SettlePromises
    <3>3. CASE m.id \notin DOMAIN pending
      BY <2>2, <3>3 DEF OnResponse, Elsewhere
    <3> QED BY <3>2, <3>3
  <2>3. CASE OnDiagnostics(m) \/ OnServerRequest(m) \/ OnJunk(m)
    BY <2>3 DEF OnDiagnostics, OnServerRequest, OnJunk, Elsewhere
  <2> QED BY <1>3, <2>2, <2>3 DEF OnData
<1>4. ASSUME NEW id \in DOMAIN pending, Timeout(id) PROVE Settles
  BY <1>4, SettlePromises DEF Timeout
<1>5. CASE MarkDead
  <2>1. \A k \in Asker : k \in RejectedByDeath <=> promise[k] = "waiting"
    BY DEF CorrelationInv, UnsettledIsPending, RejectedByDeath
  <2>2. promise' = [k \in Asker |-> IF k \in RejectedByDeath THEN "failed" ELSE promise[k]]
    BY <1>5 DEF MarkDead, Reject
  <2>3. promise' = [k \in Asker |-> IF promise[k] = "waiting" THEN "failed" ELSE promise[k]]
    BY <2>1, <2>2
  <2>4. phase' = IF promise[Initialize] = "waiting" THEN "failed" ELSE phase
    BY <1>5, <2>1 DEF MarkDead, Reject, Asker
  <2> QED BY <1>5, <2>3, <2>4 DEF MarkDead, Dies
<1>6. CASE AskToShutDown
  <2>1. CASE UNCHANGED <<nextId, pending, promise, stdin, phase>>
    BY <1>6, <2>1 DEF AskToShutDown, Elsewhere
  <2>2. CASE Request(Shutdown, <<>>)
    BY <1>6, <2>2, RequestPromises DEF AskToShutDown, Asker
  <2> QED BY <1>6, <2>1, <2>2 DEF AskToShutDown
<1>7. CASE ServerNext
  BY <1>7 DEF ServerNext, Receive, Answer, Push, Say, Die, Running, Elsewhere
<1>8. ASSUME NEW c \in Call, ToolCall(c) PROVE Asks \/ Elsewhere
  <2>1. c \in Asker \ {Initialize} /\ (pc[c] # "asked" => promise[c] = "none")
    BY DEF Asker, CorrelationInv, NotYetAsked
  <2>2. CASE BeginSymbols(c)
    BY <2>1, <2>2, RequestPromises DEF BeginSymbols
  <2>3. CASE SyncAndAsk(c)
    BY <2>1, <2>3, RequestPromises DEF SyncAndAsk
  <2>4. CASE BeginOnFile(c) \/ Read(c) \/ SyncDead(c) \/ SyncAndPause(c) \/ Collect(c)
    BY <2>4 DEF BeginOnFile, Read, SyncDead, SyncAndPause, Collect, clientVars, Elsewhere
  <2> QED BY <1>8, <2>2, <2>3, <2>4 DEF ToolCall
<1>9. CASE \E u \in Uri : Edit(u)
  BY <1>9 DEF Edit, clientVars, Elsewhere
<1> QED BY <1>1, <1>2, <1>3, <1>4, <1>5, <1>6, <1>7, <1>8, <1>9 DEF Next, ClientNext

\* What the table sees of the promises.
TableOf(p) == [k \in Asker |-> IF p[k] = "waiting" THEN "open" ELSE p[k]]

LEMMA TableIsPromises ==
    CorrelationInv => [k \in Asker |-> IF k \in Waiting(pending) THEN "open" ELSE promise[k]]
                        = TableOf(promise)
  BY DEF CorrelationInv, UnsettledIsPending, TableOf

\* The requests of a session, whatever becomes of their ids, messages and timers,
\* are a RequestTable: settled once, and all at once when the process dies.
THEOREM RequestTableCorrect == Spec => ImplementsRequestTable
<1> DEFINE out == [k \in Asker |-> IF k \in Waiting(pending) THEN "open" ELSE promise[k]]
<1>1. Init => Table!Init
  BY DEF Init, ClientInit, Table!Init, Waiting, EmptyMap
<1>2. ASSUME CorrelationInv, CorrelationInv', [Next]_vars
      PROVE  [Table!Next]_<<out, dead>>
  <2>1. out = TableOf(promise) /\ out' = TableOf(promise')
    <3>1. out = TableOf(promise)
      BY <1>2, TableIsPromises
    <3>2. \A k \in Asker : k \in Waiting(pending') <=> promise'[k] = "waiting"
      BY <1>2 DEF CorrelationInv, UnsettledIsPending, Waiting
    <3>3. out' = [k \in Asker |-> IF k \in Waiting(pending') THEN "open" ELSE promise'[k]]
      BY DEF Waiting
    <3> QED BY <3>1, <3>2, <3>3 DEF TableOf
  <2> HIDE DEF out
  <2>2. promise \in [Asker -> {"none", "waiting", "resolved", "failed"}]
    BY <1>2 DEF CorrelationInv, TypeOK
  <2>3. CASE Asks \/ Starts
    <3>1. PICK k \in Asker : /\ promise[k] = "none" /\ dead' = dead
                             /\ promise' = [promise EXCEPT ![k] = IF dead THEN "failed" ELSE "waiting"]
      BY <2>3 DEF Asks, Starts, Asker
    <3>2. out[k] = "none" /\ out' = [out EXCEPT ![k] = IF dead THEN "failed" ELSE "open"]
      BY <2>1, <2>2, <3>1 DEF TableOf
    <3>3. Table!Ask(k)
      BY <3>1, <3>2 DEF Table!Ask, out
    <3> QED BY <3>3 DEF Table!Next
  <2>4. CASE Settles
    <3>1. PICK k \in Asker, r \in Settled : promise[k] = "waiting" /\ promise' = [promise EXCEPT ![k] = r]
      BY <2>4 DEF Settles
    <3>2. out[k] = "open" /\ out' = [out EXCEPT ![k] = r]
      BY <2>1, <2>2, <3>1 DEF TableOf, Settled
    <3>3. Table!Settle(k, r)
      BY <2>4, <3>2 DEF Table!Settle, Settles, out
    <3> QED BY <3>3 DEF Table!Next, Settled
  <2>5. CASE Dies
    <3>1. out' = [k \in Asker |-> IF out[k] = "open" THEN "failed" ELSE out[k]]
      BY <2>1, <2>2, <2>5 DEF TableOf, Dies
    <3>2. Table!Close
      BY <2>5, <3>1 DEF Table!Close, Dies, out
    <3> QED BY <3>2 DEF Table!Next
  <2>6. CASE Elsewhere
    BY <2>1, <2>6 DEF Elsewhere, TableOf
  <2> QED BY <1>2, <2>3, <2>4, <2>5, <2>6, PromiseSteps
<1> QED BY <1>1, <1>2, CorrelationCorrect, PTL DEF Spec, ImplementsRequestTable, Table!Spec

\* start() is waiting exactly while its own request is.
StartInv == phase = "starting" <=> promise[Initialize] = "waiting"

LEMMA StartKept == ASSUME CorrelationInv, StartInv, [Next]_vars PROVE StartInv'
<1>1. promise \in [Asker -> {"none", "waiting", "resolved", "failed"}] /\ Initialize \in Asker
  BY DEF CorrelationInv, TypeOK, Asker
<1>2. CASE Asks \/ Starts \/ Elsewhere
  BY <1>1, <1>2 DEF Asks, Starts, Elsewhere, StartInv
<1>3. CASE Settles
  BY <1>1, <1>3 DEF Settles, Settled, StartInv
<1>4. CASE Dies
  BY <1>1, <1>4 DEF Dies, StartInv
<1> QED BY <1>2, <1>3, <1>4, PromiseSteps

\* A session leads the life of a ClientLife: it starts once, what start() came to
\* is final, and the death of the process is learned of once and fails a start()
\* that is still waiting.
THEOREM ClientLifeCorrect == Spec => ImplementsClientLife
<1>1. Init => Life!Init /\ StartInv
  BY DEF Init, ClientInit, Life!Init, StartInv, Asker
<1>2. ASSUME CorrelationInv, StartInv, [Next]_vars
      PROVE  [Life!Next]_<<phase, proc, dead>>
  <2>1. CASE Asks
    BY <2>1 DEF Asks
  <2>2. CASE Starts
    BY <1>2, <2>2 DEF Starts, Life!Next, Life!Spawn
  <2>3. CASE Settles
    <3>1. ~dead
      BY <1>2, <2>3 DEF Settles, CorrelationInv, DeadMeansNothingPending, UnsettledIsPending,
                        Waiting, EmptyMap
    <3> QED BY <1>2, <2>3, <3>1 DEF Settles, Settled, StartInv, Life!Next, Life!Started
  <2>4. CASE Dies
    BY <1>2, <2>4 DEF Dies, StartInv, Life!Next, Life!Learn
  <2>5. CASE Elsewhere
    BY <2>5 DEF Elsewhere, Life!Next, Life!Exit
  <2> QED BY <1>2, <2>1, <2>2, <2>3, <2>4, <2>5, PromiseSteps
<1>3. CorrelationInv /\ StartInv /\ [Next]_vars => StartInv'
  BY StartKept
<1> QED BY <1>1, <1>2, <1>3, CorrelationCorrect, PTL DEF Spec, ImplementsClientLife, Life!Spec, Life!lifeVars

-----------------------------------------------------------------------------
(***************************************************************************)
(* What a call in progress waits for.                                      *)
(***************************************************************************)
\* A promise once held is kept, settled or not.
LEMMA PromisesStay ==
    ASSUME CorrelationInv, [Next]_vars, NEW k \in Asker, promise[k] # "none"
    PROVE  promise'[k] # "none"
<1>1. promise \in [Asker -> {"none", "waiting", "resolved", "failed"}]
  BY DEF CorrelationInv, TypeOK
<1>2. CASE Asks \/ Starts
  BY <1>1, <1>2 DEF Asks, Starts
<1>3. CASE Settles
  BY <1>1, <1>3 DEF Settles, Settled
<1>4. CASE Dies \/ Elsewhere
  BY <1>1, <1>4 DEF Dies, Elsewhere
<1> QED BY <1>2, <1>3, <1>4, PromiseSteps

\* request() leaves its caller with a promise, pending or failed.
LEMMA RequestGivesPromise ==
    ASSUME TypeOK, NEW k \in Asker, NEW before, Request(k, before)
    PROVE  promise'[k] # "none"
  BY DEF Request, Reject, TypeOK

\* A step of a call leaves it with a promise or with its purpose.
LEMMA ToolCallKeepsPurpose ==
    ASSUME CorrelationInv, CallsKeepPurpose, NEW d \in Call, ToolCall(d)
    PROVE  CallsKeepPurpose'
<1>1. /\ pc \in [Call -> {"idle", "reading", "read", "asked", "pausing", "returned"}]
      /\ wants \in [Call -> {"query", "diagnostics", "symbols"}]
      /\ d \in Asker
  BY DEF CorrelationInv, TypeOK, Asker
<1>2. \A c \in Call : promise[c] # "none" => promise'[c] # "none"
  <2>1. [Next]_vars
    BY DEF Next
  <2> QED BY <2>1, PromisesStay DEF Asker
<1>3. /\ pc'[d] = "asked" => promise'[d] # "none"
      /\ pc'[d] \in {"reading", "read", "pausing"} => wants'[d] \in {"query", "diagnostics"}
  <2>1. CASE BeginOnFile(d)
    BY <1>1, <2>1 DEF BeginOnFile, Goto
  <2>2. CASE BeginSymbols(d)
    BY <1>1, <2>2, RequestGivesPromise DEF BeginSymbols, Goto, CorrelationInv
  <2>3. CASE SyncAndAsk(d)
    BY <1>1, <2>3, RequestGivesPromise DEF SyncAndAsk, Goto, CorrelationInv
  <2>4. CASE Read(d) \/ SyncDead(d) \/ SyncAndPause(d) \/ Collect(d)
    BY <1>1, <2>4 DEF Read, SyncDead, SyncAndPause, Collect, Goto, CallsKeepPurpose
  <2> QED BY <2>1, <2>2, <2>3, <2>4 DEF ToolCall
<1>4. \A c \in Call \ {d} : pc'[c] = pc[c] /\ wants'[c] = wants[c]
  BY <1>1 DEF ToolCall, BeginOnFile, BeginSymbols, Read, SyncDead, SyncAndAsk, SyncAndPause,
              Collect, Goto
<1> QED BY <1>2, <1>3, <1>4 DEF CallsKeepPurpose

\* Every step keeps it.
LEMMA PurposeKept ==
    ASSUME CorrelationInv, CallsKeepPurpose, [Next]_vars
    PROVE  CallsKeepPurpose'
<1>1. ASSUME NEW d \in Call, ToolCall(d) PROVE CallsKeepPurpose'
  BY <1>1, ToolCallKeepsPurpose
<1>2. CASE UNCHANGED <<pc, wants>>
  <2>1. \A c \in Call : promise[c] # "none" => promise'[c] # "none"
    BY PromisesStay DEF Asker
  <2> QED BY <1>2, <2>1 DEF CallsKeepPurpose
<1>3. (\E d \in Call : ToolCall(d)) \/ UNCHANGED <<pc, wants>>
  BY DEF Next, Edit, vars, callVars
<1> QED BY <1>1, <1>2, <1>3

\* No tool call is ever left with nothing to wait for, and no start(): what is
\* missing from CallsReturn is only that timers fire and reads end.
THEOREM NotStuckCorrect == Spec => []NoCallIsStuck
<1>1. Init => CallsKeepPurpose /\ StartInv
  BY DEF Init, ClientInit, CallsKeepPurpose, StartInv, Asker
<1>2. CorrelationInv /\ CallsKeepPurpose /\ [Next]_vars => CallsKeepPurpose'
  BY PurposeKept
<1>3. CorrelationInv /\ StartInv /\ [Next]_vars => StartInv'
  BY StartKept
<1>4. CorrelationInv /\ CallsKeepPurpose /\ StartInv => NoCallIsStuck
  <2> SUFFICES ASSUME CorrelationInv, CallsKeepPurpose, StartInv PROVE NoCallIsStuck
    OBVIOUS
  <2>1. \A k \in Asker : promise[k] = "waiting" <=> k \in Waiting(pending)
    BY DEF CorrelationInv, UnsettledIsPending
  <2>2. phase = "starting" => Initialize \in Waiting(pending)
    BY <2>1 DEF StartInv, Asker
  <2>3. ASSUME NEW c \in Call, pc[c] # "idle" PROVE Returned(c) \/ WaitsForSomething(c)
    <3>1. /\ pc[c] \in {"reading", "read", "asked", "pausing", "returned"}
          /\ promise[c] \in {"none", "waiting", "resolved", "failed"}
      BY <2>3 DEF CorrelationInv, TypeOK, Asker
    <3>2. pc[c] = "asked" => promise[c] \in {"resolved", "failed"} \/ c \in Waiting(pending)
      BY <2>1, <3>1 DEF CallsKeepPurpose, Asker
    <3> QED BY <3>1, <3>2 DEF Returned, WaitsForSomething, CallsKeepPurpose
  <2> QED BY <2>2, <2>3 DEF NoCallIsStuck
<1> QED BY <1>1, <1>2, <1>3, <1>4, CorrelationCorrect, PTL DEF Spec

-----------------------------------------------------------------------------
(***************************************************************************)
(* What becomes of a question of the server's.                              *)
(***************************************************************************)
\* A message stays in a pipe that something is written to ...
LEMMA CarriesOn ==
    ASSUME NEW M, NEW s \in Seq(M), NEW t \in Seq(M)
    PROVE  /\ \A m : Carries(s, m) => Carries(s \o t, m)
           /\ \A i \in DOMAIN t : Carries(s \o t, t[i])
<1>1. \A i \in DOMAIN s : i \in DOMAIN (s \o t) /\ (s \o t)[i] = s[i]
  OBVIOUS
<1>2. \A i \in DOMAIN t : Len(s) + i \in DOMAIN (s \o t) /\ (s \o t)[Len(s) + i] = t[i]
  OBVIOUS
<1> QED BY <1>1, <1>2 DEF Carries

\* ... with one more message ...
LEMMA CarriesLast ==
    ASSUME NEW M, NEW s \in Seq(M), NEW x \in M
    PROVE  /\ \A m : Carries(s, m) => Carries(Append(s, x), m)
           /\ Carries(Append(s, x), x)
<1>1. \A i \in DOMAIN s : i \in DOMAIN Append(s, x) /\ Append(s, x)[i] = s[i]
  OBVIOUS
<1>2. Len(s) + 1 \in DOMAIN Append(s, x) /\ Append(s, x)[Len(s) + 1] = x
  OBVIOUS
<1> QED BY <1>1, <1>2 DEF Carries

\* ... and in one that another message is read from.
LEMMA CarriesTail ==
    ASSUME NEW M, NEW s \in Seq(M), s # <<>>, NEW m, Carries(s, m), Head(s) # m
    PROVE  Carries(Tail(s), m)
<1>1. PICK i \in DOMAIN s : s[i] = m
  BY DEF Carries
<1>2. i # 1
  BY <1>1
<1>3. i - 1 \in DOMAIN Tail(s) /\ Tail(s)[i - 1] = s[i]
  BY <1>2
<1> QED BY <1>1, <1>3 DEF Carries

\* The client takes nothing back that it has written.
StdinIsKept == \A m : Carries(stdin, m) => Carries(stdin', m)

\* Neither with #send ...
LEMMA SendKeepsStdin ==
    ASSUME TypeOK, NEW msgs \in Seq(ToServerMessage), Send(msgs)
    PROVE  StdinIsKept
<1>1. stdin \in Seq(ToServerMessage)
  BY DEF TypeOK
<1>2. \A m : Carries(stdin, m) => Carries(stdin \o msgs, m)
  BY <1>1, CarriesOn
<1> QED BY <1>2 DEF Send, StdinIsKept

\* ... nor with a request ...
LEMMA RequestKeepsStdin ==
    ASSUME TypeOK, NEW k \in Asker, NEW before \in Seq(ToServerMessage), Request(k, before)
    PROVE  StdinIsKept
<1>1. RequestMessage(NewId, k) \in ToServerMessage
  BY DEF TypeOK, NewId, RequestMessage, ToServerMessage
<1>2. before \o <<RequestMessage(NewId, k)>> \in Seq(ToServerMessage)
  BY <1>1
<1>3. Send(before \o <<RequestMessage(NewId, k)>>) \/ stdin' = stdin
  BY DEF Request
<1> QED BY <1>2, <1>3, SendKeepsStdin DEF StdinIsKept

\* ... nor with what follows an answer.
LEMMA ResolveKeepsStdin ==
    ASSUME TypeOK, NEW k, NEW from, Resolve(k, from)
    PROVE  StdinIsKept
<1>1. stdin \in Seq(ToServerMessage)
  BY DEF TypeOK
<1>2. Notification("initialized") \in ToServerMessage /\ Notification("exit") \in ToServerMessage
  BY DEF Notification, ToServerMessage
<1>3. <<Notification("initialized")>> \in Seq(ToServerMessage)
  BY <1>2
<1>4. CASE Send(<<Notification("initialized")>>)
  BY <1>3, <1>4, SendKeepsStdin
<1>5. CASE stdin' = Append(stdin, Notification("exit"))
  BY <1>1, <1>2, <1>5, CarriesLast DEF StdinIsKept
<1>6. CASE stdin' = stdin
  BY <1>6 DEF StdinIsKept
<1> QED BY <1>4, <1>5, <1>6 DEF Resolve

\* ... nor in any step of a tool call, or of the client, that reads no data.
LEMMA OthersKeepStdin ==
    ASSUME TypeOK,
           \/ Start \/ MarkDead \/ AskToShutDown \/ \E id \in DOMAIN pending : Timeout(id)
           \/ \E c \in Call : ToolCall(c)
    PROVE  StdinIsKept /\ stdout' = stdout
<1>1. stdin \in Seq(ToServerMessage) /\ <<>> \in Seq(ToServerMessage)
  BY DEF TypeOK
<1>2. CASE Start
  <2>1. RequestMessage(NewId, Initialize) \in ToServerMessage
    BY DEF TypeOK, NewId, RequestMessage, ToServerMessage, Asker
  <2>2. \A m : Carries(stdin, m) => Carries(Append(stdin, RequestMessage(NewId, Initialize)), m)
    BY <1>1, <2>1, CarriesLast
  <2> QED BY <1>2, <2>2 DEF Start, StdinIsKept
<1>3. CASE MarkDead \/ \E id \in DOMAIN pending : Timeout(id)
  BY <1>3 DEF MarkDead, Timeout, StdinIsKept
<1>4. CASE AskToShutDown
  <2>1. Request(Shutdown, <<>>) \/ stdin' = stdin
    BY <1>4 DEF AskToShutDown
  <2>2. StdinIsKept
    BY <1>1, <2>1, RequestKeepsStdin DEF StdinIsKept, Asker
  <2> QED BY <1>4, <2>2 DEF AskToShutDown
<1>5. ASSUME NEW c \in Call, ToolCall(c) PROVE StdinIsKept /\ stdout' = stdout
  <2>1. CASE BeginSymbols(c)
    BY <1>1, <2>1, RequestKeepsStdin DEF BeginSymbols, Asker
  <2>2. <<SyncMessage(uri[c], text[c])>> \in Seq(ToServerMessage)
    <3>1. uri[c] \in Uri /\ text[c] \in Nat
      BY DEF TypeOK
    <3>2. SyncMessage(uri[c], text[c]) \in ToServerMessage
      BY <3>1, SyncMessageType
    <3> QED BY <3>2
  <2>3. CASE SyncAndAsk(c)
    BY <2>2, <2>3, RequestKeepsStdin DEF SyncAndAsk, Asker
  <2>4. CASE SyncAndPause(c)
    BY <2>2, <2>4, SendKeepsStdin DEF SyncAndPause
  <2>5. CASE BeginOnFile(c) \/ Read(c) \/ SyncDead(c) \/ Collect(c)
    BY <2>5 DEF BeginOnFile, Read, SyncDead, Collect, clientVars, StdinIsKept
  <2> QED BY <1>5, <2>1, <2>3, <2>4, <2>5 DEF ToolCall
<1> QED BY <1>2, <1>3, <1>4, <1>5

\* A message of the server's is read: a question of its own is replied to.
LEMMA OnDataKeepsOwed ==
    ASSUME CorrelationInv, OwedIsOnItsWay, OnData, UNCHANGED owed
    PROVE  OwedIsOnItsWay'
<1>1. /\ TypeOK /\ (dead => proc = "exited")
      /\ stdout \in Seq(ToClientMessage) /\ stdout # <<>> /\ stdout' = Tail(stdout)
  BY DEF CorrelationInv, TypeOK, DeathFollowsExit, OnData
<1> DEFINE m == Head(stdout)
<1>2. m \in ToClientMessage
  BY <1>1, PipeType
<1>3. OnResponse(m) \/ OnDiagnostics(m) \/ OnServerRequest(m) \/ OnJunk(m)
  BY DEF OnData
<1> HIDE DEF m
<1>4. proc' = proc
  BY <1>3 DEF OnResponse, OnDiagnostics, OnServerRequest, OnJunk
<1>5. ASSUME proc = "running", OnServerRequest(m)
      PROVE  StdinIsKept /\ Carries(stdin', ResultMessage(m.id))
  <2>1. ResultMessage(m.id) \in ToServerMessage
    BY <1>2, <1>5, MessageFields DEF OnServerRequest, ResultMessage, ToServerMessage
  <2>2. Send(<<ResultMessage(m.id)>>) /\ stdin' = stdin \o <<ResultMessage(m.id)>>
    BY <1>1, <1>5 DEF OnServerRequest, Send
  <2>3. stdin \in Seq(ToServerMessage) /\ <<ResultMessage(m.id)>> \in Seq(ToServerMessage)
    BY <1>1, <2>1 DEF TypeOK
  <2>4. 1 \in DOMAIN <<ResultMessage(m.id)>> /\ <<ResultMessage(m.id)>>[1] = ResultMessage(m.id)
    OBVIOUS
  <2> HIDE DEF ResultMessage
  <2>5. Carries(stdin', ResultMessage(m.id))
    BY <2>2, <2>3, <2>4, CarriesOn
  <2> QED BY <1>1, <2>2, <2>3, <2>5, SendKeepsStdin
<1>6. ASSUME ~OnServerRequest(m) PROVE StdinIsKept /\ m.type # "serverRequest"
  <2>1. CASE OnResponse(m)
    <3>1. stdin' = stdin \/ \E k, from : Resolve(k, from)
      BY <2>1 DEF OnResponse
    <3>2. StdinIsKept
      BY <1>1, <3>1, ResolveKeepsStdin DEF StdinIsKept
    <3> QED BY <2>1, <3>2 DEF OnResponse
  <2>2. CASE OnDiagnostics(m) \/ OnJunk(m)
    BY <2>2 DEF OnDiagnostics, OnJunk, StdinIsKept
  <2> QED BY <1>3, <1>6, <2>1, <2>2
<1>7. ASSUME proc = "running", NEW n \in owed, Carries(stdout, ServerRequest(n))
      PROVE  Carries(stdout', ServerRequest(n)) \/ Carries(stdin', ResultMessage(n))
  <2>1. CASE m # ServerRequest(n)
    BY <1>1, <1>7, <2>1, CarriesTail DEF m
  <2>2. CASE m = ServerRequest(n)
    <3>1. m.type = "serverRequest" /\ m.id = n
      BY <2>2 DEF ServerRequest
    <3> QED BY <1>5, <1>6, <1>7, <3>1
  <2> QED BY <2>1, <2>2
<1>8. proc = "running" => StdinIsKept
  BY <1>5, <1>6
<1> QED BY <1>4, <1>7, <1>8 DEF OwedIsOnItsWay, StdinIsKept

\* The server reads, asks, answers or dies.
LEMMA ServerKeepsOwed ==
    ASSUME CorrelationInv, OwedIsOnItsWay, ServerNext
    PROVE  OwedIsOnItsWay'
<1>1. /\ stdin \in Seq(ToServerMessage) /\ stdout \in Seq(ToClientMessage)
      /\ owed \subseteq Nat /\ events \in Nat
  BY DEF CorrelationInv, TypeOK
<1>2. proc = "running"
  BY DEF ServerNext, Receive, Answer, Push, Say, Die, Running
<1>3. CASE Receive
  <2>1. /\ stdin # <<>> /\ stdin' = Tail(stdin) /\ proc' = proc /\ stdout' = stdout
        /\ \A n \in owed' : n \in owed /\ Head(stdin) # ResultMessage(n)
    BY <1>3 DEF Receive, ResultMessage
  <2>2. \A n \in owed' : Carries(stdin, ResultMessage(n)) => Carries(Tail(stdin), ResultMessage(n))
    BY <1>1, <2>1, CarriesTail
  <2> QED BY <1>2, <2>1, <2>2 DEF OwedIsOnItsWay
<1>4. ASSUME NEW x \in ToClientMessage, Say(x),
             \A n \in owed' : n \in owed \/ x = ServerRequest(n)
      PROVE  OwedIsOnItsWay'
  <2>1. stdout' = Append(stdout, x) /\ stdin' = stdin /\ proc' = proc
    BY <1>4 DEF Say
  <2>2. Carries(stdout', x) /\ \A m : Carries(stdout, m) => Carries(stdout', m)
    BY <1>1, <2>1, CarriesLast
  <2> QED BY <1>2, <1>4, <2>1, <2>2 DEF OwedIsOnItsWay
<1>5. ASSUME NEW q \in asked, Answer(q) PROVE OwedIsOnItsWay'
  <2>1. PICK ok \in BOOLEAN : Say(Response(q.id, q.for, ok))
    BY <1>5 DEF Answer
  <2>2. Response(q.id, q.for, ok) \in ToClientMessage
    BY <1>5 DEF Response, ToClientMessage, CorrelationInv, TypeOK
  <2> QED BY <1>4, <1>5, <2>1, <2>2 DEF Answer
<1>6. CASE Push
  <2>1. CASE \E u \in Uri : Say(Published(u, srvRev[u])) /\ owed' = owed
    <3>1. \A u \in Uri : Published(u, srvRev[u]) \in ToClientMessage
      BY DEF Published, ToClientMessage, CorrelationInv, TypeOK
    <3> QED BY <1>4, <2>1, <3>1
  <2>2. CASE Say(ServerRequest(events + 1)) /\ owed' = owed \cup {events + 1}
    <3>1. ServerRequest(events + 1) \in ToClientMessage
      BY <1>1 DEF ServerRequest, ToClientMessage
    <3> QED BY <1>4, <2>2, <3>1
  <2>3. CASE \E trips \in BOOLEAN : Say(Junk(trips)) /\ owed' = owed
    <3>1. \A trips \in BOOLEAN : Junk(trips) \in ToClientMessage
      BY DEF Junk, ToClientMessage
    <3> QED BY <1>4, <2>3, <3>1
  <2> QED BY <1>6, <2>1, <2>2, <2>3 DEF Push
<1>7. CASE Die
  BY <1>7 DEF Die, OwedIsOnItsWay
<1> QED BY <1>3, <1>5, <1>6, <1>7 DEF ServerNext

\* No question of the language server's is forgotten: whatever else is read, asked
\* and answered around it, it is on its way to the client or its reply on the way
\* back.  What is missing from ServerRequestsAreReplied is only that data arrives.
THEOREM OwedCorrect == Spec => []OwedIsOnItsWay
<1>1. Init => OwedIsOnItsWay
  BY DEF Init, ClientInit, ServerInit, OwedIsOnItsWay
<1>2. ASSUME CorrelationInv, OwedIsOnItsWay, [Next]_vars PROVE OwedIsOnItsWay'
  <2>1. CASE OnData /\ UNCHANGED serverVars
    BY <1>2, <2>1, OnDataKeepsOwed DEF serverVars
  <2>2. CASE ServerNext
    BY <1>2, <2>2, ServerKeepsOwed
  <2>3. ASSUME StdinIsKept, stdout' = stdout, owed' = owed PROVE OwedIsOnItsWay'
    <3>1. proc' = "none" => proc = "none"
      BY <1>2, PromiseSteps DEF Asks, Starts, Settles, Dies, Elsewhere
    <3>2. proc' = "running" => proc = "running" \/ owed = {}
      <4>1. proc' = proc \/ proc = "none" \/ proc' = "exited"
        BY <1>2, PromiseSteps DEF Asks, Starts, Settles, Dies, Elsewhere, CorrelationInv,
                                  DeathFollowsExit
      <4> QED BY <1>2, <4>1 DEF OwedIsOnItsWay
    <3> QED BY <1>2, <2>3, <3>1, <3>2 DEF OwedIsOnItsWay, StdinIsKept
  <2>4. CASE (Start \/ MarkDead \/ AskToShutDown \/ \E id \in DOMAIN pending : Timeout(id))
             /\ UNCHANGED serverVars
    BY <1>2, <2>3, <2>4, OthersKeepStdin DEF serverVars, CorrelationInv
  <2>5. ASSUME NEW c \in Call, ToolCall(c) PROVE OwedIsOnItsWay'
    <3>1. owed' = owed
      BY <2>5 DEF ToolCall, BeginOnFile, BeginSymbols, Read, SyncDead, SyncAndAsk, SyncAndPause,
                  Collect, serverVars
    <3> QED BY <1>2, <2>3, <2>5, <3>1, OthersKeepStdin DEF CorrelationInv
  <2>6. CASE (\E u \in Uri : Edit(u)) \/ UNCHANGED vars
    BY <2>3, <2>6 DEF Edit, vars, clientVars, serverVars, StdinIsKept
  <2> QED BY <1>2, <2>1, <2>2, <2>4, <2>5, <2>6 DEF Next, ClientNext
<1> QED BY <1>1, <1>2, CorrelationCorrect, PTL DEF Spec
=============================================================================
