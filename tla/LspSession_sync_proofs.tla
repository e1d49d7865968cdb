------------------------ MODULE LspSession_sync_proofs ------------------------
(***************************************************************************)
(* Proofs about document synchronisation: that the language server reads    *)
(* the versions of each document in order, and each question after a text   *)
(* that is no older than the tool call that asks it.                        *)
(***************************************************************************)
EXTENDS LspSession_proofs

-----------------------------------------------------------------------------
(***************************************************************************)
(* The versions in a pipe, when something is written to it or read from it. *)
(***************************************************************************)
\* A message about something else.
LEMMA AppendOther ==
    ASSUME NEW q \in Seq(ToServerMessage), NEW m \in ToServerMessage,
           NEW u, NEW v \in Nat, NEW n \in Nat, ~IsAbout(m, u)
    PROVE  /\ CountsUp(q, u, v, n) => CountsUp(Append(q, m), u, v, n)
           /\ Reaches(q, u, v, n) => Reaches(Append(q, m), u, v, n)
<1> DEFINE r == Append(q, m)
<1>1. /\ DOMAIN q = 1..Len(q) /\ DOMAIN r = 1..(Len(q) + 1) /\ Len(q) \in Nat
      /\ r[Len(q) + 1] = m
      /\ \A i \in 1..Len(q) : r[i] = q[i]
  OBVIOUS
<1> HIDE DEF r
<1>2. \A i \in DOMAIN r : IsAbout(r[i], u) =>
        i \in DOMAIN q /\ r[i] = q[i] /\ \A j \in 1..(i - 1) : r[j] = q[j]
  BY <1>1
<1>3. CountsUp(q, u, v, n) => CountsUp(r, u, v, n)
  BY <1>2 DEF CountsUp
<1>4. Reaches(q, u, v, n) => Reaches(r, u, v, n)
  BY <1>1 DEF Reaches
<1> QED BY <1>3, <1>4 DEF r

\* The next version.
LEMMA AppendSync ==
    ASSUME NEW q \in Seq(ToServerMessage), NEW m \in ToServerMessage,
           NEW u, NEW v \in Nat, NEW n \in Nat,
           IsAbout(m, u), m.version = n + 1, m.type = "didOpen" <=> n = 0,
           v <= n, CountsUp(q, u, v, n), Reaches(q, u, v, n)
    PROVE  /\ CountsUp(Append(q, m), u, v, n + 1)
           /\ Reaches(Append(q, m), u, v, n + 1)
<1> DEFINE r == Append(q, m)
<1>1. /\ DOMAIN q = 1..Len(q) /\ DOMAIN r = 1..(Len(q) + 1) /\ Len(q) \in Nat
      /\ r[Len(q) + 1] = m
      /\ \A i \in 1..Len(q) : r[i] = q[i]
  OBVIOUS
<1> HIDE DEF r
<1>2. ASSUME NEW i \in DOMAIN r, IsAbout(r[i], u)
      PROVE  /\ r[i].version \in (v + 1)..(n + 1)
             /\ r[i].type = "didOpen" <=> r[i].version = 1
             /\ \/ r[i].version = v + 1
                \/ \E j \in 1..(i - 1) : IsAbout(r[j], u) /\ r[j].version = r[i].version - 1
             /\ \A j \in 1..(i - 1) : IsAbout(r[j], u) => r[j].version < r[i].version
  <2>1. CASE i \in DOMAIN q
    <3>1. r[i] = q[i] /\ \A j \in 1..(i - 1) : r[j] = q[j]
      BY <1>1, <2>1
    <3>2. /\ q[i].version \in (v + 1)..n
          /\ q[i].type = "didOpen" <=> q[i].version = 1
          /\ \/ q[i].version = v + 1
             \/ \E j \in 1..(i - 1) : IsAbout(q[j], u) /\ q[j].version = q[i].version - 1
          /\ \A j \in 1..(i - 1) : IsAbout(q[j], u) => q[j].version < q[i].version
      BY <1>2, <2>1, <3>1 DEF CountsUp
    <3>3. r[i].version \in (v + 1)..(n + 1)
      BY <3>1, <3>2
    <3> QED BY <3>1, <3>2, <3>3
  <2>2. CASE i = Len(q) + 1
    <3>1. r[i] = m /\ \A j \in 1..(i - 1) : j \in DOMAIN q /\ r[j] = q[j]
      BY <1>1, <2>2
    <3>2. n = v \/ \E j \in 1..(i - 1) : IsAbout(r[j], u) /\ r[j].version = n
      BY <1>1, <2>2 DEF Reaches
    <3>3. \A j \in 1..(i - 1) : IsAbout(r[j], u) => r[j].version \in (v + 1)..n
      BY <3>1 DEF CountsUp
    <3>4. r[i].version = n + 1 /\ r[i].version \in (v + 1)..(n + 1)
      BY <3>1
    <3>5. \/ r[i].version = v + 1
          \/ \E j \in 1..(i - 1) : IsAbout(r[j], u) /\ r[j].version = r[i].version - 1
      BY <3>2, <3>4
    <3>6. \A j \in 1..(i - 1) : IsAbout(r[j], u) => r[j].version < r[i].version
      BY <3>3, <3>4
    <3>7. r[i].type = "didOpen" <=> r[i].version = 1
      BY <3>1, <3>4
    <3> QED BY <3>4, <3>5, <3>6, <3>7
  <2> QED BY <1>1, <2>1, <2>2
<1>3. CountsUp(r, u, v, n + 1)
  BY <1>2 DEF CountsUp
<1>4. Reaches(r, u, v, n + 1)
  BY <1>1 DEF Reaches
<1> QED BY <1>3, <1>4 DEF r

\* A version that is counted and lost.
LEMMA CountOnly ==
    ASSUME NEW q \in Seq(ToServerMessage), NEW u, NEW v \in Nat, NEW n \in Nat,
           CountsUp(q, u, v, n)
    PROVE  CountsUp(q, u, v, n + 1)
<1>1. \A x : x \in (v + 1)..n => x \in (v + 1)..(n + 1)
  OBVIOUS
<1> QED BY <1>1 DEF CountsUp

\* Reading a message about something else.
LEMMA TailOther ==
    ASSUME NEW q \in Seq(ToServerMessage), q # <<>>,
           NEW u, NEW v \in Nat, NEW n \in Nat, ~IsAbout(Head(q), u)
    PROVE  /\ CountsUp(q, u, v, n) => CountsUp(Tail(q), u, v, n)
           /\ Reaches(q, u, v, n) => Reaches(Tail(q), u, v, n)
<1> DEFINE r == Tail(q)
<1>1. /\ DOMAIN q = 1..Len(q) /\ DOMAIN r = 1..(Len(q) - 1) /\ Len(q) \in Nat \ {0}
      /\ Head(q) = q[1]
      /\ \A i \in 1..(Len(q) - 1) : r[i] = q[i + 1]
  OBVIOUS
<1> HIDE DEF r
<1>2. ASSUME CountsUp(q, u, v, n), NEW i \in DOMAIN r, IsAbout(r[i], u)
      PROVE  /\ r[i].version \in (v + 1)..n
             /\ r[i].type = "didOpen" <=> r[i].version = 1
             /\ \/ r[i].version = v + 1
                \/ \E j \in 1..(i - 1) : IsAbout(r[j], u) /\ r[j].version = r[i].version - 1
             /\ \A j \in 1..(i - 1) : IsAbout(r[j], u) => r[j].version < r[i].version
  <2>1. i + 1 \in DOMAIN q /\ r[i] = q[i + 1] /\ (i + 1) - 1 = i
    BY <1>1
  <2>2. \A j \in 1..(i - 1) : j + 1 \in 1..i /\ r[j] = q[j + 1]
    BY <1>1
  <2>3. ASSUME NEW j \in 1..i, IsAbout(q[j], u)
        PROVE  j - 1 \in 1..(i - 1) /\ r[j - 1] = q[j]
    <3>1. j # 1
      BY <1>1, <2>3
    <3> QED BY <1>1, <2>3, <3>1
  <2>4. /\ q[i + 1].version \in (v + 1)..n
        /\ q[i + 1].type = "didOpen" <=> q[i + 1].version = 1
        /\ \/ q[i + 1].version = v + 1
           \/ \E j \in 1..i : IsAbout(q[j], u) /\ q[j].version = q[i + 1].version - 1
        /\ \A j \in 1..i : IsAbout(q[j], u) => q[j].version < q[i + 1].version
    BY <1>2, <2>1 DEF CountsUp
  <2> QED BY <2>1, <2>2, <2>3, <2>4
<1>3. CountsUp(q, u, v, n) => CountsUp(r, u, v, n)
  BY <1>2 DEF CountsUp
<1>4. ASSUME NEW i \in DOMAIN q, IsAbout(q[i], u) PROVE i - 1 \in DOMAIN r /\ r[i - 1] = q[i]
  <2>1. i # 1
    BY <1>1, <1>4
  <2> QED BY <1>1, <2>1
<1>5. Reaches(q, u, v, n) => Reaches(r, u, v, n)
  BY <1>4 DEF Reaches
<1> QED BY <1>3, <1>5 DEF r

\* Reading the next version.
LEMMA TailSync ==
    ASSUME NEW q \in Seq(ToServerMessage), q # <<>>,
           NEW u, NEW v \in Nat, NEW n \in Nat,
           IsAbout(Head(q), u), CountsUp(q, u, v, n)
    PROVE  /\ Head(q).version = v + 1 /\ v + 1 <= n
           /\ Head(q).type = "didOpen" <=> v = 0
           /\ CountsUp(Tail(q), u, v + 1, n)
           /\ Reaches(q, u, v, n) => Reaches(Tail(q), u, v + 1, n)
<1> DEFINE r == Tail(q)
<1>1. /\ DOMAIN q = 1..Len(q) /\ DOMAIN r = 1..(Len(q) - 1) /\ Len(q) \in Nat \ {0}
      /\ Head(q) = q[1]
      /\ \A i \in 1..(Len(q) - 1) : r[i] = q[i + 1]
  OBVIOUS
<1> HIDE DEF r
<1>2. q[1].version = v + 1 /\ v + 1 <= n /\ (q[1].type = "didOpen" <=> v = 0)
  <2>1. 1 \in DOMAIN q /\ 1..(1 - 1) = {}
    BY <1>1
  <2> QED BY <1>1, <2>1 DEF CountsUp
<1>3. ASSUME NEW i \in DOMAIN r, IsAbout(r[i], u)
      PROVE  /\ r[i].version \in (v + 2)..n
             /\ r[i].type = "didOpen" <=> r[i].version = 1
             /\ \/ r[i].version = v + 2
                \/ \E j \in 1..(i - 1) : IsAbout(r[j], u) /\ r[j].version = r[i].version - 1
             /\ \A j \in 1..(i - 1) : IsAbout(r[j], u) => r[j].version < r[i].version
  <2>1. i + 1 \in DOMAIN q /\ r[i] = q[i + 1] /\ (i + 1) - 1 = i /\ i >= 1
    BY <1>1
  <2>2. \A j \in 1..(i - 1) : j + 1 \in 1..i /\ r[j] = q[j + 1]
    BY <1>1
  <2>3. \A j \in 1..i : j = 1 \/ (j - 1 \in 1..(i - 1) /\ r[j - 1] = q[j])
    BY <1>1
  <2>4. /\ q[i + 1].version \in (v + 1)..n
        /\ q[i + 1].type = "didOpen" <=> q[i + 1].version = 1
        /\ \/ q[i + 1].version = v + 1
           \/ \E j \in 1..i : IsAbout(q[j], u) /\ q[j].version = q[i + 1].version - 1
        /\ \A j \in 1..i : IsAbout(q[j], u) => q[j].version < q[i + 1].version
    BY <1>3, <2>1 DEF CountsUp
  <2>5. q[i + 1].version > v + 1 /\ q[i + 1].version \in (v + 2)..n
    BY <1>1, <1>2, <2>1, <2>4
  <2>6. \/ q[i + 1].version = v + 2
        \/ \E j \in 1..(i - 1) : IsAbout(r[j], u) /\ r[j].version = q[i + 1].version - 1
    <3>1. PICK j \in 1..i : IsAbout(q[j], u) /\ q[j].version = q[i + 1].version - 1
      BY <2>4, <2>5
    <3>2. CASE j = 1
      BY <1>2, <2>5, <3>1, <3>2
    <3>3. CASE j - 1 \in 1..(i - 1) /\ r[j - 1] = q[j]
      BY <3>1, <3>3
    <3> QED BY <2>3, <3>2, <3>3
  <2> QED BY <2>1, <2>2, <2>4, <2>5, <2>6
<1>4. CountsUp(r, u, v + 1, n)
  <2>1. (v + 1) + 1 = v + 2
    OBVIOUS
  <2> QED BY <1>3, <2>1 DEF CountsUp
<1>5. Reaches(q, u, v, n) => Reaches(r, u, v + 1, n)
  <2> SUFFICES ASSUME Reaches(q, u, v, n), n # v + 1
               PROVE  \E i \in DOMAIN r : IsAbout(r[i], u) /\ r[i].version = n
    BY DEF Reaches
  <2>1. PICK i \in DOMAIN q : IsAbout(q[i], u) /\ q[i].version = n
    BY <1>2 DEF Reaches
  <2>2. i # 1
    BY <1>2, <2>1
  <2>3. i - 1 \in DOMAIN r /\ r[i - 1] = q[i]
    BY <1>1, <2>2
  <2> QED BY <2>1, <2>3
<1> QED BY <1>1, <1>2, <1>4, <1>5 DEF r

-----------------------------------------------------------------------------
(***************************************************************************)
(* What a step can do to the pipe, the documents and the calls that wait    *)
(* for an answer.                                                          *)
(***************************************************************************)
\* A call that has asked stays where it is and as it is.
AskedStay ==
    /\ uri' = uri
    /\ \A c \in Call : pc[c] = "asked" =>
         pc'[c] = "asked" /\ wants'[c] = wants[c] /\ since'[c] = since[c]

\* The process does not come back.
StaysExited == proc = "exited" => proc' = "exited"

\* A message that neither carries a text nor asks about one.
IsPlain(m) ==
    /\ m \in ToServerMessage
    /\ m.type \notin {"didOpen", "didChange"}
    /\ m.type = "request" =>
         m.for \notin Call \/ (pc'[m.for] = "asked" /\ wants'[m.for] = "symbols")

RequestsOfAskers ==
    \A i \in DOMAIN stdin :
      stdin[i].type = "request" /\ stdin[i].for \in Call => pc[stdin[i].for] = "asked"

PipeInv == RequestsOfAskers /\ SyncsInOrder /\ QuestionsFollowTheirText

\* The facts about the two pipes and the counters every step below starts from.
LEMMA SyncTypes ==
    ASSUME TypeOK
    PROVE  /\ stdin \in Seq(ToServerMessage)
           /\ openDocs \in [Uri -> Nat] /\ srvVersion \in [Uri -> Nat]
           /\ srvRev \in [Uri -> Nat] /\ uri \in [Call -> Uri]
           /\ since \in [Call -> Nat] /\ text \in [Call -> Nat] /\ disk \in [Uri -> Nat]
           /\ wants \in [Call -> {"query", "diagnostics", "symbols"}]
           /\ pc \in [Call -> {"idle", "reading", "read", "asked", "pausing", "returned"}]
  BY DEF TypeOK

\* Messages appended to the pipe leave the questions before them where they were.
LEMMA QuestionsStay ==
    ASSUME SyncInv, AskedStay, srvRev' = srvRev,
           \A i \in DOMAIN stdin : i \in DOMAIN stdin' /\ stdin'[i] = stdin[i],
           \A i \in DOMAIN stdin' : i \notin DOMAIN stdin /\ IsQuery(stdin[i])' =>
              /\ pc'[stdin'[i].for] = "asked"
              /\ i # 1
              /\ IsAbout(stdin'[i - 1], uri[stdin'[i].for])
              /\ stdin'[i - 1].rev >= since'[stdin'[i].for]
    PROVE  QuestionsFollowTheirText'
<1> SUFFICES ASSUME NEW i \in DOMAIN stdin', IsQuery(stdin[i])'
             PROVE  LET c == stdin'[i].for IN
                      IF i = 1 THEN srvRev'[uri'[c]] >= since'[c]
                               ELSE IsAbout(stdin'[i - 1], uri'[c]) /\ stdin'[i - 1].rev >= since'[c]
  BY DEF QuestionsFollowTheirText
<1>1. uri' = uri
  BY DEF AskedStay
<1>2. CASE i \notin DOMAIN stdin
  BY <1>1, <1>2
<1>3. CASE i \in DOMAIN stdin
  <2>1. stdin'[i] = stdin[i] /\ stdin[i].type = "request" /\ stdin[i].for \in Call
    BY <1>3 DEF IsQuery
  <2>2. pc[stdin[i].for] = "asked"
    BY <1>3, <2>1 DEF SyncInv, CallsFollowStart
  <2>3. since'[stdin[i].for] = since[stdin[i].for] /\ IsQuery(stdin[i])
    BY <2>1, <2>2 DEF AskedStay, IsQuery
  <2>4. i = 1 \/ stdin'[i - 1] = stdin[i - 1]
    <3>1. stdin \in Seq(ToServerMessage)
      BY SyncTypes DEF SyncInv
    <3>2. i = 1 \/ i - 1 \in DOMAIN stdin
      BY <1>3, <3>1
    <3> QED BY <3>2
  <2> QED BY <1>1, <1>3, <2>1, <2>3, <2>4 DEF SyncInv, QuestionsFollowTheirText
<1> QED BY <1>2, <1>3

\* A step that reads nothing from the pipe and writes at most a message about no
\* text to it.
LEMMA QuietPipe ==
    ASSUME SyncInv, AskedStay, StaysExited, UNCHANGED <<openDocs, srvVersion, srvRev>>,
           stdin' = stdin \/ \E m : IsPlain(m) /\ stdin' = Append(stdin, m)
    PROVE  PipeInv'
<1>1. /\ stdin \in Seq(ToServerMessage)
      /\ openDocs \in [Uri -> Nat] /\ srvVersion \in [Uri -> Nat]
  BY SyncTypes DEF SyncInv
<1>2. /\ \A i \in DOMAIN stdin : i \in DOMAIN stdin' /\ stdin'[i] = stdin[i]
      /\ \A i \in DOMAIN stdin' : i \in DOMAIN stdin \/ IsPlain(stdin'[i])
  <2>1. CASE stdin' = stdin
    BY <2>1
  <2>2. ASSUME NEW m, IsPlain(m), stdin' = Append(stdin, m)
        PROVE  /\ \A i \in DOMAIN stdin : i \in DOMAIN stdin' /\ stdin'[i] = stdin[i]
               /\ \A i \in DOMAIN stdin' : i \in DOMAIN stdin \/ IsPlain(stdin'[i])
    <3>1. /\ DOMAIN stdin = 1..Len(stdin) /\ DOMAIN stdin' = 1..(Len(stdin) + 1)
          /\ Len(stdin) \in Nat
      BY <1>1, <2>2
    <3>2. stdin'[Len(stdin) + 1] = m /\ \A i \in 1..Len(stdin) : stdin'[i] = stdin[i]
      BY <1>1, <2>2
    <3>3. \A i \in DOMAIN stdin : i \in DOMAIN stdin' /\ stdin'[i] = stdin[i]
      BY <3>1, <3>2
    <3>4. ASSUME NEW i \in DOMAIN stdin' PROVE i \in DOMAIN stdin \/ IsPlain(stdin'[i])
      <4>1. i \in DOMAIN stdin \/ i = Len(stdin) + 1
        BY <3>1
      <4> QED BY <2>2, <3>2, <4>1
    <3> QED BY <3>3, <3>4
  <2> QED BY <2>1, <2>2
<1>3. RequestsOfAskers'
  BY <1>2 DEF SyncInv, CallsFollowStart, RequestsOfAskers, AskedStay, IsPlain
<1>4. QuestionsFollowTheirText'
  BY <1>2, QuestionsStay DEF IsPlain, IsQuery
<1>5. ASSUME NEW u \in Uri
      PROVE  /\ CountsUp(stdin', u, srvVersion[u], openDocs[u])
             /\ proc' # "exited" => Reaches(stdin', u, srvVersion[u], openDocs[u])
  <2>1. /\ CountsUp(stdin, u, srvVersion[u], openDocs[u])
        /\ proc # "exited" => Reaches(stdin, u, srvVersion[u], openDocs[u])
    BY DEF SyncInv, SyncsInOrder
  <2>2. CASE stdin' = stdin
    BY <2>1, <2>2 DEF StaysExited
  <2>3. ASSUME NEW m, IsPlain(m), stdin' = Append(stdin, m)
        PROVE  /\ CountsUp(stdin', u, srvVersion[u], openDocs[u])
               /\ proc # "exited" => Reaches(stdin', u, srvVersion[u], openDocs[u])
    <3>1. m \in ToServerMessage /\ ~IsAbout(m, u)
      BY <2>3 DEF IsPlain, IsAbout
    <3> QED BY <1>1, <2>1, <2>3, <3>1, AppendOther
  <2> QED BY <2>2, <2>3 DEF StaysExited
<1>6. SyncsInOrder'
  BY <1>5 DEF SyncInv, SyncsInOrder, CountsUp, Reaches, IsAbout
<1> QED BY <1>3, <1>4, <1>6 DEF PipeInv

\* syncFile() on a dead object, or towards a process that is gone: the version is
\* counted and the text lost.
LEMMA LostSync ==
    ASSUME SyncInv, AskedStay, UNCHANGED <<stdin, srvVersion, srvRev>>,
           proc = "exited", proc' = "exited",
           NEW d \in Uri, openDocs' = SyncedDocs(d)
    PROVE  PipeInv'
<1>1. /\ openDocs \in [Uri -> Nat] /\ srvVersion \in [Uri -> Nat]
      /\ stdin \in Seq(ToServerMessage)
  BY SyncTypes DEF SyncInv
<1>2. RequestsOfAskers'
  BY DEF SyncInv, CallsFollowStart, RequestsOfAskers, AskedStay
<1>3. QuestionsFollowTheirText'
  BY QuestionsStay
<1>4. ASSUME NEW u \in Uri
      PROVE  srvVersion[u] <= openDocs'[u] /\ CountsUp(stdin, u, srvVersion[u], openDocs'[u])
  <2>1. srvVersion[u] <= openDocs[u] /\ CountsUp(stdin, u, srvVersion[u], openDocs[u])
    BY DEF SyncInv, SyncsInOrder
  <2>2. openDocs'[u] = openDocs[u] \/ openDocs'[u] = openDocs[u] + 1
    BY <1>1 DEF SyncedDocs
  <2>3. CountsUp(stdin, u, srvVersion[u], openDocs[u] + 1)
    BY <1>1, <2>1, CountOnly
  <2> QED BY <1>1, <2>1, <2>2, <2>3
<1>5. SyncsInOrder'
  BY <1>4 DEF SyncsInOrder, CountsUp, IsAbout
<1> QED BY <1>2, <1>3, <1>5 DEF PipeInv

\* syncFile() that reaches the pipe, alone.
LEMMA SentSync ==
    ASSUME SyncInv, proc = "running", NEW d \in Uri, NEW t \in Nat
    PROVE  LET m == SyncMessage(d, t)
               r == Append(stdin, m)
           IN /\ m \in ToServerMessage /\ IsAbout(m, d) /\ m.rev = t /\ m.type # "request"
              /\ r \in Seq(ToServerMessage)
              /\ \A u \in Uri :
                   /\ srvVersion[u] <= SyncedDocs(d)[u]
                   /\ CountsUp(r, u, srvVersion[u], SyncedDocs(d)[u])
                   /\ Reaches(r, u, srvVersion[u], SyncedDocs(d)[u])
<1>1. /\ openDocs \in [Uri -> Nat] /\ srvVersion \in [Uri -> Nat]
      /\ stdin \in Seq(ToServerMessage)
  BY SyncTypes DEF SyncInv
<1> DEFINE m == SyncMessage(d, t)
<1>2. /\ IsAbout(m, d) /\ m.version = openDocs[d] + 1 /\ m.rev = t
      /\ m.type = "didOpen" <=> openDocs[d] = 0
      /\ m.type # "request" /\ \A u \in Uri : IsAbout(m, u) => u = d
  BY <1>1 DEF SyncMessage, OpenMessage, ChangeMessage, IsOpen, IsAbout
<1>3. m \in ToServerMessage
  BY SyncMessageType DEF SyncInv
<1> HIDE DEF m
<1>4. ASSUME NEW u \in Uri
      PROVE  /\ srvVersion[u] <= SyncedDocs(d)[u]
             /\ CountsUp(Append(stdin, m), u, srvVersion[u], SyncedDocs(d)[u])
             /\ Reaches(Append(stdin, m), u, srvVersion[u], SyncedDocs(d)[u])
  <2>1. /\ srvVersion[u] <= openDocs[u]
        /\ CountsUp(stdin, u, srvVersion[u], openDocs[u])
        /\ Reaches(stdin, u, srvVersion[u], openDocs[u])
    BY DEF SyncInv, SyncsInOrder
  <2>2. CASE u # d
    <3>1. SyncedDocs(d)[u] = openDocs[u] /\ ~IsAbout(m, u)
      BY <1>1, <1>2, <2>2 DEF SyncedDocs
    <3> QED BY <1>1, <1>3, <2>1, <3>1, AppendOther
  <2>3. CASE u = d
    <3>1. SyncedDocs(d)[u] = openDocs[u] + 1
      BY <1>1, <2>3 DEF SyncedDocs
    <3>2. Reaches(stdin, u, srvVersion[u], openDocs[u]) =>
             /\ CountsUp(Append(stdin, m), u, srvVersion[u], openDocs[u] + 1)
             /\ Reaches(Append(stdin, m), u, srvVersion[u], openDocs[u] + 1)
      BY <1>1, <1>2, <1>3, <2>1, <2>3, AppendSync
    <3> QED BY <1>1, <2>1, <3>1, <3>2
  <2> QED BY <2>2, <2>3
<1> QED BY <1>1, <1>2, <1>3, <1>4 DEF m

\* ... and followed by a question about it, or by nothing.
LEMMA SentPipe ==
    ASSUME SyncInv, AskedStay, UNCHANGED <<srvVersion, srvRev, proc>>, proc = "running",
           NEW c \in Call, text[c] >= since[c],
           pc'[c] = "asked" => since'[c] = since[c],
           openDocs' = SyncedDocs(uri[c]),
           LET m == SyncMessage(uri[c], text[c]) IN
             \/ stdin' = Append(stdin, m)
             \/ \E q \in ToServerMessage :
                  /\ q.type = "request" /\ q.for = c /\ pc'[c] = "asked"
                  /\ stdin' = Append(Append(stdin, m), q)
    PROVE  PipeInv'
<1>1. /\ uri[c] \in Uri /\ text[c] \in Nat /\ openDocs \in [Uri -> Nat]
      /\ srvVersion \in [Uri -> Nat] /\ stdin \in Seq(ToServerMessage)
  BY SyncTypes DEF SyncInv
<1> DEFINE m == SyncMessage(uri[c], text[c])
           r == Append(stdin, m)
<1>2. /\ m \in ToServerMessage /\ IsAbout(m, uri[c]) /\ m.rev = text[c] /\ m.type # "request"
      /\ r \in Seq(ToServerMessage)
      /\ \A u \in Uri : /\ srvVersion[u] <= openDocs'[u]
                        /\ CountsUp(r, u, srvVersion[u], openDocs'[u])
                        /\ Reaches(r, u, srvVersion[u], openDocs'[u])
  BY <1>1, SentSync
<1>3. openDocs' \in [Uri -> Nat]
  BY <1>1 DEF SyncedDocs
<1> HIDE DEF m
<1>4. CASE stdin' = Append(stdin, m)
  <2>1. /\ \A i \in DOMAIN stdin : i \in DOMAIN stdin' /\ stdin'[i] = stdin[i]
        /\ \A i \in DOMAIN stdin' : i \in DOMAIN stdin \/ stdin'[i] = m
    BY <1>1, <1>4
  <2>2. RequestsOfAskers'
    BY <1>2, <2>1 DEF SyncInv, CallsFollowStart, RequestsOfAskers, AskedStay
  <2>3. QuestionsFollowTheirText'
    BY <1>2, <2>1, QuestionsStay DEF IsQuery
  <2>4. SyncsInOrder'
    BY <1>2, <1>4 DEF SyncsInOrder, CountsUp, Reaches, IsAbout
  <2> QED BY <2>2, <2>3, <2>4 DEF PipeInv
<1>5. ASSUME NEW q \in ToServerMessage, q.type = "request", q.for = c, pc'[c] = "asked",
             stdin' = Append(Append(stdin, m), q)
      PROVE  PipeInv'
  <2>1. /\ \A i \in DOMAIN stdin : i \in DOMAIN stdin' /\ stdin'[i] = stdin[i]
        /\ \A i \in DOMAIN stdin' :
             \/ i \in DOMAIN stdin
             \/ stdin'[i] = m
             \/ i # 1 /\ stdin'[i] = q /\ stdin'[i - 1] = m
    BY <1>1, <1>2, <1>5
  <2>2. RequestsOfAskers'
    BY <1>2, <1>5, <2>1 DEF SyncInv, CallsFollowStart, RequestsOfAskers, AskedStay
  <2>3. since'[c] = since[c]
    BY <1>5
  <2>4. QuestionsFollowTheirText'
    BY <1>2, <1>5, <2>1, <2>3, QuestionsStay DEF IsQuery
  <2>5. \A u \in Uri : ~IsAbout(q, u)
    BY <1>5 DEF IsAbout
  <2>6. ASSUME NEW u \in Uri
        PROVE  /\ CountsUp(stdin', u, srvVersion[u], openDocs'[u])
               /\ Reaches(stdin', u, srvVersion[u], openDocs'[u])
    <3>1. srvVersion[u] \in Nat /\ openDocs'[u] \in Nat
      BY <1>1, <1>3
    <3> HIDE DEF r
    <3>2. /\ CountsUp(Append(r, q), u, srvVersion[u], openDocs'[u])
          /\ Reaches(Append(r, q), u, srvVersion[u], openDocs'[u])
      BY <1>2, <1>5, <2>5, <3>1, AppendOther
    <3> QED BY <1>5, <3>2 DEF r
  <2>7. SyncsInOrder'
    BY <1>2, <2>6 DEF SyncsInOrder, CountsUp, Reaches, IsAbout
  <2> QED BY <2>2, <2>4, <2>7 DEF PipeInv
<1> QED BY <1>4, <1>5 DEF m

\* The server reads a message: the next version of a document, or a question
\* that its text has just gone before.
LEMMA ReceivePipe ==
    ASSUME SyncInv, AskedStay, Receive, proc' = proc, UNCHANGED <<wants, since>>
    PROVE  PipeInv'
<1>1. /\ stdin \in Seq(ToServerMessage) /\ stdin # <<>> /\ stdin' = Tail(stdin)
      /\ openDocs' = openDocs /\ uri' = uri
      /\ openDocs \in [Uri -> Nat] /\ srvVersion \in [Uri -> Nat] /\ srvRev \in [Uri -> Nat]
  BY SyncTypes DEF SyncInv, Receive, AskedStay
<1>2. \A i \in DOMAIN stdin' : i + 1 \in DOMAIN stdin /\ stdin'[i] = stdin[i + 1]
  BY <1>1
<1> DEFINE m == Head(stdin)
<1>3. m \in ToServerMessage /\ m = stdin[1] /\ 1 \in DOMAIN stdin
  BY <1>1
<1>4. /\ \A u \in Uri : IsAbout(m, u) => srvVersion' = [srvVersion EXCEPT ![u] = m.version]
                                          /\ srvRev' = [srvRev EXCEPT ![u] = m.rev]
      /\ (\A u \in Uri : ~IsAbout(m, u)) => UNCHANGED <<srvVersion, srvRev>>
  <2>1. m.type \in {"didOpen", "didChange"} => m.uri \in Uri
    BY <1>3, MessageFields
  <2> QED BY <2>1 DEF Receive, IsAbout
<1>5. \A u \in Uri, w \in Uri : IsAbout(m, u) /\ IsAbout(m, w) => u = w
  BY DEF IsAbout
<1>6. RequestsOfAskers'
  BY <1>2 DEF SyncInv, CallsFollowStart, RequestsOfAskers, AskedStay
<1>7. ASSUME NEW u \in Uri
      PROVE  /\ srvVersion'[u] <= openDocs[u]
             /\ CountsUp(stdin', u, srvVersion'[u], openDocs[u])
             /\ proc # "exited" => Reaches(stdin', u, srvVersion'[u], openDocs[u])
  <2>1. /\ srvVersion[u] <= openDocs[u]
        /\ CountsUp(stdin, u, srvVersion[u], openDocs[u])
        /\ proc # "exited" => Reaches(stdin, u, srvVersion[u], openDocs[u])
    BY DEF SyncInv, SyncsInOrder
  <2>2. srvVersion[u] \in Nat /\ openDocs[u] \in Nat
    BY <1>1
  <2>3. CASE IsAbout(m, u)
    <3>1. /\ m.version = srvVersion[u] + 1 /\ srvVersion[u] + 1 <= openDocs[u]
          /\ CountsUp(stdin', u, srvVersion[u] + 1, openDocs[u])
          /\ proc # "exited" => Reaches(stdin', u, srvVersion[u] + 1, openDocs[u])
      BY <1>1, <2>1, <2>2, <2>3, TailSync
    <3>2. srvVersion'[u] = srvVersion[u] + 1
      BY <1>1, <1>4, <2>3, <3>1
    <3> QED BY <3>1, <3>2
  <2>4. CASE ~IsAbout(m, u)
    <3>1. srvVersion'[u] = srvVersion[u]
      BY <1>1, <1>4, <1>5, <2>4
    <3>2. /\ CountsUp(stdin', u, srvVersion[u], openDocs[u])
          /\ proc # "exited" => Reaches(stdin', u, srvVersion[u], openDocs[u])
      BY <1>1, <2>1, <2>2, <2>4, TailOther
    <3> QED BY <2>1, <3>1, <3>2
  <2> QED BY <2>3, <2>4
<1>8. SyncsInOrder'
  <2>1. ASSUME NEW u \in Uri
        PROVE  /\ srvVersion'[u] <= openDocs'[u]
               /\ CountsUp(stdin', u, srvVersion'[u], openDocs'[u])
               /\ proc' # "exited" => Reaches(stdin', u, srvVersion'[u], openDocs'[u])
    BY <1>1, <1>7
  <2> QED BY <2>1 DEF SyncsInOrder, CountsUp, Reaches, IsAbout
<1>9. QuestionsFollowTheirText'
  <2> SUFFICES ASSUME NEW i \in DOMAIN stdin', IsQuery(stdin[i])'
               PROVE  LET c == stdin'[i].for IN
                        IF i = 1 THEN srvRev'[uri[c]] >= since[c]
                                 ELSE IsAbout(stdin'[i - 1], uri[c]) /\ stdin'[i - 1].rev >= since[c]
    BY <1>1 DEF QuestionsFollowTheirText
  <2> DEFINE c == stdin'[i].for
  <2>1. i + 1 \in DOMAIN stdin /\ stdin'[i] = stdin[i + 1] /\ i + 1 # 1 /\ (i + 1) - 1 = i
    BY <1>1, <1>2
  <2>2. c \in Call /\ IsQuery(stdin[i + 1]) /\ uri[c] \in Uri
    BY <2>1, SyncTypes DEF IsQuery, SyncInv
  <2>3. IsAbout(stdin[i], uri[c]) /\ stdin[i].rev >= since[c]
    BY <2>1, <2>2 DEF SyncInv, QuestionsFollowTheirText
  <2>4. CASE i = 1
    <3>1. srvRev'[uri[c]] = m.rev
      BY <1>1, <1>3, <1>4, <2>2, <2>3, <2>4
    <3> QED BY <1>3, <2>3, <2>4, <3>1
  <2>5. CASE i # 1
    <3>1. stdin'[i - 1] = stdin[i]
      BY <1>1, <1>2, <2>5
    <3> QED BY <2>3, <2>5, <3>1
  <2> QED BY <2>4, <2>5
<1> QED BY <1>6, <1>8, <1>9 DEF PipeInv

-----------------------------------------------------------------------------
(***************************************************************************)
(* The steps.                                                              *)
(***************************************************************************)
\* What #send does with a plain message.
LEMMA SendPlain ==
    ASSUME TypeOK, NEW m, IsPlain(m), Send(<<m>>)
    PROVE  stdin' = stdin \/ \E x : IsPlain(x) /\ stdin' = Append(stdin, x)
<1>1. stdin \in Seq(ToServerMessage) /\ m \in ToServerMessage
  BY DEF TypeOK, IsPlain
<1>2. stdin \o <<m>> = Append(stdin, m)
  BY <1>1
<1> QED BY <1>2 DEF Send

\* What request() does, with nothing before it.
LEMMA RequestPlain ==
    ASSUME TypeOK, NEW k \in Asker, Request(k, <<>>),
           k \in Call => pc'[k] = "asked" /\ wants'[k] = "symbols"
    PROVE  stdin' = stdin \/ \E x : IsPlain(x) /\ stdin' = Append(stdin, x)
<1> DEFINE m == RequestMessage(nextId, k)
<1>1. IsPlain(m)
  BY DEF RequestMessage, ToServerMessage, IsPlain, TypeOK
<1>2. <<>> \o <<m>> = <<m>>
  OBVIOUS
<1>3. Send(<<m>>) \/ stdin' = stdin
  BY <1>2 DEF Request, NewId
<1> QED BY <1>1, <1>3, SendPlain

\* A step of the client object.
LEMMA ClientPipe ==
    ASSUME SyncInv, ClientNext, UNCHANGED <<serverVars, callVars>>
    PROVE  PipeInv'
<1>1. AskedStay /\ UNCHANGED <<srvVersion, srvRev>> /\ TypeOK
  BY DEF AskedStay, serverVars, callVars, SyncInv
<1>2. Initialize \in Asker \ Call /\ Shutdown \in Asker \ Call
  BY AskerAssumption DEF Asker
<1>3. CASE Start
  <2>1. StaysExited /\ openDocs' = openDocs
    BY <1>3 DEF Start, StaysExited, SyncInv, DeathFollowsExit
  <2>2. IsPlain(RequestMessage(NewId, Initialize))
    BY <1>1, <1>2 DEF RequestMessage, NewId, ToServerMessage, IsPlain, TypeOK
  <2> QED BY <1>1, <1>3, <2>1, <2>2, QuietPipe DEF Start
<1>4. CASE OnData
  <2> DEFINE m == Head(stdout)
  <2>1. m \in ToClientMessage /\ StaysExited /\ openDocs' = openDocs
    BY <1>1, <1>4, PipeType DEF OnData, OnResponse, OnDiagnostics, OnServerRequest, OnJunk, StaysExited
  <2>2. \A method \in {"initialized", "exit"} : IsPlain(Notification(method))
    BY DEF Notification, ToServerMessage, IsPlain
  <2>3. CASE OnResponse(m)
    BY <1>1, <2>1, <2>2, <2>3, SendPlain, QuietPipe DEF OnResponse, Resolve
  <2>4. CASE OnServerRequest(m)
    <3>1. IsPlain(ResultMessage(m.id))
      BY <2>1, <2>4, MessageFields DEF OnServerRequest, ResultMessage, ToServerMessage, IsPlain
    <3> QED BY <1>1, <2>1, <2>4, <3>1, SendPlain, QuietPipe DEF OnServerRequest
  <2>5. CASE OnDiagnostics(m) \/ OnJunk(m)
    BY <1>1, <2>1, <2>5, QuietPipe DEF OnDiagnostics, OnJunk
  <2> QED BY <1>4, <2>3, <2>4, <2>5 DEF OnData
<1>5. CASE MarkDead \/ \E id \in DOMAIN pending : Timeout(id)
  BY <1>1, <1>5, QuietPipe DEF MarkDead, Timeout, StaysExited
<1>6. CASE AskToShutDown
  <2>1. StaysExited /\ openDocs' = openDocs
    BY <1>6 DEF AskToShutDown, StaysExited
  <2>2. stdin' = stdin \/ Request(Shutdown, <<>>)
    BY <1>6 DEF AskToShutDown
  <2> QED BY <1>1, <1>2, <2>1, <2>2, RequestPlain, QuietPipe
<1> QED BY <1>3, <1>4, <1>5, <1>6 DEF ClientNext

\* A step of the server.
LEMMA ServerPipe ==
    ASSUME SyncInv, ServerNext, UNCHANGED callVars
    PROVE  PipeInv'
<1>1. AskedStay /\ UNCHANGED <<wants, since>>
  BY DEF AskedStay, callVars
<1>2. CASE Receive
  BY <1>1, <1>2, ReceivePipe DEF Receive
<1>3. CASE \E q \in asked : Answer(q)
  BY <1>1, <1>3, QuietPipe DEF Answer, Say, StaysExited
<1>4. CASE Push
  BY <1>1, <1>4, QuietPipe DEF Push, Say, StaysExited
<1>5. CASE Die
  BY <1>1, <1>5, QuietPipe DEF Die, StaysExited, serverVars
<1> QED BY <1>2, <1>3, <1>4, <1>5 DEF ServerNext

\* A step of a tool call.
LEMMA ToolCallPipe ==
    ASSUME SyncInv, NEW c \in Call, ToolCall(c)
    PROVE  PipeInv'
<1>1. /\ pc \in [Call -> {"idle", "reading", "read", "asked", "pausing", "returned"}]
      /\ wants \in [Call -> {"query", "diagnostics", "symbols"}] /\ since \in [Call -> Nat]
      /\ stdin \in Seq(ToServerMessage) /\ uri[c] \in Uri /\ text[c] \in Nat /\ TypeOK
  BY SyncTypes DEF SyncInv
<1>2. AskedStay /\ UNCHANGED <<srvVersion, srvRev, proc>> /\ StaysExited
  <2>1. AskedStay
    BY <1>1 DEF ToolCall, AskedStay, BeginOnFile, BeginSymbols, Read, SyncDead, SyncAndAsk,
                SyncAndPause, Collect, Goto
  <2>2. UNCHANGED <<srvVersion, srvRev, proc>>
    BY DEF ToolCall, BeginOnFile, BeginSymbols, Read, SyncDead, SyncAndAsk, SyncAndPause, Collect,
           clientVars, serverVars
  <2> QED BY <2>1, <2>2 DEF StaysExited
<1>3. CASE BeginOnFile(c) \/ Read(c) \/ Collect(c)
  BY <1>2, <1>3, QuietPipe DEF BeginOnFile, Read, Collect, clientVars
<1>4. CASE BeginSymbols(c)
  <2>1. c \in Asker /\ pc'[c] = "asked" /\ wants'[c] = "symbols"
    BY <1>1, <1>4 DEF BeginSymbols, Goto, Asker
  <2>2. stdin' = stdin \/ \E x : IsPlain(x) /\ stdin' = Append(stdin, x)
    BY <1>1, <1>4, <2>1, RequestPlain DEF BeginSymbols
  <2> QED BY <1>2, <1>4, <2>2, QuietPipe DEF BeginSymbols
<1>5. CASE SyncDead(c)
  <2>1. proc = "exited"
    BY <1>5 DEF SyncDead, SyncInv, DeathFollowsExit
  <2> QED BY <1>1, <1>2, <1>5, <2>1, LostSync DEF SyncDead
<1> DEFINE m == SyncMessage(uri[c], text[c])
<1>6. ASSUME pc[c] = "read"
      PROVE  /\ text[c] >= since[c]
             /\ proc # "running" => proc = "exited"
  <2>1. phase # "new"
    BY <1>6 DEF SyncInv, CallsFollowStart
  <2>2. proc \in {"none", "running", "exited"}
    BY <1>1 DEF TypeOK
  <2> QED BY <1>6, <2>1, <2>2 DEF SyncInv, CallsFollowStart, ReadsAreFresh
<1>7. CASE SyncAndAsk(c)
  <2>1. pc'[c] = "asked" /\ since' = since /\ pc[c] = "read"
    BY <1>1, <1>7 DEF SyncAndAsk, Goto
  <2> DEFINE q == RequestMessage(nextId, c)
  <2>2. q \in ToServerMessage /\ q.type = "request" /\ q.for = c
    BY <1>1 DEF RequestMessage, ToServerMessage, TypeOK, Asker
  <2>3. m \in ToServerMessage
    BY <1>1, SyncMessageType
  <2> HIDE DEF m, q
  <2>4. stdin \o (<<m>> \o <<q>>) = Append(Append(stdin, m), q)
    BY <1>1, <2>2, <2>3
  <2>5. Send(<<m>> \o <<q>>)
    BY <1>7 DEF SyncAndAsk, Request, NewId, m, q
  <2>6. CASE proc = "running"
    <3>1. stdin' = Append(Append(stdin, m), q)
      BY <2>4, <2>5, <2>6 DEF Send
    <3>2. openDocs' = SyncedDocs(uri[c])
      BY <1>7 DEF SyncAndAsk
    <3> QED BY <1>2, <1>6, <2>1, <2>2, <2>6, <3>1, <3>2, SentPipe DEF m
  <2>7. CASE proc # "running"
    BY <1>1, <1>2, <1>6, <1>7, <2>1, <2>5, <2>7, LostSync DEF Send, SyncAndAsk
  <2> QED BY <2>6, <2>7
<1>8. CASE SyncAndPause(c)
  <2>1. since' = since /\ pc[c] = "read" /\ openDocs' = SyncedDocs(uri[c]) /\ Send(<<m>>)
    BY <1>8 DEF SyncAndPause
  <2>2. m \in ToServerMessage
    BY <1>1, SyncMessageType
  <2> HIDE DEF m
  <2>3. CASE proc = "running"
    <3>1. stdin' = Append(stdin, m)
      BY <1>1, <2>1, <2>2, <2>3 DEF Send
    <3> QED BY <1>2, <1>6, <2>1, <2>3, <3>1, SentPipe DEF m
  <2>4. CASE proc # "running"
    BY <1>1, <1>2, <1>6, <2>1, <2>4, LostSync DEF Send
  <2> QED BY <2>3, <2>4
<1> QED BY <1>3, <1>4, <1>5, <1>7, <1>8 DEF ToolCall

\* An edit, or nothing.
LEMMA OtherPipe ==
    ASSUME SyncInv, (\E u \in Uri : Edit(u)) \/ UNCHANGED vars
    PROVE  PipeInv'
<1>1. /\ AskedStay /\ StaysExited
      /\ UNCHANGED <<stdin, openDocs, srvVersion, srvRev>>
  BY DEF Edit, vars, clientVars, serverVars, callVars, AskedStay, StaysExited
<1> QED BY <1>1, QuietPipe

\* The file a call reads is no older than when the call came in.
LEMMA NextReads ==
    ASSUME SyncInv, [Next]_vars
    PROVE  ReadsAreFresh'
<1>1. /\ disk \in [Uri -> Nat] /\ uri \in [Call -> Uri] /\ since \in [Call -> Nat]
      /\ text \in [Call -> Nat]
      /\ pc \in [Call -> {"idle", "reading", "read", "asked", "pausing", "returned"}]
  BY SyncTypes DEF SyncInv
<1>2. \A c \in Call : since[c] <= disk[uri[c]] /\ (pc[c] = "read" => text[c] >= since[c])
  BY DEF SyncInv, ReadsAreFresh
<1>3. ASSUME NEW c \in Call, ToolCall(c) PROVE ReadsAreFresh'
  <2>1. CASE BeginOnFile(c)
    BY <1>1, <1>2, <2>1 DEF BeginOnFile, Goto, ReadsAreFresh
  <2>2. CASE Read(c)
    BY <1>1, <1>2, <2>2 DEF Read, Goto, ReadsAreFresh
  <2>3. CASE BeginSymbols(c) \/ SyncDead(c) \/ SyncAndAsk(c) \/ SyncAndPause(c) \/ Collect(c)
    <3>1. UNCHANGED <<disk, uri, since, text>> /\ \A d \in Call : pc'[d] = "read" => pc[d] = "read"
      BY <1>1, <2>3 DEF BeginSymbols, SyncDead, SyncAndAsk, SyncAndPause, Collect, Goto
    <3> QED BY <1>2, <3>1 DEF ReadsAreFresh
  <2> QED BY <1>3, <2>1, <2>2, <2>3 DEF ToolCall
<1>4. CASE \E u \in Uri : Edit(u)
  BY <1>1, <1>2, <1>4 DEF Edit, ReadsAreFresh
<1>5. CASE ClientNext /\ UNCHANGED <<serverVars, callVars>>
  BY <1>2, <1>5 DEF callVars, ReadsAreFresh
<1>6. CASE ServerNext /\ UNCHANGED callVars
  BY <1>2, <1>6 DEF callVars, ReadsAreFresh
<1>7. CASE UNCHANGED vars
  BY <1>2, <1>7 DEF vars, callVars, ReadsAreFresh
<1> QED BY <1>3, <1>4, <1>5, <1>6, <1>7 DEF Next

\* No call comes before start(), and start() comes once.
LEMMA NextCalls ==
    ASSUME CorrelationInv, SyncInv, [Next]_vars, RequestsOfAskers'
    PROVE  CallsFollowStart'
<1>1. /\ proc = "none" => phase = "new"
      /\ \A c \in Call : pc[c] # "idle" => phase # "new"
  BY DEF SyncInv, CallsFollowStart
<1>2. phase' = "new" => phase = "new"
  BY PromiseSteps DEF Asks, Starts, Settles, Dies, Elsewhere
<1>3. proc' = "none" => phase' = "new"
  <2>1. CASE Asks \/ Elsewhere
    BY <1>1, <2>1 DEF Asks, Elsewhere
  <2>2. CASE Starts \/ Dies
    BY <2>2 DEF Starts, Dies
  <2>3. CASE Settles
    <3>1. phase = "new" => promise[Initialize] = "none"
      BY DEF CorrelationInv, NotYetAsked
    <3> QED BY <1>1, <2>3, <3>1 DEF Settles
  <2> QED BY <2>1, <2>2, <2>3, PromiseSteps
<1>4. ASSUME NEW c \in Call, pc'[c] # "idle" PROVE phase' # "new"
  <2>1. pc[c] # "idle" \/ phase # "new"
    <3>1. CASE pc' = pc
      BY <1>4, <3>1
    <3>2. ASSUME NEW d \in Call, ToolCall(d) PROVE pc[c] # "idle" \/ phase # "new"
      <4>1. pc \in [Call -> {"idle", "reading", "read", "asked", "pausing", "returned"}]
        BY SyncTypes DEF SyncInv
      <4>2. (BeginOnFile(d) \/ BeginSymbols(d)) => phase # "new"
        BY DEF BeginOnFile, BeginSymbols, ClientReady
      <4>3. Read(d) \/ SyncDead(d) \/ SyncAndAsk(d) \/ SyncAndPause(d) \/ Collect(d)
              => pc[d] # "idle"
        BY DEF Read, SyncDead, SyncAndAsk, SyncAndPause, Collect
      <4> QED BY <1>1, <3>2, <4>2, <4>3 DEF ToolCall
    <3>3. (\E d \in Call : ToolCall(d)) \/ pc' = pc
      BY DEF Next, Edit, vars, callVars
    <3> QED BY <3>1, <3>2, <3>3
  <2> QED BY <1>1, <1>2, <2>1
<1> QED BY <1>3, <1>4 DEF CallsFollowStart, RequestsOfAskers

\* The invariant holds at first.
LEMMA InitSync == Init => SyncInv
<1> SUFFICES ASSUME Init PROVE SyncInv
  OBVIOUS
<1>1. TypeOK /\ DeathFollowsExit
  BY InitType DEF Init, ClientInit, DeathFollowsExit
<1>2. stdin = <<>> /\ DOMAIN stdin = {}
  BY DEF Init, ClientInit
<1>3. CallsFollowStart /\ QuestionsFollowTheirText
  BY <1>2 DEF Init, ClientInit, CallsFollowStart, QuestionsFollowTheirText
<1>4. SyncsInOrder
  BY <1>2 DEF Init, ClientInit, ServerInit, SyncsInOrder, CountsUp, Reaches
<1>5. ReadsAreFresh
  BY <1>1 DEF Init, ReadsAreFresh, TypeOK
<1> QED BY <1>1, <1>3, <1>4, <1>5 DEF SyncInv

\* Every step keeps it.
LEMMA NextSync == CorrelationInv /\ CorrelationInv' /\ SyncInv /\ [Next]_vars => SyncInv'
<1> SUFFICES ASSUME CorrelationInv, CorrelationInv', SyncInv, [Next]_vars PROVE SyncInv'
  OBVIOUS
<1>1. PipeInv'
  BY ClientPipe, ServerPipe, ToolCallPipe, OtherPipe DEF Next
<1>2. CallsFollowStart'
  BY <1>1, NextCalls DEF PipeInv
<1>3. TypeOK' /\ DeathFollowsExit'
  BY DEF CorrelationInv
<1> QED BY <1>1, <1>2, <1>3, NextReads DEF SyncInv, PipeInv

\* What the pipe holds about a document always leads from what the server has to
\* what the client has counted, and every question has its text before it.
THEOREM SyncCorrect == Spec => []SyncInv
  BY InitSync, NextSync, CorrelationCorrect, PTL DEF Spec

\* What the next message says is what SyncInv says of the first in the pipe.
LEMMA SyncSuffices == SyncInv => DocumentsInOrder /\ QueriesSeeFreshText
<1> SUFFICES ASSUME SyncInv, stdin # <<>>
             PROVE  LET m == Head(stdin) IN
                      /\ m.type = "didOpen" => srvVersion[m.uri] = 0 /\ m.version = 1
                      /\ m.type = "didChange" => srvVersion[m.uri] > 0 /\ m.version = srvVersion[m.uri] + 1
                      /\ IsQuery(m) => srvRev[uri[m.for]] >= since[m.for]
  BY DEF DocumentsInOrder, QueriesSeeFreshText, IsQuery
<1>1. /\ stdin \in Seq(ToServerMessage)
      /\ openDocs \in [Uri -> Nat] /\ srvVersion \in [Uri -> Nat]
  BY SyncTypes DEF SyncInv
<1> DEFINE m == Head(stdin)
<1>2. m \in ToServerMessage /\ m = stdin[1] /\ 1 \in DOMAIN stdin
  BY <1>1
<1>3. ASSUME m.type \in {"didOpen", "didChange"}
      PROVE  /\ m.version = srvVersion[m.uri] + 1
             /\ m.type = "didOpen" <=> srvVersion[m.uri] = 0
             /\ srvVersion[m.uri] \in Nat
  <2> DEFINE u == m.uri
  <2>1. u \in Uri /\ IsAbout(m, u)
    BY <1>2, <1>3, MessageFields DEF IsAbout
  <2> HIDE DEF u
  <2>2. CountsUp(stdin, u, srvVersion[u], openDocs[u])
    BY <2>1 DEF SyncInv, SyncsInOrder
  <2>3. srvVersion[u] \in Nat /\ openDocs[u] \in Nat
    BY <1>1, <2>1
  <2>4. m.version = srvVersion[u] + 1 /\ (m.type = "didOpen" <=> srvVersion[u] = 0)
    BY <1>1, <2>1, <2>2, <2>3, TailSync
  <2> QED BY <2>3, <2>4 DEF u
<1>4. IsQuery(m) => srvRev[uri[m.for]] >= since[m.for]
  BY <1>2 DEF SyncInv, QuestionsFollowTheirText
<1> QED BY <1>3, <1>4

\* A language server is only ever sent a didOpen for a document it does not have,
\* a didChange for one it has, and the versions in order.
THEOREM DocumentsCorrect == Spec => []DocumentsInOrder
  BY SyncCorrect, SyncSuffices, PTL

\* No question is answered from a text older than the tool call that asks it.
THEOREM QueriesCorrect == Spec => []QueriesSeeFreshText
  BY SyncCorrect, SyncSuffices, PTL

-----------------------------------------------------------------------------
(***************************************************************************)
(* When the MCP server can end by an uncaught exception.                   *)
(***************************************************************************)
\* A write can only fail once the process has exited.
LEMMA SendCrash ==
    ASSUME NEW msgs, Send(msgs), proc # "none", TypeOK
    PROVE  host' = host \/ (host' = "crashed" /\ proc = "exited")
  BY DEF Send, TypeOK

\* ... and so can a request.
LEMMA RequestCrash ==
    ASSUME NEW k, NEW before, Request(k, before), proc # "none", TypeOK
    PROVE  \/ host' \in {host, "exited"}
           \/ host' = "crashed" /\ proc = "exited"
  BY SendCrash DEF Request, Reject

\* The message that is read is one the handler does not survive.
TripsOver == stdout # <<>> /\ Head(stdout) = Junk(TRUE) /\ stdout' = Tail(stdout)

\* What one step does to the process of the MCP server.
LEMMA HostSteps ==
    ASSUME CorrelationInv, SyncInv, QuietBeforeStart, [Next]_vars
    PROVE  \/ host' \in {host, "exited"}
           \/ host' = "crashed" /\ (proc = "exited" \/ TripsOver)
<1>1. TypeOK /\ (proc = "none" => phase = "new") /\ (dead => proc = "exited")
  BY DEF SyncInv, CorrelationInv, CallsFollowStart, DeathFollowsExit
<1>2. CASE OnData
  <2>1. proc # "none" /\ Head(stdout) \in ToClientMessage
    BY <1>1, <1>2, PipeType DEF OnData, QuietBeforeStart
  <2> DEFINE m == Head(stdout)
  <2> HIDE DEF m
  <2>2. CASE OnResponse(m)
    <3>1. CASE \E k, from : Resolve(k, from)
      BY <1>1, <2>1, <3>1, SendCrash DEF Resolve
    <3>2. CASE \E K : Reject(K)
      BY <3>2 DEF Reject
    <3> QED BY <2>2, <3>1, <3>2 DEF OnResponse
  <2>3. CASE OnServerRequest(m)
    BY <1>1, <2>1, <2>3, SendCrash DEF OnServerRequest
  <2>4. CASE OnDiagnostics(m)
    BY <2>4 DEF OnDiagnostics
  <2>5. CASE OnJunk(m)
    <3>1. m.type = "junk" /\ host' = IF m.trips THEN "crashed" ELSE host
      BY <2>5 DEF OnJunk
    <3>2. m = Junk(m.trips) /\ m.trips \in BOOLEAN
      BY <2>1, <3>1 DEF m, ToClientMessage, Junk
    <3>3. m.trips => TripsOver
      BY <1>2, <3>2 DEF OnData, TripsOver, m
    <3> QED BY <3>1, <3>2, <3>3
  <2> QED BY <1>2, <2>2, <2>3, <2>4, <2>5 DEF OnData, m
<1>3. CASE AskToShutDown
  BY <1>1, <1>3, RequestCrash DEF AskToShutDown, ClientReady
<1>4. CASE Start \/ MarkDead \/ \E id \in DOMAIN pending : Timeout(id)
  BY <1>4 DEF Start, MarkDead, Timeout, Reject
<1>5. CASE ServerNext \/ (\E u \in Uri : Edit(u)) \/ UNCHANGED vars
  BY <1>5 DEF ServerNext, Receive, Answer, Push, Say, Die, Edit, vars, clientVars
<1>6. ASSUME NEW c \in Call, ToolCall(c)
      PROVE  \/ host' \in {host, "exited"}
             \/ host' = "crashed" /\ proc = "exited"
  <2>1. pc[c] # "idle" => proc # "none"
    BY <1>1 DEF SyncInv, CallsFollowStart
  <2>2. CASE BeginSymbols(c)
    BY <1>1, <2>2, RequestCrash DEF BeginSymbols, ClientReady
  <2>3. CASE SyncAndAsk(c)
    BY <1>1, <2>1, <2>3, RequestCrash DEF SyncAndAsk
  <2>4. CASE SyncAndPause(c)
    BY <1>1, <2>1, <2>4, SendCrash DEF SyncAndPause
  <2>5. CASE BeginOnFile(c) \/ Read(c) \/ SyncDead(c) \/ Collect(c)
    BY <2>5 DEF BeginOnFile, Read, SyncDead, Collect, clientVars
  <2> QED BY <1>6, <2>2, <2>3, <2>4, <2>5 DEF ToolCall
<1> QED BY <1>2, <1>3, <1>4, <1>5, <1>6 DEF Next, ClientNext

\* The pipes stay empty until start().
LEMMA QuietKept ==
    ASSUME CorrelationInv, SyncInv, SyncInv', QuietBeforeStart, [Next]_vars
    PROVE  QuietBeforeStart'
<1> SUFFICES ASSUME proc' = "none" PROVE stdout' = <<>> /\ pending' = EmptyMap
  BY DEF QuietBeforeStart
<1>1. phase' = "new" /\ \A c \in Call : pc'[c] = "idle"
  BY DEF SyncInv, CallsFollowStart
<1>2. proc = "none" /\ phase = "new"
  <2>1. CASE Starts
    BY <2>1 DEF Starts
  <2>2. CASE Asks \/ Settles \/ Dies \/ Elsewhere
    BY <2>2, <1>1 DEF Asks, Settles, Dies, Elsewhere, SyncInv, CallsFollowStart
  <2> QED BY <2>1, <2>2, PromiseSteps
<1>3. stdout = <<>> /\ pending = EmptyMap /\ \A c \in Call : pc[c] = "idle"
  BY <1>2 DEF QuietBeforeStart, SyncInv, CallsFollowStart
<1>4. CASE ClientNext
  BY <1>1, <1>2, <1>3, <1>4
  DEF ClientNext, Start, OnData, Timeout, MarkDead, AskToShutDown, ClientReady, EmptyMap
<1>5. CASE ServerNext
  BY <1>2, <1>3, <1>5 DEF ServerNext, Receive, Answer, Push, Say, Die, Running
<1>6. ~ \E c \in Call : ToolCall(c)
  BY <1>2, <1>3 DEF ToolCall, BeginOnFile, BeginSymbols, Read, SyncDead, SyncAndAsk,
                   SyncAndPause, Collect, ClientReady
<1>7. CASE (\E u \in Uri : Edit(u)) \/ UNCHANGED vars
  BY <1>3, <1>7 DEF Edit, vars, clientVars
<1> QED BY <1>4, <1>5, <1>6, <1>7 DEF Next

\* For any tool calls, documents and messages: as long as the language server runs
\* nothing a session does ends the MCP server by an uncaught exception, except
\* reading a message of a shape the handler does not expect.
THEOREM CrashCorrect == Spec => CrashHasCause
<1>1. Init => QuietBeforeStart
  BY DEF Init, ClientInit, QuietBeforeStart
<1>2. CorrelationInv /\ SyncInv /\ SyncInv' /\ QuietBeforeStart /\ [Next]_vars => QuietBeforeStart'
  BY QuietKept
<1>3. CorrelationInv /\ SyncInv /\ QuietBeforeStart /\ [Next]_vars
        => [host = "up" /\ host' = "crashed" =>
              proc = "exited" \/ (stdout # <<>> /\ Head(stdout) = Junk(TRUE) /\ stdout' = Tail(stdout))]_vars
  BY HostSteps DEF TripsOver
<1> QED BY <1>1, <1>2, <1>3, CorrelationCorrect, SyncCorrect, PTL DEF Spec, CrashHasCause
=============================================================================
