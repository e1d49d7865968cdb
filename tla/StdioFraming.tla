----------------------------- MODULE StdioFraming -----------------------------
(***************************************************************************)
(* How LspClient finds messages in what the language server writes: #onData  *)
(* of lsp-client.js, on chunks that end anywhere.                          *)
(*                                                                         *)
(* A byte is a symbol: Eol is a line end (\r\n; an empty line is two),       *)
(* Length(n) the text "Content-Length: n", Text any other.  Cutting inside  *)
(* a symbol tells the reader no more than cutting before it, as nothing but *)
(* the position of the first empty line is looked at until it is there.     *)
(***************************************************************************)
EXTENDS Naturals, Sequences, FiniteSetsExt

Symbol == [is : {"eol", "text"}] \cup [is : {"length"}, n : Nat]

Eol == [is |-> "eol"]
Text == [is |-> "text"]
Length(n) == [is |-> "length", n |-> n]

EmptyLineAt(s, i) == s[i] = Eol /\ s[i + 1] = Eol

CONSTANTS
    Message,  \* what the server may send: a header and a body
    Other,    \* what else may come out of its process at one time
    MaxItems  \* bound on how many messages and others it writes

(***************************************************************************)
(* A header starts with a line and ends with the only empty line in it.  It  *)
(* gives the length of the body, before or after other lines.               *)
(***************************************************************************)
IsHeader(header, length) ==
    LET n == Len(header) IN
      /\ n > 2 /\ header[1] # Eol
      /\ \A i \in 1..(n - 1) : EmptyLineAt(header, i) <=> i = n - 1
      /\ \E i \in 1..n : header[i].is = "length"
      /\ \A i \in 1..n : header[i].is = "length" => header[i].n = length

ASSUME MessageAssumption ==
    \A m \in Message : /\ m.header \in Seq(Symbol)
                       /\ m.body \in Seq(Symbol)
                       /\ IsHeader(m.header, Len(m.body))

\* Lines and blocks that are no messages (what a JVM prints), and a header that
\* lacks its length, with a body behind it.
ASSUME OtherAssumption == \A bytes \in Other : bytes \in Seq({Eol, Text})

ASSUME MaxItemsAssumption == MaxItems \in Nat

VARIABLES
    stream,   \* what the server's process has written
    sent,     \* its messages, and where in the stream they are
    items,    \* how many messages and others it wrote
    arrived,  \* how many bytes of the stream have been read
    buf,      \* #buf
    handled   \* the bodies given to #handleMessage, in order

serverVars == <<stream, sent, items>>
readerVars == <<arrived, buf, handled>>
vars == <<serverVars, readerVars>>

Init ==
    /\ stream = <<>> /\ sent = <<>> /\ items = 0
    /\ arrived = 0
    /\ buf = <<>>
    /\ handled = <<>>

-----------------------------------------------------------------------------
\* Where a message is that is written behind s.
PlacedAfter(s, m) ==
    LET head == Len(s) + Len(m.header) IN
      [start |-> Len(s), head |-> head, end |-> head + Len(m.body), body |-> m.body]

\* The server writes a message.
WriteMessage(m) ==
    /\ items < MaxItems
    /\ items' = items + 1
    /\ stream' = stream \o (m.header \o m.body)
    /\ sent' = Append(sent, PlacedAfter(stream, m))
    /\ UNCHANGED readerVars

\* Its process writes something else to the same pipe.
WriteOther(bytes) ==
    /\ items < MaxItems
    /\ items' = items + 1
    /\ stream' = stream \o bytes
    /\ UNCHANGED <<sent, readerVars>>

-----------------------------------------------------------------------------
(***************************************************************************)
(* The loop of #onData.  Positions are those of JavaScript: p is the number *)
(* of bytes before it.                                                     *)
(***************************************************************************)
\* this.#buf.indexOf("\r\n\r\n") in what follows p.
EmptyLines(b, p) == {i \in p..(Len(b) - 2) : EmptyLineAt(b, i + 1)}

\* CONTENT_LENGTH_RE on the header between p and end: the first length in it,
\* wherever it stands.
LengthFields(b, p, end) == {i \in (p + 1)..end : b[i].is = "length"}

\* Mutant of HasBody: one byte more is waited for.
HasMoreThanBody(b, start, n) == Len(b) > start + n

HasBody(b, start, n) == Len(b) >= start + n

\* One pass of the loop over what follows p in b, and what the passes after it
\* find: the bodies found, and where what stays in the buffer starts.
Pass(b, p, later) ==
    LET end == Min(EmptyLines(b, p))
        n == b[Min(LengthFields(b, p, end))].n
        next == later[end + 2 + n]
    IN IF EmptyLines(b, p) = {} THEN [bodies |-> <<>>, rest |-> p]
       ELSE IF LengthFields(b, p, end) = {} THEN later[end + 2]
       ELSE IF ~HasBody(b, end + 2, n) THEN [bodies |-> <<>>, rest |-> p]
       ELSE [bodies |-> <<SubSeq(b, end + 3, end + 2 + n)>> \o next.bodies,
             rest |-> next.rest]

Passes(b) == LET pass[p \in 0..Len(b)] == Pass(b, p, pass) IN pass

\* A chunk of n bytes is read.
OnData(n) ==
    /\ arrived' = arrived + n
    /\ LET b == buf \o SubSeq(stream, arrived + 1, arrived + n)
           found == Passes(b)[0]
       IN /\ handled' = handled \o found.bodies
          /\ buf' = SubSeq(b, found.rest + 1, Len(b))
    /\ UNCHANGED serverVars

Next ==
    \/ \E m \in Message : WriteMessage(m)
    \/ \E bytes \in Other : WriteOther(bytes)
    \/ \E n \in 1..(Len(stream) - arrived) : OnData(n)

Spec == Init /\ [][Next]_vars

-----------------------------------------------------------------------------
(***************************************************************************)
(* Properties.                                                             *)
(***************************************************************************)
\* However the output is cut into chunks, and whatever is written between the
\* messages, each message is handled once, in order, as soon as its last byte
\* has arrived, and nothing else is handled.
EveryMessageOnce ==
    /\ DOMAIN handled = {k \in DOMAIN sent : sent[k].end <= arrived}
    /\ \A k \in DOMAIN handled : handled[k] = sent[k].body

(***************************************************************************)
(* The invariant it follows from.                                          *)
(***************************************************************************)
Placed == [start : Nat, head : Nat, end : Nat, body : Seq(Symbol)]

TypeOK ==
    /\ stream \in Seq(Symbol)
    /\ sent \in Seq(Placed)
    /\ items \in 0..MaxItems
    /\ arrived \in 0..Len(stream)
    /\ buf \in Seq(Symbol)
    /\ handled \in Seq(Seq(Symbol))

\* The message lies where it was placed in s, as it was sent.
LiesIn(s, m) ==
    /\ m.start + 2 < m.head /\ m.end = m.head + Len(m.body) /\ m.end <= Len(s)
    /\ s[m.start + 1] # Eol
    /\ \A i \in (m.start + 1)..(m.head - 1) : EmptyLineAt(s, i) <=> i = m.head - 1
    /\ \E i \in (m.start + 1)..m.head : s[i].is = "length"
    /\ \A i \in (m.start + 1)..m.head : s[i].is = "length" => s[i].n = Len(m.body)
    /\ m.body = SubSeq(s, m.head + 1, m.end)

\* The messages are in the stream, one after the other, and no length is outside
\* of them.
WellPlaced ==
    /\ \A k \in DOMAIN sent : LiesIn(stream, sent[k])
    /\ \A j, k \in DOMAIN sent : j < k => sent[j].end <= sent[k].start
    /\ \A i \in DOMAIN stream :
         stream[i].is = "length" => \E k \in DOMAIN sent : i \in (sent[k].start + 1)..sent[k].end

\* Position p of the stream is after the first h messages and before the others.
Between(p, h) ==
    /\ h \in 0..Len(sent)
    /\ h > 0 => sent[h].end <= p
    /\ h < Len(sent) => p <= sent[h + 1].start

\* The buffer is the end of what was read.  It starts behind the last message
\* handled, and the next message is not whole in it.
BufferIsTheRest ==
    /\ Len(buf) <= arrived
    /\ buf = SubSeq(stream, arrived - Len(buf) + 1, arrived)
    /\ Between(arrived - Len(buf), Len(handled))
    /\ Len(handled) < Len(sent) => arrived < sent[Len(handled) + 1].end

HandledAsSent == \A k \in DOMAIN handled : handled[k] = sent[k].body

FramingInv == TypeOK /\ WellPlaced /\ BufferIsTheRest /\ HandledAsSent

-----------------------------------------------------------------------------
(***************************************************************************)
(* The reader implements a pipe of messages, which is what the messages of   *)
(* LspClient's stdout rest on.                                             *)
(***************************************************************************)
\* The bodies of the messages that have been sent and not handled.
Unhandled == [k \in 1..(Len(sent) - Len(handled)) |-> sent[Len(handled) + k].body]

Pipe == INSTANCE MessagePipe WITH
    Body <- {m.body : m \in Message}, queue <- Unhandled, taken <- handled

\* Chunks and what is between the messages leave no trace: the bodies handed to
\* #handleMessage are those sent, in their order, and never taken back.
ImplementsMessagePipe == Pipe!Spec
=============================================================================
