--------------------------- MODULE HookFiles_proofs ---------------------------
(***************************************************************************)
(* Theorems about the files of the plugins, for any number of overlapping   *)
(* hooks and prompts of any length.                                        *)
(***************************************************************************)
EXTENDS HookFiles, TLAPS

-----------------------------------------------------------------------------
\* What an append does to the entries of each line.
LEMMA AppendedEntries ==
  ASSUME FilesOK, NEW l \in Line, NEW w \in BOOLEAN, log' = Append(log, Entry(l, w))
  PROVE  /\ log' \in Seq([line : Line, whole : BOOLEAN])
         /\ EntriesOf(l)' = EntriesOf(l) \cup {Len(log) + 1}
         /\ \A k \in Line \ {l} : EntriesOf(k)' = EntriesOf(k)
         /\ log'[Len(log) + 1] = Entry(l, w)
         /\ \A n \in DOMAIN log : n \in DOMAIN log' /\ log'[n] = log[n]
         /\ Len(log) \in Nat /\ DOMAIN log = 1..Len(log)
<1> DEFINE E == Entry(l, w)
<1>1. E \in [line : Line, whole : BOOLEAN] /\ E.line = l
  BY DEF Entry
<1>2. log \in Seq([line : Line, whole : BOOLEAN])
  BY DEF FilesOK
<1> HIDE DEF E
<1>3. log' = Append(log, E)
  BY DEF E
<1>4. /\ log' \in Seq([line : Line, whole : BOOLEAN])
      /\ Len(log) \in Nat /\ DOMAIN log = 1..Len(log)
      /\ DOMAIN log' = 1..(Len(log) + 1)
      /\ log'[Len(log) + 1] = E
      /\ \A n \in 1..Len(log) : log'[n] = log[n]
  BY <1>1, <1>2, <1>3
<1>5. \A n \in DOMAIN log : n \in DOMAIN log' /\ n # Len(log) + 1
  BY <1>4
<1>6. DOMAIN log' = DOMAIN log \cup {Len(log) + 1}
  BY <1>4
<1>7. EntriesOf(l)' = EntriesOf(l) \cup {Len(log) + 1}
  BY <1>1, <1>4, <1>5, <1>6 DEF EntriesOf
<1>8. \A k \in Line \ {l} : EntriesOf(k)' = EntriesOf(k)
  BY <1>1, <1>4, <1>5, <1>6 DEF EntriesOf
<1> QED BY <1>4, <1>5, <1>7, <1>8 DEF E

\* What a write does to the dump: its own text, and what was there.
LEMMA OverwrittenText ==
  ASSUME dump \in Seq(Request), NEW r \in Request, NEW n \in Nat
  PROVE  /\ Overwritten(r, n) \in Seq(Request)
         /\ \A i \in DOMAIN Overwritten(r, n) :
              Overwritten(r, n)[i] = r \/ (i \in DOMAIN dump /\ Overwritten(r, n)[i] = dump[i])
<1> DEFINE m == IF n > Len(dump) THEN n ELSE Len(dump)
<1>1. Len(dump) \in Nat /\ DOMAIN dump = 1..Len(dump) /\ \A i \in 1..Len(dump) : dump[i] \in Request
  OBVIOUS
<1>2. m \in Nat
  BY <1>1
<1>3. Overwritten(r, n) = [i \in 1..m |-> IF i <= n THEN r ELSE dump[i]]
  BY DEF Overwritten
<1>4. \A i \in 1..m : i > n => i \in 1..Len(dump)
  BY <1>1
<1> HIDE DEF m
<1>5. \A i \in 1..m : (IF i <= n THEN r ELSE dump[i]) \in Request
  BY <1>1, <1>2, <1>4
<1>6. Overwritten(r, n) \in [1..m -> Request]
  BY <1>3, <1>5
<1> QED BY <1>1, <1>2, <1>3, <1>4, <1>6

-----------------------------------------------------------------------------
\* Before the first hook the invariant holds.
LEMMA FilesInit == Init => HookInv
<1> SUFFICES ASSUME Init PROVE HookInv
  OBVIOUS
<1> USE DEF Init, Hook
<1>1. FilesOK
  BY DEF FilesOK
<1>2. \A h \in Hook : ~Over(h) /\ step[h] # "writing" /\ earlier[h] = {}
  BY DEF Over
<1>3. \A l \in Line : EntriesOf(l) = {}
  BY DEF EntriesOf
<1>4. UnwrittenLines /\ LinesAreKept /\ LinesKeepOrder
  BY <1>2, <1>3 DEF UnwrittenLines, LinesAreKept, LinesKeepOrder
<1>5. EarlierAreOver /\ StaleTextGoes
  BY <1>2 DEF EarlierAreOver, StaleTextGoes
<1> QED BY <1>1, <1>4, <1>5 DEF HookInv

\* A hook begins, or its directory is made or not: the files stay as they are.
LEMMA BeginKeeps == ASSUME HookInv, NEW h \in Hook, Begin(h) PROVE HookInv'
<1> USE DEF Hook
<1>1. /\ step[h] = "idle" /\ log' = log /\ dump' = dump /\ refused' = refused
      /\ step' \in [Hook -> {"idle", "making", "opening", "writing", "done"}]
      /\ \A g \in Hook : g # h => step'[g] = step[g]
      /\ step'[h] \in {"making", "opening"}
  BY DEF Begin, Goto, HookInv, FilesOK
<1>2. /\ earlier' \in [Hook -> SUBSET Hook]
      /\ \A g \in Hook : g # h => earlier'[g] = earlier[g]
      /\ \A g \in earlier'[h] : g \in Hook /\ Over(g)
  BY DEF Begin, HookInv, FilesOK
<1>3. \A g \in Hook : Over(g)' = Over(g)
  BY <1>1 DEF Over
<1>4. \A l \in Line : EntriesOf(l)' = EntriesOf(l)
  BY <1>1 DEF EntriesOf
<1>5. FilesOK'
  BY <1>1, <1>2 DEF HookInv, FilesOK
<1>6. UnwrittenLines'
  BY <1>3, <1>4 DEF HookInv, UnwrittenLines
<1>7. EarlierAreOver'
  BY <1>2, <1>3 DEF HookInv, EarlierAreOver, FilesOK
<1>8. LinesAreKept'
  BY <1>1, <1>3, <1>4 DEF HookInv, LinesAreKept
<1>9. LinesKeepOrder'
  <2> SUFFICES ASSUME NEW l \in Line, NEW k \in Line \cap earlier'[l],
                      NEW n \in EntriesOf(l)', NEW m \in EntriesOf(k)'
               PROVE  m < n
    BY DEF LinesKeepOrder
  <2>1. EntriesOf(h) = {} \/ h \notin Line
    BY <1>1 DEF HookInv, UnwrittenLines, Over
  <2> QED BY <1>2, <1>4, <2>1 DEF HookInv, LinesKeepOrder
<1>10. StaleTextGoes'
  <2> SUFFICES ASSUME NEW r \in Request,
                      step'[r] = "writing" \/ (Over(r)' /\ r \notin refused'),
                      NEW i \in DOMAIN dump'
               PROVE  dump'[i] \notin earlier'[r]
    BY DEF StaleTextGoes
  <2>1. r # h
    BY <1>1 DEF Over
  <2> QED BY <1>1, <1>2, <1>3, <2>1 DEF HookInv, StaleTextGoes
<1> QED BY <1>5, <1>6, <1>7, <1>8, <1>9, <1>10 DEF HookInv

\* The directory is made, or not: the files stay, and a line that is lost met an
\* error.
LEMMA MkdirKeeps == ASSUME HookInv, NEW h \in Hook, Mkdir(h) PROVE HookInv'
<1> USE DEF Hook
<1>1. /\ step[h] = "making" /\ log' = log /\ dump' = dump /\ earlier' = earlier
      /\ step' \in [Hook -> {"idle", "making", "opening", "writing", "done"}]
      /\ \A g \in Hook : g # h => step'[g] = step[g]
      /\ \/ step'[h] = "opening" /\ refused' = refused
         \/ step'[h] = "done" /\ refused' = refused \cup {h}
  BY DEF Mkdir, Goto, Swallow, HookInv, FilesOK
<1>2. \A g \in Hook : Over(g) => Over(g)'
  BY <1>1 DEF Over
<1>3. \A g \in Hook : Over(g)' /\ g \notin refused' => Over(g) /\ g \notin refused
  BY <1>1 DEF Over
<1>4. \A l \in Line : EntriesOf(l)' = EntriesOf(l)
  BY <1>1 DEF EntriesOf
<1>5. FilesOK'
  BY <1>1 DEF HookInv, FilesOK
<1>6. UnwrittenLines'
  BY <1>2, <1>4 DEF HookInv, UnwrittenLines
<1>7. EarlierAreOver'
  BY <1>1, <1>2 DEF HookInv, EarlierAreOver, FilesOK
<1>8. LinesAreKept'
  BY <1>1, <1>3, <1>4 DEF HookInv, LinesAreKept
<1>9. LinesKeepOrder'
  BY <1>1, <1>4 DEF HookInv, LinesKeepOrder
<1>10. StaleTextGoes'
  <2>1. \A r \in Request : step'[r] = "writing" => step[r] = "writing"
    BY <1>1
  <2> QED BY <1>1, <1>3, <2>1 DEF HookInv, StaleTextGoes
<1> QED BY <1>5, <1>6, <1>7, <1>8, <1>9, <1>10 DEF HookInv

\* A line is appended, whole, in part or not at all.
LEMMA AppendKeeps == ASSUME HookInv, NEW l \in Line, AppendLine(l) PROVE HookInv'
<1> USE DEF Hook
<1>1. /\ step[l] = "opening" /\ step'[l] = "done" /\ dump' = dump /\ earlier' = earlier
      /\ step' \in [Hook -> {"idle", "making", "opening", "writing", "done"}]
      /\ \A g \in Hook : g # l => step'[g] = step[g]
      /\ \A g \in Hook : g # l => (g \in refused' <=> g \in refused)
      /\ \A g \in Hook : Over(g) => Over(g)'
      /\ \A g \in Hook : g # l => (Over(g)' <=> Over(g))
  BY DEF AppendLine, Goto, Swallow, Over, HookInv, FilesOK
<1>2. FilesOK /\ EntriesOf(l) = {} /\ ~Over(l)
  BY <1>1 DEF HookInv, UnwrittenLines, Over
<1>3. StaleTextGoes'
  BY <1>1, RequestAssumption DEF HookInv, StaleTextGoes
<1>4. EarlierAreOver'
  BY <1>1 DEF HookInv, EarlierAreOver, FilesOK
<1>5. \A k \in Line : l \notin earlier[k]
  BY <1>2 DEF HookInv, EarlierAreOver
<1>6. CASE log' = log
  <2>1. l \in refused'
    <3>1. ~AppendEntry(l, TRUE)
      <4>1. ASSUME AppendEntry(l, TRUE) PROVE EntriesOf(l)' = EntriesOf(l) \cup {Len(log) + 1}
        BY <1>2, <4>1, AppendedEntries DEF AppendEntry
      <4> QED BY <1>2, <1>6, <4>1 DEF EntriesOf
    <3> QED BY <3>1 DEF AppendLine, Swallow
  <2>2. \A k \in Line : EntriesOf(k)' = EntriesOf(k)
    BY <1>6 DEF EntriesOf
  <2>3. FilesOK'
    BY <1>1, <1>2, <1>6 DEF FilesOK
  <2>4. UnwrittenLines'
    BY <1>1, <2>2 DEF HookInv, UnwrittenLines
  <2>5. LinesAreKept'
    BY <1>1, <1>6, <2>1, <2>2 DEF HookInv, LinesAreKept
  <2>6. LinesKeepOrder'
    BY <1>1, <2>2 DEF HookInv, LinesKeepOrder
  <2> QED BY <1>3, <1>4, <2>3, <2>4, <2>5, <2>6 DEF HookInv
<1>7. ASSUME NEW w \in BOOLEAN, AppendEntry(l, w), w \/ l \in refused' PROVE HookInv'
  <2>1. /\ log' \in Seq([line : Line, whole : BOOLEAN])
        /\ EntriesOf(l)' = {Len(log) + 1}
        /\ \A k \in Line \ {l} : EntriesOf(k)' = EntriesOf(k)
        /\ log'[Len(log) + 1] = Entry(l, w)
        /\ \A n \in DOMAIN log : n \in DOMAIN log' /\ log'[n] = log[n]
        /\ Len(log) \in Nat /\ DOMAIN log = 1..Len(log)
    BY <1>2, <1>7, AppendedEntries DEF AppendEntry
  <2>2. FilesOK'
    BY <1>1, <1>2, <2>1 DEF FilesOK
  <2>3. UnwrittenLines'
    BY <1>1, <2>1 DEF HookInv, UnwrittenLines, Over
  <2>4. LinesAreKept'
    <3>1. ASSUME NEW k \in Line \ {l}, Over(k)', k \notin refused'
          PROVE  \E n \in DOMAIN log' : EntriesOf(k)' = {n} /\ log'[n].whole
      <4>1. Over(k) /\ k \notin refused
        BY <1>1, <3>1
      <4>2. PICK n \in DOMAIN log : EntriesOf(k) = {n} /\ log[n].whole
        BY <4>1 DEF HookInv, LinesAreKept
      <4> QED BY <2>1, <4>2
    <3>2. ASSUME l \notin refused'
          PROVE  \E n \in DOMAIN log' : EntriesOf(l)' = {n} /\ log'[n].whole
      <4>1. Len(log) + 1 \in DOMAIN log'
        BY <2>1 DEF EntriesOf
      <4>2. log'[Len(log) + 1].whole
        BY <1>7, <2>1, <3>2 DEF Entry
      <4> QED BY <2>1, <4>1, <4>2
    <3> QED BY <3>1, <3>2 DEF LinesAreKept
  <2>5. LinesKeepOrder'
    <3> SUFFICES ASSUME NEW k \in Line, NEW j \in Line \cap earlier'[k],
                        NEW n \in EntriesOf(k)', NEW m \in EntriesOf(j)'
                 PROVE  m < n
      BY DEF LinesKeepOrder
    <3>1. j # l /\ m \in EntriesOf(j)
      BY <1>1, <1>5, <2>1
    <3>2. CASE k = l
      <4>1. n = Len(log) + 1 /\ m \in 1..Len(log)
        BY <2>1, <3>1, <3>2 DEF EntriesOf
      <4> QED BY <2>1, <4>1
    <3>3. CASE k # l
      BY <1>1, <2>1, <3>1, <3>3 DEF HookInv, LinesKeepOrder
    <3> QED BY <3>2, <3>3
  <2> QED BY <1>3, <1>4, <2>2, <2>3, <2>4, <2>5 DEF HookInv
<1> QED BY <1>6, <1>7 DEF AppendLine, Swallow

\* The dump is opened or written: no line is touched, and what is in it comes
\* from requests that were not over when the latest began.
LEMMA DumpKeeps == ASSUME HookInv, NEW r \in Request, Open(r) \/ Write(r) PROVE HookInv'
<1> USE DEF Hook
<1>1. /\ log' = log /\ earlier' = earlier /\ ~Over(r)
      /\ step' \in [Hook -> {"idle", "making", "opening", "writing", "done"}]
      /\ \A g \in Hook : g # r => step'[g] = step[g]
      /\ \A g \in Hook : g # r => (g \in refused' <=> g \in refused)
      /\ \A g \in Hook : Over(g) => Over(g)'
      /\ \A g \in Hook : g # r => (Over(g)' <=> Over(g))
  BY DEF Open, Write, Goto, Swallow, Over, HookInv, FilesOK
<1>2. \A l \in Line : EntriesOf(l)' = EntriesOf(l) /\ l # r
  BY <1>1, RequestAssumption DEF EntriesOf
<1>3. UnwrittenLines' /\ LinesAreKept' /\ LinesKeepOrder'
  BY <1>1, <1>2 DEF HookInv, UnwrittenLines, LinesAreKept, LinesKeepOrder
<1>4. EarlierAreOver'
  BY <1>1 DEF HookInv, EarlierAreOver, FilesOK
<1>5. \A q \in Request : r \notin earlier[q]
  BY <1>1 DEF HookInv, EarlierAreOver
<1>6. CASE Open(r)
  <2>1. (dump' = <<>> /\ refused' = refused) \/ (dump' = dump /\ step'[r] = "done" /\ r \in refused')
    BY <1>6 DEF Open, Opened, Goto, Swallow, HookInv, FilesOK
  <2>2. dump' \in Seq(Request)
    <3>1. dump \in Seq(Request) /\ <<>> \in Seq(Request)
      BY DEF HookInv, FilesOK
    <3> QED BY <2>1, <3>1
  <2>3. StaleTextGoes'
    BY <1>1, <2>1 DEF HookInv, StaleTextGoes
  <2> QED BY <1>1, <1>3, <1>4, <2>2, <2>3 DEF HookInv, FilesOK
<1>7. CASE Write(r)
  <2>1. step[r] = "writing" /\ step'[r] = "done"
    BY <1>7 DEF Write, Goto, Swallow, HookInv, FilesOK
  <2>2. PICK n \in Nat : dump' = Overwritten(r, n)
    BY <1>7, LengthAssumption DEF Write
  <2>3. /\ dump' \in Seq(Request)
        /\ \A i \in DOMAIN dump' : dump'[i] = r \/ (i \in DOMAIN dump /\ dump'[i] = dump[i])
    BY <2>2, OverwrittenText DEF HookInv, FilesOK
  <2>4. StaleTextGoes'
    <3> SUFFICES ASSUME NEW q \in Request, NEW i \in DOMAIN dump',
                        step'[q] = "writing" \/ (Over(q)' /\ q \notin refused')
                 PROVE  dump'[i] \notin earlier'[q]
      BY DEF StaleTextGoes
    <3>1. step[q] = "writing" \/ (Over(q) /\ q \notin refused)
      BY <1>1, <2>1
    <3> QED BY <1>1, <1>5, <2>3, <3>1 DEF HookInv, StaleTextGoes
  <2> QED BY <1>1, <1>3, <1>4, <2>3, <2>4 DEF HookInv, FilesOK
<1> QED BY <1>6, <1>7

\* So the invariant always holds.
LEMMA FilesAlways == Spec => []HookInv
<1>1. ASSUME HookInv, [Next]_vars PROVE HookInv'
  <2>1. CASE UNCHANGED vars
    BY <1>1, <2>1 DEF vars, HookInv, FilesOK, UnwrittenLines, EarlierAreOver, LinesAreKept,
                      LinesKeepOrder, StaleTextGoes, EntriesOf, Over
  <2> QED BY <1>1, <2>1, BeginKeeps, MkdirKeeps, AppendKeeps, DumpKeeps DEF Next
<1> QED BY <1>1, FilesInit, PTL DEF Spec

-----------------------------------------------------------------------------
\* However many events and reviews overlap, and whoever makes the directory, each
\* has its line once, unless the file system refused it.
THEOREM LinesKeptCorrect == Spec => []LinesAreKept
<1>1. HookInv => LinesAreKept
  BY DEF HookInv
<1> QED BY <1>1, FilesAlways, PTL

\* Events that do not overlap keep their order in the file.
THEOREM OrderCorrect == Spec => []LinesKeepOrder
<1>1. HookInv => LinesKeepOrder
  BY DEF HookInv
<1> QED BY <1>1, FilesAlways, PTL

\* No text of a request that was over before another began survives the other's
\* dump, whatever the lengths of the prompts.
THEOREM StaleTextCorrect == Spec => []StaleTextGoes
<1>1. HookInv => StaleTextGoes
  BY DEF HookInv
<1> QED BY <1>1, FilesAlways, PTL

=============================================================================
