------------------------------- MODULE HookFiles -------------------------------
(***************************************************************************)
(* The files that the plugins write from their hooks.  logEvent() of         *)
(* plugins/hook-logger/hook-logger.ts and logReview() of the review gate     *)
(* append a line each to files in one directory, one of which is modelled;   *)
(* the hook of plugins/system-prompt-tools/system-prompt-tools.ts overwrites *)
(* a dump in another.  opencode runs hooks of different sessions at the same *)
(* time, and every await lets another hook go on.                           *)
(*                                                                         *)
(* A line is written by one write, which holds for those shorter than the    *)
(* chunks Node writes; the dump's text is written by one write or a part of  *)
(* it.                                                                     *)
(***************************************************************************)
EXTENDS Naturals, Sequences

CONSTANTS
    Line,      \* the calls of logEvent() and logReview() for one .jsonl file
    Request,   \* the requests whose prompt is dumped
    LengthOf   \* the length of each dumped text

ASSUME RequestAssumption == Line \cap Request = {}
ASSUME LengthAssumption == LengthOf \in [Request -> Nat \ {0}]

VARIABLES
    dirs,     \* the directories that exist
    step,     \* each hook: "idle", "making", "opening", "writing", "done"
    log,      \* the entries of the .jsonl file
    dump,     \* whose text is where in last-system-prompt.txt
    refused,  \* history: the hooks that met an error
    earlier   \* history: those of its directory that were over when a hook began

vars == <<dirs, step, log, dump, refused, earlier>>

Hook == Line \cup Request

DirOf(h) == IF h \in Line THEN "opencode-hook-output" ELSE "opencode"

\* Mutant of Over: the hook does not await its file.
ReturnsAtOnce(h) == step[h] # "idle"

Over(h) == step[h] = "done"

Init ==
    /\ dirs \in SUBSET {"opencode-hook-output", "opencode"}
    /\ step = [h \in Hook |-> "idle"]
    /\ log = <<>>
    /\ dump = <<>>
    /\ refused = {}
    /\ earlier = [h \in Hook |-> {}]

Goto(h, s) == step' = [step EXCEPT ![h] = s]

\* The catch block: nothing is thrown, the hook just ends.
Swallow(h) == Goto(h, "done") /\ refused' = refused \cup {h}

\* The hook is called and looks for its directory, before its first await.
Begin(h) ==
    /\ step[h] = "idle"
    /\ Goto(h, IF DirOf(h) \in dirs THEN "opening" ELSE "making")
    /\ earlier' = [earlier EXCEPT ![h] = {g \in Hook : Over(g) /\ DirOf(g) = DirOf(h)}]
    /\ UNCHANGED <<dirs, log, dump, refused>>

\* Mutant of Mkdir: without { recursive: true } a directory that another hook
\* has made meanwhile is an error.
MkdirUnlessThere(h) ==
    /\ step[h] = "making"
    /\ dirs' = dirs \cup {DirOf(h)}
    /\ Goto(h, IF DirOf(h) \in dirs THEN "done" ELSE "opening")
    /\ UNCHANGED <<log, dump, refused, earlier>>

\* mkdir(..., { recursive: true }) ends: the directory is there, whoever made
\* it, or cannot be made.
Mkdir(h) ==
    /\ step[h] = "making"
    /\ \/ /\ dirs' = dirs \cup {DirOf(h)}
          /\ Goto(h, "opening")
          /\ refused' = refused
       \/ dirs' = dirs /\ Swallow(h)
    /\ UNCHANGED <<log, dump, earlier>>

Entry(l, whole) == [line |-> l, whole |-> whole]

AppendEntry(l, whole) == log' = Append(log, Entry(l, whole))

\* appendFile() ends: the line is at the end of its file, or a part of it, or
\* nothing.
AppendLine(l) ==
    /\ step[l] = "opening"
    /\ \/ AppendEntry(l, TRUE) /\ Goto(l, "done") /\ refused' = refused
       \/ (AppendEntry(l, FALSE) \/ log' = log) /\ Swallow(l)
    /\ UNCHANGED <<dirs, dump, earlier>>

\* Mutant of Opened: the file is opened without being cut ("r+" for "w").
OpenedAsItIs == dump

\* The flag "w".
Opened == <<>>

\* writeFile() opens the dump, or cannot.
Open(r) ==
    /\ step[r] = "opening"
    /\ \/ dump' = Opened /\ Goto(r, "writing") /\ refused' = refused
       \/ dump' = dump /\ Swallow(r)
    /\ UNCHANGED <<dirs, log, earlier>>

\* The first n characters of a request's text, over what is in the file.
Overwritten(r, n) ==
    [i \in 1..(IF n > Len(dump) THEN n ELSE Len(dump)) |-> IF i <= n THEN r ELSE dump[i]]

\* ... and writes its text at the beginning, or as much as there is room for.
Write(r) ==
    /\ step[r] = "writing"
    /\ \/ dump' = Overwritten(r, LengthOf[r]) /\ Goto(r, "done") /\ refused' = refused
       \/ \E n \in 0..(LengthOf[r] - 1) : dump' = Overwritten(r, n) /\ Swallow(r)
    /\ UNCHANGED <<dirs, log, earlier>>

Next ==
    \/ \E h \in Hook : Begin(h)
    \/ \E h \in Hook : Mkdir(h)
    \/ \E l \in Line : AppendLine(l)
    \/ \E r \in Request : Open(r)
    \/ \E r \in Request : Write(r)

Spec == Init /\ [][Next]_vars

-----------------------------------------------------------------------------
(***************************************************************************)
(* Properties.                                                             *)
(***************************************************************************)
\* Where the entries of a line are.
EntriesOf(l) == {n \in DOMAIN log : log[n].line = l}

\* Every event has its line, once, when its hook is over, unless the file system
\* refused it: hooks that find the directory missing and all make it do not cost
\* each other their lines.
LinesAreKept ==
    \A l \in Line : Over(l) /\ l \notin refused =>
        \E n \in DOMAIN log : EntriesOf(l) = {n} /\ log[n].whole

\* Events that do not overlap are in the order in which they happened, whatever
\* overlapping ones do.
LinesKeepOrder ==
    \A l \in Line : \A k \in Line \cap earlier[l] :
        \A n \in EntriesOf(l), m \in EntriesOf(k) : m < n

\* "stale content from the prior request should not remain": once a request has
\* opened the dump, the text of those that were over before it began is gone
\* for good, also while others write.
StaleTextGoes ==
    \A r \in Request :
        step[r] = "writing" \/ (Over(r) /\ r \notin refused) =>
            \A i \in DOMAIN dump : dump[i] \notin earlier[r]
-----------------------------------------------------------------------------
(***************************************************************************)
(* The inductive invariant behind them.                                    *)
(***************************************************************************)
FilesOK ==
    /\ step \in [Hook -> {"idle", "making", "opening", "writing", "done"}]
    /\ log \in Seq([line : Line, whole : BOOLEAN])
    /\ dump \in Seq(Request)
    /\ earlier \in [Hook -> SUBSET Hook]

\* Nothing is written for a line before its hook is over, and nothing after.
UnwrittenLines == \A l \in Line : ~Over(l) => EntriesOf(l) = {}

\* What was over when a hook began is over.
EarlierAreOver == \A h \in Hook : \A g \in earlier[h] : Over(g)

HookInv ==
    /\ FilesOK
    /\ UnwrittenLines
    /\ EarlierAreOver
    /\ LinesAreKept
    /\ LinesKeepOrder
    /\ StaleTextGoes
=============================================================================
