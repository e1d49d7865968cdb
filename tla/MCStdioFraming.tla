---------------------------- MODULE MCStdioFraming ----------------------------
EXTENDS StdioFraming

\* A body may be empty, hold an empty line, or quote a header.
Bodies == {<<>>, <<Text>>, <<Text, Eol, Eol>>, <<Length(3), Eol>>}

MCMessage ==
    {[header |-> <<Length(Len(body)), Eol, Eol>>, body |-> body] : body \in Bodies}
        \cup {[header |-> <<Text, Eol, Length(1), Eol, Eol>>, body |-> <<Text>>],
              [header |-> <<Length(2), Eol, Text, Eol, Eol>>, body |-> <<Text, Text>>]}

\* Lines and pieces of lines, and headers without a length, also with a body.
MCOther ==
    {<<Text, Eol>>, <<Text>>, <<Eol>>, <<Text, Eol, Eol>>, <<Text, Eol, Eol, Text>>,
     <<Text, Eol, Eol, Text, Eol, Eol>>}
=============================================================================
