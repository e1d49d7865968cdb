---------------------------- MODULE MCSpringServer ----------------------------
\* Two tool calls and up to three language servers over the extracted directory.
EXTENDS SpringServer
=============================================================================
