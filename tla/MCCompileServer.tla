--------------------------- MODULE MCCompileServer ---------------------------
(***************************************************************************)
(* What comments of the server say of it, which the code does not do.      *)
(***************************************************************************)
EXTENDS CompileServer

\* ServerThread.java:148 runs the compiler in a thread of its own "to preserve
\* compiler thread local storage": what a compiler does to its list of
\* directories leaves the server's own directory alone.
DirectoryPreserved == jvm = "running" => Server \in dirs

\* ProxyServer.java:177-178 manages one connection at a time "to avoid interactions
\* on system.err and system.out": what back ends print reaches the client that the
\* file is compiled for, as what the compiler prints does, or the console.
OutputsNeverCross == \A c \in Clients : forwarded[c] \subseteq {c}
=============================================================================
