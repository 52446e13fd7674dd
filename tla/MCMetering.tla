----------------------------- MODULE MCMetering -----------------------------
(***************************************************************************)
(* Metering, instantiated for TLC.                                         *)
(***************************************************************************)
EXTENDS Metering

CONSTANTS c1, c2    \* two calls

Asks(kind, noLog, retain, cached) ==
    {a \in Ask : a.kind \in kind /\ a.noLog \in noLog /\ a.retain \in retain
                 /\ a.cached \in cached /\ (a.retain => ~a.cached)}

\* Chats: unbound and cacheable, bound and retained, or opted out.
ChatWork == Asks(Chats, {FALSE}, {FALSE}, {TRUE}) \cup Asks(Chats, {FALSE}, {TRUE}, {FALSE})
              \cup Asks(Chats, {TRUE}, {FALSE}, {FALSE})

\* The other endpoints, and an embeddings call that is bound.
OtherWork == Asks(Kinds \ Chats, {FALSE}, {FALSE}, {FALSE})
               \cup Asks({"embeddings"}, {FALSE}, {TRUE}, {FALSE})

\* One call of every sort, and a plain cacheable one beside it.
MCWorkload == c1 :> (ChatWork \cup OtherWork) @@ c2 :> Asks({"plain"}, {FALSE}, {FALSE}, {TRUE})

\* A complete answer; one without usage; one the capture does not understand.
MCScripts == {<<"delta", "usage", "done">>, <<"delta", "done">>, <<"odd", "usage", "done">>}

\* Everything kept, nothing kept; between them a reload flips both gates.
MCStorages == {[prompts |-> b, content |-> b] : b \in BOOLEAN}
=============================================================================
