---------------------------- MODULE MCStreams ----------------------------
EXTENDS Streams

Piece(kind, id, body, more) == [kind |-> kind, id |-> id, body |-> body, more |-> more]

Uses == [input |-> 2, read |-> 1, written |-> 1, output |-> 1]

\* Text in two pieces, one with a wide character; thinking and a cited text, cut by
\* the token limit; text, two calls and one of the provider's own tools between
\* them; a call whose input was cut short.
MCAnswers == {
    [blocks |-> <<Piece("text", "", <<"u", "w">>, <<>>)>>,
     first |-> Uses, last |-> [output |-> 3], stop |-> "end_turn"],
    [blocks |-> <<Piece("thinking", "", <<"u">>, <<"sig">>),
                  Piece("redacted_thinking", "", <<"v">>, <<>>),
                  Piece("text", "", <<"w">>, <<"c1", "c2">>)>>,
     first |-> Uses, last |-> [output |-> 2, thinking |-> 1], stop |-> "max_tokens"],
    [blocks |-> <<Piece("text", "", <<"u">>, <<>>),
                  Piece("tool_use", "t1", <<"u", "v">>, <<>>),
                  Piece("server_tool_use", "s1", <<"v">>, <<>>),
                  Piece("tool_use", "t2", <<>>, <<>>)>>,
     first |-> [input |-> 1, output |-> 0], last |-> [output |-> 2], stop |-> "tool_use"],
    [blocks |-> <<Piece("tool_use", "t1", <<"u", "cut">>, <<>>)>>,
     first |-> Uses, last |-> [output |-> 2], stop |-> "max_tokens"] }
=============================================================================
