--------------------------------- MODULE MCFs ---------------------------------
EXTENDS Fs, TLC

CONSTANTS p1, p2

On(op, path)    == [op |-> op, path |-> path, new |-> <<>>]
Link(old, path) == [op |-> "link", path |-> old, new |-> path]

\* p1 makes directories and files named "a", also inside each other, and moves
\* about in them; p2, started by p1 wherever it is, removes them under its feet
\* and links the file.
Calls ==
    p1 :> { On("mkdir", <<"a">>), On("create", <<"a">>), On("exec", <<"a">>),
            On("chdir", <<"a">>), On("chdir", <<"..">>) } @@
    p2 :> { On("unlink", <<"a">>), On("unlink", <<"/", "a">>), On("unlink", <<"..">>),
            Link(<<"a">>, <<"b">>) }
=============================================================================
