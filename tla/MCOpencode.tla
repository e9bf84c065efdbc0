----------------------------- MODULE MCOpencode -----------------------------
EXTENDS Opencode

\* What a server may send: fields of each kind, data of several lines (the first
\* of them empty, or indented), lines that are skipped, ends of lines of both kinds,
\* a character of two bytes, and events that no blank line ends.
MCBodies == {
    <<"data", ":", " ", "c1", "c2", LF, LF>>,
    <<"event", ":", "a", CR, LF, "data", ":", "a", CR, LF, CR, LF, "data", ":", "7">>,
    <<"data", ":", "a", LF, "data", ":", " ", " ", "a", LF, LF, LF>>,
    <<"data", LF, "data", ":", "a", LF, "data", LF, LF>>,
    <<"data", ":", LF, LF, "data", ":", "7", LF, LF>>,
    <<":", "a", LF, "id", ":", "7", LF, "retry", ":", "a", LF, LF>>,
    <<"retry", ":", "7", LF, "a", ":", "a", LF, LF, "id", LF>>,
    <<"data", ":", "c1", CR, LF, LF, "data", ":", "a", CR>>,
    <<>>}
=============================================================================
