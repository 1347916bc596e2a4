------------------------------- MODULE MCArena -------------------------------
EXTENDS Arena

\* A line of spaces, which counts as a bare number, a short line, a longer one.
MCBodies == {<<SPC>>, <<65>>, <<66, 67>>}

\* One fits a small body, one does not.
MCTexts == {<<70>>, <<71, 72>>}
MCAnswers == {<<70>>}

\* Longer than a small body.
MCLongAnswers == {<<70, 71, 72>>}
=============================================================================
