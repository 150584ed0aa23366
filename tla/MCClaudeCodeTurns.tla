------------------------- MODULE MCClaudeCodeTurns -------------------------
EXTENDS ClaudeCodeTurns

\* The final word of a turn at one unit and at just over one; messages around
\* tool use, which have no text, with usage, with none spent and with none told.
MCMessages ==
  { [text |-> "done", tokens |-> <<0, 1>>], [text |-> "done", tokens |-> <<1, 200>>],
    [text |-> NoText, tokens |-> <<1, 200>>], [text |-> NoText, tokens |-> <<0, 0>>],
    [text |-> NoText, tokens |-> NoUsage] }

\* Versions that send the prompt's id, with and without the last message, and
\* older ones that send the last message alone.
AllVersions == { {"prompt"}, {"prompt", "message"}, {"message"} }
=============================================================================
