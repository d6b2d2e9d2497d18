------------------------------ MODULE MCPrompt ------------------------------
(* Model-checking instance of Prompt: a letter, a punctuation mark and a space. *)
EXTENDS Prompt

MCRunes == {"a", "-", " "}
MCWord  == {"a"}
MCSpace == {" ", "tab"}

\* Every action on a key of its own.
MCBindings ==
    {<<a>> : a \in {"beginning-of-line", "end-of-line", "backward-char", "forward-char",
                    "backward-word", "forward-word", "delete-char", "delete-char/eof",
                    "backward-delete-char", "backward-delete-char/eof", "char", "put", "yank",
                    "change-query", "clear-query", "cancel", "unix-line-discard",
                    "unix-word-rubout", "backward-kill-word", "kill-word", "kill-line",
                    "prev-history", "next-history", "abort", "accept", "print-query"}}
MCOnChange == <<"end-of-line">>
MCNoActions == <<>>
MCTexts == {<<"-", "a">>}
MCHistory == <<<<"a", "tab">>>>

\* A key that deletes a character and puts two in its place.
MCReplace == {<<"char">>, <<"backward-delete-char", "put">>}
MCText == {<<"-">>}
=============================================================================
