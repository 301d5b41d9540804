----------------------------- MODULE MCTextEditor ------------------------------
(* TextEditor on a text of three bytes. *)
EXTENDS TextEditor

Edit(start, end, text, safety) ==
    [start |-> start, end |-> end, text |-> text, safety |-> safety]

MCSource == <<"a", "b", "c">>

\* Two insertions at the start, one in the middle, deletions and replacements that touch
\* and overlap, an edit that is less safe, and one beyond the end of the text.
MCEdits ==
    {Edit(0, 0, <<"x">>, "Safe"), Edit(0, 0, <<"y">>, "Safe"),
     Edit(1, 1, <<"z">>, "Safe"),
     Edit(0, 1, <<"A">>, "Safe"), Edit(1, 3, <<>>, "Safe"), Edit(0, 3, <<>>, "Safe"),
     Edit(1, 2, <<"B">>, "Unsafe"), Edit(2, 4, <<>>, "Safe")}
===============================================================================
