------------------------- MODULE MCSelectionSession -------------------------
(* Instances of SelectionSession: DefaultConfig, and a double click of three  *)
(* chords with a direction key among them.                                  *)
EXTENDS SelectionSession

Default == [left_click |-> << <<"space", FALSE>>, FALSE>>, right_click |-> << <<"space", FALSE>>, TRUE>>,
            double_click |-> << << <<"space", FALSE>>, FALSE>>, << <<"space", FALSE>>, FALSE>> >>,
            exit |-> << <<"Escape", FALSE>>, FALSE>>, backspace |-> << <<"BackSpace", FALSE>>, FALSE>>]
Between == [Default EXCEPT !.double_click = << << <<"space", FALSE>>, FALSE>>, << <<"Left", FALSE>>, FALSE>>, << <<"space", FALSE>>, FALSE>> >>]

MCDefault == {Default}
MCBindings == {Default, Between}
=============================================================================
