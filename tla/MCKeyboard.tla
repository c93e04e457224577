----------------------------- MODULE MCKeyboard -----------------------------
(* A small instance of Keyboard for TLC. *)
EXTENDS KeyboardProperties

CONSTANTS a, lower, upper, text

MCGlyph(k, caps) == IF caps THEN upper ELSE lower
MCTexts == {<<text, NewLine>>}
MCViews == {{p} : p \in 0 .. ROWS * COLUMNS - 1}
MCPrompt == <<text>>

Tame == ~wild
=============================================================================
