----------------------------- MODULE MCKeyboard -----------------------------
EXTENDS Keyboard

\* A signal prompt edited while clicks arrive in pieces; one edited while
\* function keys do; the setup popup; keys typed right behind Esc; and popups
\* to be closed.
MCSessions == {{"k", "Back", "9", "KeypadEnter", "Release"},
               {"F9", "F3", "Back", "KeypadEnter", "BackTab", "F10"},
               {"F2", "Down", "Right", "Left", "LF"},
               {"Esc", "[", "9", "F10", "Press", "q"},
               {"Esc", "F1", "Return", "d", "Release", "RightRelease"}}
MCUnder == {"row", "header", "F9", "nothing"}
MCRefreshes == {100, 5000}
=============================================================================
