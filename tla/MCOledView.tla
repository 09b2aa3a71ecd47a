----------------------------- MODULE MCOledView ------------------------------
(***************************************************************************)
(* A glass three columns wide that holds one line of letters, or two of    *)
(* Japanese, below its title.                                              *)
(***************************************************************************)
EXTENDS OledView

Glyph(break, width, bytes, height) ==
    [break |-> break, width |-> width, bytes |-> bytes, height |-> height]

Letter == Glyph("none", 1, 1, 4)
Kanji == Glyph("none", 2, 3, 3)
Space == Glyph("space", 1, 1, 4)
Comma == Glyph("punct", 1, 1, 4)
Banner == Glyph("none", 4, 3, 4)

MCStatusText == <<Letter>>

\* One page, two and three; lines that end at a space, at punctuation, at neither,
\* with one glyph that is too wide; a text that is cut in its copy and has more
\* lines than are kept.
MCTexts == {
    <<Space, Kanji, Kanji, Space>>,
    <<Letter, Letter, Comma, Space, Space, Banner, Letter>>,
    <<Kanji, Space, Kanji, Kanji, Letter, Letter, Letter>>}

=============================================================================
