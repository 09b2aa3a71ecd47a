--------------------------- MODULE MCSubtitleLink ---------------------------
(***************************************************************************)
(* SubtitleLink on small instances.                                        *)
(***************************************************************************)
EXTENDS SubtitleLink

\* The first sequence number: the subtitles go across the wrap.
MCBeforeWrap == {SeqSpace - 3}
=============================================================================
