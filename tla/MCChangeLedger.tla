--------------------------- MODULE MCChangeLedger ---------------------------
(* Values for TLC that a configuration file cannot express.                  *)
EXTENDS ChangeLedger

\* Two paragraphs: the letter stays usable without the second one only.
TwoParagraphs == <<110, 60>>
=============================================================================
