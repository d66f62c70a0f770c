----------------------------- MODULE MCStringUtils -----------------------------
\* Instances of StringUtils for TLC.
EXTENDS StringUtils, SequencesExt

\* Every string of two characters up to length 7, every delimiter up to length 3: there
\* are delimiters that overlap themselves, and the empty one.
MCSplits == SeqOf({"a", "b"}, 7) \X SeqOf({"a", "b"}, 3)

\* Texts of what a number is made of, blanks, and a letter.
MCNumberChars == {"1", "-", ".", "e", "E", " ", "TAB", "f"}
MCTexts == SeqOf(MCNumberChars, 5) \X {<<"-">>}

MCChars == {"a", "b"} \cup MCNumberChars
MCCalls == MCSplits \cup MCTexts
================================================================================
