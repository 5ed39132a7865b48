------------------------------ MODULE MCLexer ------------------------------
EXTENDS Lexer

MCLetters == {"O", "N"}
MCKeywords == {<<"O", "N">>, <<"N", "O">>}

Strings(alphabet, n) == BoundedSeq(alphabet, n)

\* Every text of up to three of these characters: words, numbers, operators, the unknown.
WordTexts == Strings({"O", "N", "_", "5", ".", "-", "sp", "<", "=", "#"}, 3)

\* Every text of four or six of these: signs and points, quotes and lines.
NumberTexts == [1..4 -> {"O", "5", ".", "-"}]
QuoteTexts == [1..6 -> {"O", "sq", "bq", "nl"}]

CommentTexts == {<<"O", "-", "-">> \o s : s \in Strings({"-", "O", "sp", "nl", "sq"}, 4)}

\* Comments whose line is not followed by a blank, nor ends in blanks only, nor starts with
\* a quote.
PlainCommentTexts ==
  {s \o t : s \in {<<"O", "-", "-", "O">>, <<"-", "-", "5", "sp", "O">>, <<"-", "-">>},
            t \in {<<"nl", "O">> \o u : u \in Strings({"O", "nl", "sp", "sq"}, 3)}}

AllTexts == WordTexts \union NumberTexts \union QuoteTexts \union PlainCommentTexts

\* The condition of CommentsEnd (LexerProofs).
ASSUME PlainAssumption == \A t \in AllTexts : CommentsArePlain(t)
=============================================================================
