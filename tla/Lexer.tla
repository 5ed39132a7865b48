------------------------------- MODULE Lexer -------------------------------
(***************************************************************************)
(* hsql_lex, the scanner flex makes of flex_lexer.l, called in a loop by   *)
(* SQLParser::tokenize. At each point the longest match of any rule wins,  *)
(* and of equally long ones the rule that comes first. COMMENT is an       *)
(* inclusive start condition: in it the rules without a condition compete  *)
(* with the two of the comment.                                            *)
(*                                                                         *)
(* A text is a sequence of characters, one of which stands for each class  *)
(* the rules tell apart; Keywords are those its letters can spell.         *)
(***************************************************************************)
EXTENDS Integers, Sequences, SequencesExt

CONSTANTS Texts,      \* the texts given to tokenize
          Letters, Keywords

Newline == "nl"
Blanks == {"sp", Newline}
Digits == {"5"}
Quotes == {"dq", "bq"}

Marks == {"-", "+", "*", "/", "(", ")", "{", "}", ",", ".", ";", "<", ">", "=", "^", "%", ":", "?",
          "[", "]", "|"}

\* Mutant: a character is forgotten.
Singles_NoLess == Marks \ {"<"}

Singles == Marks
Pairs == {<<"!", "=">>, <<"<", ">">>, <<"<", "=">>, <<">", "=">>, <<"|", "|">>}

\* What one character of a text can be: "sq" is the single quote, "#" stands for all those
\* outside the language.
Characters == Letters \union Blanks \union Digits \union Quotes \union Marks
              \union {"_", "sq", "!", "#"}

ASSUME LettersAssumption ==
  /\ Letters \intersect ({"_"} \union Blanks \union Digits \union Quotes \union Marks) = {}
  /\ \A k \in Keywords : k # <<>> /\ ToSet(k) \subseteq Letters

ASSUME TextsAssumption == Texts \subseteq Seq(Characters)

VARIABLES
  text,
  pos,       \* characters matched so far
  start,     \* the start condition
  yylloc,    \* first_line, first_column, last_line, last_column
  matches,   \* every match, returned or skipped: [rule, first, last]
  tokens,    \* what tokenize has stored
  token,     \* the token lex returned last, "none" before the first
  strings,   \* the matches whose sval is allocated
  pc         \* "lex", "loop" (back in tokenize) or "done"

vars == <<text, pos, start, yylloc, matches, tokens, token, strings, pc>>

\* The location starts as hsql_parse's %initial-action sets it; tokenize passes one that is
\* unset, which no token depends on.
Init ==
  /\ text \in Texts
  /\ pos = 0
  /\ start = "INITIAL"
  /\ yylloc = [first_line |-> 0, first_column |-> 0, last_line |-> 0, last_column |-> 0]
  /\ matches = <<>>
  /\ tokens = <<>>
  /\ token = "none"
  /\ strings = {}
  /\ pc = "lex"

-----------------------------------------------------------------------------
(* The patterns.                                                           *)

All(s, C) == ToSet(s) \subseteq C

IsInt(s) == LET digits == IF s[1] = "-" THEN Tail(s) ELSE s
            IN digits # <<>> /\ All(digits, Digits)

IsFloat(s) ==
  \E k \in DOMAIN s : /\ s[k] = "."
                      /\ All(SubSeq(s, k + 1, Len(s)), Digits)
                      /\ k = 1 \/ IsInt(SubSeq(s, 1, k - 1))

IsQuoted(s) ==
  /\ Len(s) > 2
  /\ {s[1], s[Len(s)]} \subseteq Quotes
  /\ ToSet(SubSeq(s, 2, Len(s) - 1)) \intersect (Quotes \union {Newline}) = {}

\* Mutant: a word has no digits.
IsWord_NoDigits(s) == s[1] \in Letters /\ All(s, Letters \union {"_"})

IsWord(s) == s[1] \in Letters /\ All(s, Letters \union Digits \union {"_"})

\* Between the quotes every run of quotes is made of pairs.
IsString(s) ==
  /\ Len(s) > 1 /\ s[1] = "sq" /\ s[Len(s)] = "sq"
  /\ \A a, b \in 2..(Len(s) - 1) :
       (/\ a <= b
        /\ \A i \in a..b : s[i] = "sq"
        /\ a = 2 \/ s[a - 1] # "sq"
        /\ b = Len(s) - 1 \/ s[b + 1] # "sq") => (b - a) % 2 = 1

-----------------------------------------------------------------------------
(* The rules: the line of flex_lexer.l each stands on, and the token it     *)
(* returns, if it returns one.                                             *)

Rest == SubSeq(text, pos + 1, Len(text))

Line == [comment |-> 49, content |-> 50, endline |-> 51, blank |-> 53, keyword |-> 55,
         pair |-> 191, single |-> 197, float |-> 199, int |-> 205, quoted |-> 210,
         word |-> 216, string |-> 221, unknown |-> 227]

Skipped == {"comment", "content", "endline", "blank"}

Returned == [keyword |-> "KEYWORD", pair |-> "PAIR", single |-> "CHARACTER",
             float |-> "FLOATVAL", int |-> "INTVAL", quoted |-> "IDENTIFIER",
             word |-> "IDENTIFIER", string |-> "STRING", unknown |-> "EOF"]

\* The pattern of a rule, with its start condition.
Matches(rule, s) ==
  CASE rule = "comment" -> s = <<"-", "-">>
    [] rule = "content" -> start = "COMMENT" /\ Newline \notin ToSet(s)
    [] rule = "endline" -> start = "COMMENT" /\ s = <<Newline>>
    [] rule = "blank"   -> All(s, Blanks)
    [] rule = "keyword" -> s \in Keywords
    [] rule = "pair"    -> s \in Pairs
    [] rule = "single"  -> Len(s) = 1 /\ s[1] \in Singles
    [] rule = "float"   -> IsFloat(s)
    [] rule = "int"     -> IsInt(s)
    [] rule = "quoted"  -> IsQuoted(s)
    [] rule = "word"    -> IsWord(s)
    [] rule = "string"  -> IsString(s)
    [] rule = "unknown" -> Len(s) = 1 /\ s[1] # Newline

\* The rules that match here, with each length they match.
Candidates == {c \in [rule : DOMAIN Line, length : 1..Len(Rest)] :
                 Matches(c.rule, SubSeq(Rest, 1, c.length))}

\* The longest match, of the first rule that has one as long.
Chosen ==
  {c \in Candidates : \A d \in Candidates :
     c.length > d.length \/ (c.length = d.length /\ Line[c.rule] <= Line[d.rule])}

-----------------------------------------------------------------------------
(* hsql_lex.                                                               *)

\* Mutant: the column goes on counting over the end of a line.
Advanced_KeepsColumn(loc, s) ==
  LET newlines == {k \in DOMAIN s : s[k] = Newline}
  IN [first_line |-> loc.last_line,
      first_column |-> loc.last_column,
      last_line |-> loc.last_line + Cardinality(newlines),
      last_column |-> loc.last_column + Len(s)]

\* Mutant: the column after a newline is off by one.
Advanced_OffByOne(loc, s) ==
  LET newlines == {k \in DOMAIN s : s[k] = Newline}
  IN [first_line |-> loc.last_line,
      first_column |-> loc.last_column,
      last_line |-> loc.last_line + Cardinality(newlines),
      last_column |-> IF newlines = {} THEN loc.last_column + Len(s)
                      ELSE Len(s) - Max(newlines) - 1]

\* YY_USER_ACTION: the location after the match s.
Advanced(loc, s) ==
  LET newlines == {k \in DOMAIN s : s[k] = Newline}
  IN [first_line |-> loc.last_line,
      first_column |-> loc.last_column,
      last_line |-> loc.last_line + Cardinality(newlines),
      last_column |-> IF newlines = {} THEN loc.last_column + Len(s)
                      ELSE Len(s) - Max(newlines)]

\* Mutant: a line that ends leaves the scanner in the comment.
NextStart_StaysInComment(rule) == IF rule = "comment" THEN "COMMENT" ELSE start

\* BEGIN.
NextStart(rule) ==
  CASE rule = "comment" -> "COMMENT"
    [] rule = "endline" -> "INITIAL"
    [] OTHER -> start

\* The next n characters match.
Consume(c) ==
  /\ pos' = pos + c.length
  /\ yylloc' = Advanced(yylloc, SubSeq(Rest, 1, c.length))
  /\ matches' = Append(matches, [rule |-> c.rule, first |-> pos + 1, last |-> pos + c.length])
  /\ start' = NextStart(c.rule)

Skip(c) ==
  /\ c.rule \in Skipped
  /\ Consume(c)
  /\ UNCHANGED <<text, tokens, token, strings, pc>>

\* A rule that returns; those with an sval allocate it (substr or strdup).
ReturnToken(c) ==
  /\ c.rule \in DOMAIN Returned
  /\ Consume(c)
  /\ token' = Returned[c.rule]
  /\ strings' = IF Returned[c.rule] \in {"IDENTIFIER", "STRING"} THEN strings \union {Len(matches) + 1}
                ELSE strings
  /\ pc' = "loop"
  /\ UNCHANGED <<text, tokens>>

EndOfText ==
  /\ pc = "lex"
  /\ Rest = <<>>
  /\ token' = "EOF"
  /\ pc' = "loop"
  /\ UNCHANGED <<text, pos, start, yylloc, matches, tokens, strings>>

Lex == pc = "lex" /\ Rest # <<>> /\ (\E c \in Chosen : Skip(c) \/ ReturnToken(c))

-----------------------------------------------------------------------------
(* SQLParser::tokenize, back from hsql_lex with token.                     *)

\* Mutant: strings of quoted texts only.
Freed_StringsOnly(owned) ==
  IF tokens = <<>> THEN owned ELSE IF token = "STRING" THEN owned \ {Len(matches)} ELSE owned

\* The string of a token is freed before the token is stored, except that of the first,
\* which is returned before the loop.
Freed(owned) == IF tokens = <<>> THEN owned
                ELSE IF token \in {"IDENTIFIER", "STRING"} THEN owned \ {Len(matches)} ELSE owned

\* The loop stores the token and asks for the next.
Store ==
  /\ pc = "loop" /\ token # "EOF"
  /\ tokens' = Append(tokens, token)
  /\ strings' = Freed(strings)
  /\ pc' = "lex"
  /\ UNCHANGED <<text, pos, start, yylloc, matches, token>>

\* Mutant: a text without tokens is read again.
Return_Retries ==
  /\ pc = "loop" /\ token = "EOF"
  /\ pc' = IF tokens = <<>> THEN pc ELSE "done"
  /\ UNCHANGED <<text, pos, start, yylloc, matches, tokens, token, strings>>

Return ==
  /\ pc = "loop" /\ token = "EOF"
  /\ pc' = "done"
  /\ UNCHANGED <<text, pos, start, yylloc, matches, tokens, token, strings>>

Finished == pc = "done" /\ UNCHANGED vars

Next == Lex \/ EndOfText \/ Store \/ Return \/ Finished

Spec == Init /\ [][Next]_vars

\* tokenize runs in its caller's thread and waits for nothing.
FairSpec == Spec /\ WF_vars(Next)

-----------------------------------------------------------------------------
(* Properties.                                                             *)

Tokens == {"EOF", "KEYWORD", "PAIR", "CHARACTER", "FLOATVAL", "INTVAL", "IDENTIFIER", "STRING"}

\* The variables have their types.
TypeOK ==
  /\ text \in Texts
  /\ pos \in 0..Len(text)
  /\ start \in {"INITIAL", "COMMENT"}
  /\ yylloc \in [first_line : 0..Len(text), first_column : 0..Len(text),
                last_line : 0..Len(text), last_column : 0..Len(text)]
  /\ token \in Tokens \union {"none"}
  /\ tokens \in Seq(Tokens \ {"EOF"})
  /\ matches \in Seq([rule : DOMAIN Line, first : 1..Len(text), last : 1..Len(text)])
  /\ strings \subseteq DOMAIN matches
  /\ pc \in {"lex", "loop", "done"}

\* The line and the column of the place after p characters.
NewlinesTo(p) == {k \in 1..p : text[k] = Newline}
LineAt(p) == Cardinality(NewlinesTo(p))
ColumnAt(p) == p - Max({0} \union NewlinesTo(p))

\* The location an error message is made of is the place of the last match in the text,
\* whatever was skipped before it: the newlines of comments, blanks and strings count.
LocationIsExact ==
  matches # <<>> =>
    LET m == Last(matches)
    IN yylloc = [first_line |-> LineAt(m.first - 1), first_column |-> ColumnAt(m.first - 1),
                 last_line |-> LineAt(m.last), last_column |-> ColumnAt(m.last)]

\* The text does not go on with what could belong to the match m.
Whole(m) ==
  LET next == text[m.last + 1]
  IN m.last < Len(text) /\ m.rule \in {"word", "keyword", "int", "float"}
     => next \notin Digits /\ (m.rule \in {"word", "keyword"} => next \notin Letters \union {"_"})

\* The scanner never stops half way through a word or a number, nor splits one in two.
TokensAreWhole == \A k \in DOMAIN matches : Whole(matches[k])

\* Only comments and blanks come before the k-th match.
IsFirst(k) == \A j \in 1..(k - 1) : matches[j].rule \in Skipped

\* tokenize frees the string of every token but the first.
OnlyFirstStringLeaks == pc = "done" => \A k \in strings : IsFirst(k)

\* No token can begin with the character p of the text, nor can it be skipped.
NothingBegins(p) ==
  \/ text[p] \in {"_", "!", "#"}
  \/ text[p] = "sq" /\ "sq" \notin ToSet(SubSeq(text, p + 1, Len(text)))
  \/ text[p] \in Quotes /\ \A k \in p + 2..Len(text) :
       text[k] \in Quotes => \E j \in p + 1..k - 1 : text[j] \in Quotes \union {Newline}

\* tokenize ends before the text does only at a quote that does not close, at an underscore, a
\* lone ! or a character outside the language, which # stands for: the rule of flex_lexer.l:227,
\* that returns 0 there, is never chosen where a token could be.
EndsAtUnknown == pc = "done" /\ pos < Len(text) => NothingBegins(pos)

\* Every call of tokenize returns: each round of the loop of SQLParser.cpp:65-73 consumes
\* text or ends it.
Terminates == <>(pc = "done")

\* The comment of t whose marks end at p does not start like a string, is empty or not all
\* blanks, and no blank follows the end of its line.
PlainComment(t, p) ==
  /\ p < Len(t) => t[p + 1] # "sq"
  /\ \A q \in p + 1..Len(t) :
       t[q] = Newline /\ (\A k \in p + 1..q - 1 : t[k] # Newline) =>
         /\ q < Len(t) => t[q + 1] \notin Blanks
         /\ q = p + 1 \/ \E k \in p + 1..q - 1 : t[k] \notin Blanks

CommentsArePlain(t) == \A p \in 2..Len(t) : t[p - 1] = "-" /\ t[p] = "-" => PlainComment(t, p)

\* flex_lexer.l:50: comment content is skipped "until a end of line is read". It is where every
\* comment is plain; in others the whitespace or the string rule runs past the end of the line
\* (run lexer_comment).
CommentEndsWithLine ==
  start = "COMMENT" =>
    LET m == SelectLastInSeq(matches, LAMBDA x : x.rule = "comment")
    IN Newline \notin ToSet(SubSeq(text, matches[m].first, pos))
=============================================================================
