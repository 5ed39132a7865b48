----------------------------- MODULE LexerProofs -----------------------------
(***************************************************************************)
(* What the scanner and tokenize do with any set of texts over any letters *)
(* and keywords.                                                           *)
(***************************************************************************)
EXTENDS Lexer, NaturalSets, FiniteSetTheorems, SequenceTheorems

\* The location belongs to the place the scanner has reached.
Located ==
  /\ yylloc.last_line = LineAt(pos)
  /\ yylloc.last_column = ColumnAt(pos)
  /\ matches # <<>> => Last(matches).last = pos
  /\ LocationIsExact

\* Which strings are still allocated, at each place of the loop of tokenize.
StringsFollowTokens ==
  /\ pc = "lex" /\ tokens = <<>> => strings = {} /\ IsFirst(Len(matches) + 1)
  /\ pc = "loop" /\ tokens = <<>> => strings \subseteq {Len(matches)} /\ IsFirst(Len(matches))
  /\ pc = "loop" /\ tokens # <<>> =>
       \A k \in strings : IsFirst(k) \/ (k = Len(matches) /\ token \in {"IDENTIFIER", "STRING"})
  /\ pc = "lex" \/ pc = "done" => \A k \in strings : IsFirst(k)

\* Before the end of the text the token that ends the loop is that of a character
\* nothing begins with.
EndsWhereNothingBegins ==
  /\ pc = "lex" => token # "EOF"
  /\ pc = "done" => token = "EOF"
  /\ token = "EOF" /\ pos < Len(text) => NothingBegins(pos)

IInv ==
  /\ TypeOK
  /\ token = "none" => pc = "lex"
  /\ Located
  /\ TokensAreWhole
  /\ StringsFollowTokens
  /\ EndsWhereNothingBegins

-----------------------------------------------------------------------------
(* The text and what is left of it.                                        *)

\* A text is a sequence of characters.
LEMMA TextType == ASSUME TypeOK PROVE text \in Seq(Characters) /\ Len(text) \in Nat
BY TextsAssumption DEF TypeOK

\* A place in a text.
LEMMA PosType == ASSUME TypeOK PROVE pos \in Nat /\ pos <= Len(text) /\ Len(text) \in Nat
<1>1. Len(text) \in Nat BY TextType
<1>2. pos \in 0..Len(text) BY DEF TypeOK
<1> QED BY <1>1, <1>2

\* The rest of a text.
LEMMA RestType ==
  ASSUME TypeOK
  PROVE  /\ Rest \in Seq(Characters)
         /\ Len(Rest) = Len(text) - pos
         /\ \A k \in 1..Len(Rest) : Rest[k] = text[pos + k]
BY TextType DEF TypeOK, Rest

\* A prefix of the rest of a text.
LEMMA PrefixType ==
  ASSUME TypeOK, NEW n \in 1..Len(Rest)
  PROVE  /\ SubSeq(Rest, 1, n) \in Seq(Characters)
         /\ Len(SubSeq(Rest, 1, n)) = n
         /\ DOMAIN SubSeq(Rest, 1, n) = 1..n
         /\ \A k \in 1..n : SubSeq(Rest, 1, n)[k] = text[pos + k]
         /\ pos + n \in 1..Len(text)
<1>1. Rest \in Seq(Characters) /\ Len(Rest) \in Nat BY RestType
<1>2. pos \in Nat /\ Len(text) \in Nat /\ Len(Rest) = Len(text) - pos
  BY RestType, TextType DEF TypeOK
<1>3. \A k \in 1..n : SubSeq(Rest, 1, n)[k] = Rest[k] BY <1>1
<1>4. \A k \in 1..n : Rest[k] = text[pos + k] BY <1>1, RestType
<1>5. SubSeq(Rest, 1, n) \in Seq(Characters) /\ Len(SubSeq(Rest, 1, n)) = n
  BY <1>1
<1>6. pos + n \in 1..Len(text) BY <1>2
<1>7. DOMAIN SubSeq(Rest, 1, n) = 1..n BY <1>5
<1> QED BY <1>3, <1>4, <1>5, <1>6, <1>7

\* A sequence is empty or has an element.
LEMMA EmptyOrNot ==
  ASSUME NEW S, NEW s \in Seq(S)
  PROVE  Len(s) \in Nat /\ (s = <<>> <=> Len(s) = 0) /\ DOMAIN s = 1..Len(s)
BY EmptySeq, LenProperties

\* All says that each character is in the set.
LEMMA AllMeans ==
  ASSUME NEW s, NEW n \in Nat, DOMAIN s = 1..n, NEW C
  PROVE  All(s, C) <=> \A k \in 1..n : s[k] \in C
BY DEF All, ToSet

\* An integer is a sign, if it has one, and digits.
LEMMA IntMeans ==
  ASSUME NEW S, NEW s \in Seq(S), s # <<>>
  PROVE  LET b == IF s[1] = "-" THEN 1 ELSE 0
         IN IsInt(s) <=> Len(s) > b /\ \A k \in b + 1..Len(s) : s[k] \in Digits
<1>1. Len(s) \in Nat /\ Len(s) > 0 /\ DOMAIN s = 1..Len(s) BY EmptyOrNot
<1>2. CASE s[1] = "-"
  <2>1. /\ Tail(s) \in Seq(S) /\ Len(Tail(s)) = Len(s) - 1
        /\ \A k \in 1..Len(s) - 1 : Tail(s)[k] = s[k + 1]
    BY <1>1
  <2>2. Tail(s) # <<>> <=> Len(s) > 1
    <3> DEFINE u == Tail(s)
    <3>1. u \in Seq(S) /\ Len(u) = Len(s) - 1 BY <2>1
    <3> HIDE DEF u
    <3>2. u = <<>> <=> Len(u) = 0 BY <3>1, EmptyOrNot
    <3>3. u # <<>> <=> Len(s) > 1 BY <1>1, <3>1, <3>2
    <3> QED BY <3>3 DEF u
  <2>3. DOMAIN Tail(s) = 1..Len(s) - 1 /\ Len(s) - 1 \in Nat BY <1>1, <2>1, LenProperties
  <2>4. All(Tail(s), Digits) <=> \A k \in 1..Len(s) - 1 : s[k + 1] \in Digits
    <3>1. All(Tail(s), Digits) <=> \A k \in 1..Len(s) - 1 : Tail(s)[k] \in Digits
      BY <2>3, AllMeans
    <3> QED BY <2>1, <3>1
  <2>5. (\A k \in 1..Len(s) - 1 : s[k + 1] \in Digits) <=> (\A k \in 2..Len(s) : s[k] \in Digits)
    <3>1. ASSUME \A k \in 1..Len(s) - 1 : s[k + 1] \in Digits, NEW k \in 2..Len(s)
          PROVE  s[k] \in Digits
      <4>1. k - 1 \in 1..Len(s) - 1 /\ (k - 1) + 1 = k BY <1>1
      <4> QED BY <3>1, <4>1
    <3>2. ASSUME \A k \in 2..Len(s) : s[k] \in Digits, NEW k \in 1..Len(s) - 1
          PROVE  s[k + 1] \in Digits
      BY <1>1, <3>2
    <3> QED BY <3>1, <3>2
  <2> QED BY <1>2, <2>2, <2>4, <2>5 DEF IsInt
<1>3. CASE s[1] # "-"
  BY <1>1, <1>3, AllMeans DEF IsInt
<1> QED BY <1>2, <1>3

-----------------------------------------------------------------------------
(* The rules.                                                              *)

\* The rules of flex_lexer.l in their order: each skips or returns, and only that of :227, the
\* last, returns 0.
LEMMA RuleFacts ==
  ASSUME NEW r \in DOMAIN Line
  PROVE  /\ Line[r] \in 1..227
         /\ r # "unknown" => Line[r] < 227
         /\ r \in Skipped <=> r \notin DOMAIN Returned
         /\ r \in DOMAIN Returned =>
              /\ Returned[r] \in Tokens
              /\ Returned[r] = "EOF" <=> r = "unknown"
<1> USE DEF Line, Skipped, Returned, Tokens
<1>1. CASE r = "comment" BY <1>1
<1>2. CASE r = "content" BY <1>2
<1>3. CASE r = "endline" BY <1>3
<1>4. CASE r = "blank" BY <1>4
<1>5. CASE r = "keyword" BY <1>5
<1>6. CASE r = "pair" BY <1>6
<1>7. CASE r = "single" BY <1>7
<1>8. CASE r = "float" BY <1>8
<1>9. CASE r = "int" BY <1>9
<1>10. CASE r = "quoted" BY <1>10
<1>11. CASE r = "word" BY <1>11
<1>12. CASE r = "string" BY <1>12
<1>13. CASE r = "unknown" BY <1>13
<1> QED BY <1>1, <1>2, <1>3, <1>4, <1>5, <1>6, <1>7, <1>8, <1>9, <1>10, <1>11, <1>12, <1>13

LEMMA CandidateType ==
  ASSUME NEW c \in Candidates
  PROVE  /\ c.rule \in DOMAIN Line
         /\ c.length \in 1..Len(Rest)
         /\ Matches(c.rule, SubSeq(Rest, 1, c.length))
BY DEF Candidates

\* No rule matches more than the chosen one, nor does an earlier one match as much.
LEMMA NotBeaten ==
  ASSUME TypeOK, NEW c \in Chosen, NEW r \in DOMAIN Line, NEW n \in 1..Len(Rest),
         n > c.length \/ (n = c.length /\ Line[r] < Line[c.rule])
  PROVE  ~Matches(r, SubSeq(Rest, 1, n))
<1> SUFFICES ASSUME Matches(r, SubSeq(Rest, 1, n)) PROVE FALSE
  OBVIOUS
<1> DEFINE d == [rule |-> r, length |-> n]
<1>1. d \in Candidates BY DEF Candidates
<1>2. c \in Candidates /\ (c.length > n \/ (c.length = n /\ Line[c.rule] <= Line[r]))
  <2>1. d.length = n /\ d.rule = r OBVIOUS
  <2> HIDE DEF d
  <2> QED BY <1>1, <2>1 DEF Chosen
<1>3. c.length \in Nat /\ c.rule \in DOMAIN Line /\ n \in Nat
  <2>1. Len(Rest) \in Nat BY RestType, EmptyOrNot
  <2> QED BY <1>2, <2>1, CandidateType
<1>4. Line[c.rule] \in 1..227 BY <1>3, RuleFacts
<1>5. Line[r] \in 1..227 BY RuleFacts
<1>6. ASSUME NEW a \in 1..227, NEW b \in 1..227, NEW m \in Nat,
             m > n \/ (m = n /\ a <= b), n > m \/ (n = m /\ b < a)
      PROVE  FALSE
  BY <1>3, <1>6
<1> QED BY <1>2, <1>3, <1>4, <1>5, <1>6

\* The same, with the pattern of each rule written out.
LEMMA NoMatchBeyond ==
  ASSUME TypeOK, NEW c \in Chosen, NEW n \in 1..Len(Rest),
         n > c.length
  PROVE  LET s == SubSeq(Rest, 1, n)
         IN ~IsWord(s) /\ ~IsInt(s) /\ ~IsFloat(s) /\ ~IsString(s) /\ ~IsQuoted(s)
<1> DEFINE s == SubSeq(Rest, 1, n)
<1>1. {"word", "int", "float", "string", "quoted"} \subseteq DOMAIN Line
  BY DEF Line
<1>2. ~Matches("word", s) /\ ~Matches("int", s) /\ ~Matches("float", s) /\ ~Matches("string", s)
      /\ ~Matches("quoted", s)
  BY <1>1, NotBeaten
<1> QED BY <1>2 DEF Matches

\* A word or a keyword that is chosen has no letter, digit or underscore after it: else a
\* longer word would match.
LEMMA WordIsWhole ==
  ASSUME TypeOK, NEW c \in Chosen, c.rule \in {"word", "keyword"}, c.length < Len(Rest)
  PROVE  text[pos + c.length + 1] \notin Letters \union Digits \union {"_"}
<1> DEFINE n == c.length
           s == SubSeq(Rest, 1, n)
           t == SubSeq(Rest, 1, n + 1)
           C == Letters \union Digits \union {"_"}
<1>1. c \in Candidates BY DEF Chosen
<1>2. /\ n \in 1..Len(Rest) /\ n + 1 \in 1..Len(Rest) /\ n \in Nat /\ n > 0
      /\ Matches(c.rule, s)
  <2>1. Len(Rest) \in Nat BY RestType, EmptyOrNot
  <2> QED BY <1>1, <2>1, CandidateType
<1>3. /\ s \in Seq(Characters) /\ Len(s) = n /\ DOMAIN s = 1..n
      /\ \A k \in 1..n : s[k] = text[pos + k]
  BY <1>2, PrefixType
<1>4. /\ DOMAIN t = 1..n + 1
      /\ \A k \in 1..n + 1 : t[k] = text[pos + k]
  BY <1>2, PrefixType
<1>5. \A k \in 1..n : t[k] = s[k] BY <1>2, <1>3, <1>4
<1>6. s[1] \in Letters /\ \A k \in 1..n : s[k] \in C
  <2>1. CASE c.rule = "word"
    <3>1. IsWord(s) BY <1>2, <2>1 DEF Matches
    <3>2. s[1] \in Letters /\ All(s, C) BY <3>1 DEF IsWord
    <3> HIDE DEF s, n, C
    <3> QED BY <1>2, <1>3, <3>2, AllMeans
  <2>2. CASE c.rule = "keyword"
    <3>1. s \in Keywords BY <1>2, <2>2 DEF Matches
    <3>2. \A k \in 1..n : s[k] \in Letters BY <1>3, <3>1, LettersAssumption DEF ToSet
    <3>3. Letters \subseteq C OBVIOUS
    <3> HIDE DEF s, n, C
    <3> QED BY <1>2, <3>2, <3>3
  <2> QED BY <2>1, <2>2
<1>7. ~IsWord(t) BY <1>2, NoMatchBeyond
<1>71. t[1] \in Letters => ~All(t, C) BY <1>7 DEF IsWord
<1> HIDE DEF s, t, C, n
<1>8. t[1] \in Letters BY <1>2, <1>5, <1>6
<1>9. ~All(t, C) BY <1>71, <1>8
<1>10. PICK k \in 1..n + 1 : t[k] \notin C BY <1>2, <1>4, <1>9, AllMeans
<1>11. k = n + 1 BY <1>2, <1>5, <1>6, <1>10
<1>12. pos + (n + 1) = pos + n + 1 BY <1>2 DEF TypeOK
<1>13. text[pos + n + 1] \notin C BY <1>2, <1>4, <1>10, <1>11, <1>12
<1> QED BY <1>13 DEF C, n

\* A number that is chosen has no digit after it.
LEMMA NumberIsWhole ==
  ASSUME TypeOK, NEW c \in Chosen, c.rule \in {"int", "float"}, c.length < Len(Rest)
  PROVE  text[pos + c.length + 1] \notin Digits
<1> DEFINE n == c.length
           s == SubSeq(Rest, 1, n)
           t == SubSeq(Rest, 1, n + 1)
<1> SUFFICES ASSUME text[pos + n + 1] \in Digits PROVE FALSE
  OBVIOUS
<1>1. c \in Candidates BY DEF Chosen
<1>2. /\ n \in 1..Len(Rest) /\ n + 1 \in 1..Len(Rest) /\ n \in Nat /\ n > 0
      /\ Matches(c.rule, s)
  <2>1. Len(Rest) \in Nat BY RestType, EmptyOrNot
  <2> QED BY <1>1, <2>1, CandidateType
<1>3. /\ s \in Seq(Characters) /\ Len(s) = n /\ DOMAIN s = 1..n
      /\ \A k \in 1..n : s[k] = text[pos + k]
  BY <1>2, PrefixType
<1>4. /\ t \in Seq(Characters) /\ Len(t) = n + 1 /\ DOMAIN t = 1..n + 1
      /\ \A k \in 1..n + 1 : t[k] = text[pos + k]
  BY <1>2, PrefixType
<1>5. (\A k \in 1..n : t[k] = s[k]) /\ t[n + 1] \in Digits
  <2>1. t[n + 1] = text[pos + (n + 1)] BY <1>2, <1>4
  <2>2. pos + (n + 1) = pos + n + 1 BY <1>2 DEF TypeOK
  <2> QED BY <1>2, <1>3, <1>4, <2>1, <2>2
<1> HIDE DEF s, t, n
<1>6. ~IsInt(t) /\ ~IsFloat(t) BY <1>2, NoMatchBeyond DEF t, n
<1>7. s # <<>> /\ t # <<>> /\ n \in Nat /\ n > 0 BY <1>2, <1>3, <1>4, EmptySeq, RestType
<1>8. CASE c.rule = "int"
  <2>1. IsInt(s) BY <1>2, <1>8 DEF Matches
  <2> QED BY <1>3, <1>4, <1>5, <1>6, <1>7, <2>1, IntMeans
<1>9. CASE c.rule = "float"
  <2>1. IsFloat(s) BY <1>2, <1>9 DEF Matches
  <2>2. PICK k \in 1..n : /\ s[k] = "." /\ All(SubSeq(s, k + 1, n), Digits)
                          /\ k = 1 \/ IsInt(SubSeq(s, 1, k - 1))
    BY <1>3, <2>1 DEF IsFloat
  <2>3. SubSeq(t, 1, k - 1) = SubSeq(s, 1, k - 1)
    <3>1. SubSeq(t, 1, k - 1) \in Seq(Characters) /\ SubSeq(s, 1, k - 1) \in Seq(Characters)
      BY <1>3, <1>4, <1>7
    <3>2. Len(SubSeq(t, 1, k - 1)) = k - 1 /\ Len(SubSeq(s, 1, k - 1)) = k - 1
      BY <1>3, <1>4, <1>7
    <3>3. \A j \in 1..k - 1 : SubSeq(t, 1, k - 1)[j] = t[j] /\ SubSeq(s, 1, k - 1)[j] = s[j]
      BY <1>3, <1>4, <1>7
    <3>4. \A j \in 1..k - 1 : t[j] = s[j] BY <1>5, <1>7
    <3> QED BY <3>1, <3>2, <3>3, <3>4, SeqEqual
  <2>4. All(SubSeq(t, k + 1, n + 1), Digits)
    <3>1. \A j \in k + 1..n : s[j] \in Digits
      <4>1. /\ DOMAIN SubSeq(s, k + 1, n) = 1..n - k /\ n - k \in Nat
            /\ \A j \in 1..n - k : SubSeq(s, k + 1, n)[j] = s[k + j]
        BY <1>3, <1>7
      <4>2. \A j \in 1..n - k : s[k + j] \in Digits
        <5> DEFINE u == SubSeq(s, k + 1, n)
        <5>1. All(u, Digits) BY <2>2
        <5> HIDE DEF u
        <5>2. \A j \in 1..n - k : u[j] \in Digits BY <4>1, <5>1, AllMeans DEF u
        <5> QED BY <4>1, <5>2 DEF u
      <4>3. ASSUME NEW j \in k + 1..n PROVE s[j] \in Digits
        <5>1. j - k \in 1..n - k /\ k + (j - k) = j BY <1>7
        <5> QED BY <4>2, <5>1
      <4> QED BY <4>3
    <3>2. \A j \in k + 1..n + 1 : t[j] \in Digits BY <1>5, <1>7, <3>1
    <3>3. /\ DOMAIN SubSeq(t, k + 1, n + 1) = 1..n + 1 - k /\ n + 1 - k \in Nat
          /\ \A j \in 1..n + 1 - k : SubSeq(t, k + 1, n + 1)[j] = t[k + j]
      BY <1>4, <1>7
    <3>4. \A j \in 1..n + 1 - k : t[k + j] \in Digits BY <1>7, <3>2
    <3> QED BY <3>3, <3>4, AllMeans
  <2>5. k \in DOMAIN t /\ t[k] = "." BY <1>4, <1>5, <1>7, <2>2
  <2>6. IsFloat(t) BY <1>4, <2>2, <2>3, <2>4, <2>5 DEF IsFloat
  <2> QED BY <1>6, <2>6
<1> QED BY <1>8, <1>9

\* The rule for an unknown character is chosen where nothing else begins.
LEMMA UnknownMeans ==
  ASSUME TypeOK, NEW c \in Chosen, c.rule = "unknown"
  PROVE  c.length = 1 /\ NothingBegins(pos + 1)
<1> DEFINE s == SubSeq(Rest, 1, 1)
           ch == text[pos + 1]
<1>1. c.length \in 1..Len(Rest) /\ Matches("unknown", SubSeq(Rest, 1, c.length))
  BY CandidateType DEF Chosen
<1>2. Len(SubSeq(Rest, 1, c.length)) = 1 BY <1>1 DEF Matches
<1>3. c.length = 1 BY <1>1, <1>2, PrefixType
<1>4. Len(Rest) \in Nat /\ Len(Rest) = Len(text) - pos /\ Len(Rest) >= 1
  BY <1>1, <1>3, RestType, EmptyOrNot
<1>5. /\ s \in Seq(Characters) /\ Len(s) = 1 /\ DOMAIN s = 1..1 /\ s[1] = ch
      /\ pos + 1 \in 1..Len(text) /\ pos \in Nat /\ Len(text) \in Nat
  <2>1. 1 \in 1..Len(Rest) BY <1>4
  <2> QED BY <2>1, PrefixType, PosType
<1>6. ch \in Characters BY <1>5, TextType
<1>7. \A r \in {"blank", "single", "int", "word"} : ~Matches(r, s)
  <2>1. SUFFICES ASSUME NEW r \in {"blank", "single", "int", "word"} PROVE ~Matches(r, s)
    OBVIOUS
  <2>2. r \in DOMAIN Line /\ r # "unknown" BY DEF Line
  <2>3. Line[r] < Line[c.rule] BY <2>2, RuleFacts DEF Line
  <2> QED BY <1>3, <1>4, <2>2, <2>3, NotBeaten
<1>8. ch # Newline
  <2>1. SubSeq(Rest, 1, c.length)[1] # Newline BY <1>1 DEF Matches
  <2> QED BY <1>3, <1>5, <2>1
<1> HIDE DEF s, ch
<1>9. ch \notin Blanks
  <2>1. ~All(s, Blanks) BY <1>7 DEF Matches
  <2> QED BY <1>5, <2>1, AllMeans
<1>10. ch \notin Marks BY <1>5, <1>7 DEF Matches, Singles
<1>11. ch \notin Digits
  <2>1. ~IsInt(s) BY <1>7 DEF Matches
  <2>2. s # <<>>
    <3>1. s = <<>> <=> Len(s) = 0 BY <1>5, EmptyOrNot
    <3> QED BY <1>5, <3>1
  <2> SUFFICES ASSUME ch \in Digits PROVE FALSE
    OBVIOUS
  <2>3. s[1] # "-" BY <1>5 DEF Digits
  <2>4. Len(s) > 0 /\ \A k \in 0 + 1..Len(s) : s[k] \in Digits BY <1>5
  <2> QED BY <1>5, <2>1, <2>2, <2>3, <2>4, IntMeans
<1>12. ch \notin Letters
  <2>1. ~IsWord(s) BY <1>7 DEF Matches
  <2> SUFFICES ASSUME ch \in Letters PROVE FALSE
    OBVIOUS
  <2> DEFINE C == Letters \union Digits \union {"_"}
  <2>2. s[1] \in C BY <1>5
  <2>3. All(s, C)
    <3> HIDE DEF C
    <3> QED BY <1>5, <2>2, AllMeans
  <2> QED BY <1>5, <2>1, <2>3 DEF IsWord
<1>13. ch \in {"_", "!", "#"} \/ ch = "sq" \/ ch \in Quotes
  BY <1>6, <1>9, <1>10, <1>11, <1>12 DEF Characters
<1>14. CASE ch = "sq"
  <2> DEFINE T == {i \in pos + 2..Len(text) : text[i] = "sq"}
  <2>1. T = {}
    <3> SUFFICES ASSUME T # {} PROVE FALSE
      OBVIOUS
    <3>1. T \subseteq Nat BY <1>5
    <3>2. PICK i \in T : \A j \in T : i <= j BY <3>1, LeastNatural
    <3> DEFINE n == i - pos
               u == SubSeq(Rest, 1, n)
    <3>3. n \in 1..Len(Rest) /\ n > c.length /\ n \in Nat /\ pos + n = i /\ n > 1
      BY <1>3, <1>4, <1>5
    <3>4. Len(u) = n /\ \A k \in 1..n : u[k] = text[pos + k] BY <3>3, PrefixType
    <3>5. u[1] = "sq" /\ u[n] = "sq"
      <4>1. 1 \in 1..n /\ n \in 1..n BY <3>3
      <4>2. text[pos + 1] = "sq" BY <1>14 DEF ch
      <4> QED BY <3>2, <3>3, <3>4, <4>1, <4>2
    <3>6. \A k \in 2..n - 1 : u[k] # "sq"
      <4> SUFFICES ASSUME NEW k \in 2..n - 1, u[k] = "sq" PROVE FALSE
        OBVIOUS
      <4>1. k \in 1..n /\ pos + k \in pos + 2..Len(text) /\ pos + k < i BY <1>5, <3>3
      <4>2. pos + k \in T BY <3>4, <4>1
      <4> HIDE DEF T
      <4> QED BY <3>2, <4>1, <4>2, <1>5, <3>3
    <3>7. IsString(u)
      <4> HIDE DEF u, n
      <4>1. ASSUME NEW a \in 2..n - 1, NEW b \in 2..n - 1, a <= b
            PROVE  ~(\A k \in a..b : u[k] = "sq")
        <5>1. a \in a..b /\ u[a] # "sq" BY <3>3, <3>6, <4>1
        <5> QED BY <5>1
      <4> QED BY <3>3, <3>4, <3>5, <4>1 DEF IsString
    <3> QED BY <3>3, <3>7, NoMatchBeyond
  <2>2. "sq" \notin ToSet(SubSeq(text, pos + 1 + 1, Len(text)))
    <3> SUFFICES ASSUME "sq" \in ToSet(SubSeq(text, pos + 2, Len(text))) PROVE FALSE
      BY <1>5
    <3>1. text \in Seq(Characters) BY TextType
    <3>2. /\ DOMAIN SubSeq(text, pos + 2, Len(text)) = 1..Len(text) - pos - 1
          /\ \A k \in 1..Len(text) - pos - 1 : SubSeq(text, pos + 2, Len(text))[k] = text[pos + 1 + k]
      BY <1>5, <3>1
    <3>3. PICK k \in 1..Len(text) - pos - 1 : text[pos + 1 + k] = "sq" BY <3>2 DEF ToSet
    <3>4. pos + 1 + k \in T BY <1>5, <3>3
    <3> QED BY <2>1, <3>4
  <2> QED BY <1>3, <1>14, <2>2 DEF NothingBegins, ch
<1>15. CASE ch \in Quotes
  <2>1. SUFFICES ASSUME NEW k \in pos + 3..Len(text), text[k] \in Quotes,
                        \A j \in pos + 2..k - 1 : text[j] \notin Quotes \union {Newline}
                 PROVE  FALSE
    <3>1. /\ pos + 1 + 2 = pos + 3 /\ pos + 1 + 1 = pos + 2
      BY <1>5
    <3>2. SUFFICES \A k \in pos + 3..Len(text) :
                     text[k] \in Quotes => \E j \in pos + 2..k - 1 : text[j] \in Quotes \union {Newline}
      BY <1>3, <1>15, <3>1 DEF NothingBegins, ch
    <3> QED OBVIOUS
  <2> DEFINE n == k - pos
             u == SubSeq(Rest, 1, n)
             v == SubSeq(u, 2, n - 1)
  <2>2. n \in 1..Len(Rest) /\ n > c.length /\ n \in Nat /\ pos + n = k /\ n > 2
    BY <1>3, <1>4, <1>5
  <2>3. u \in Seq(Characters) /\ Len(u) = n /\ \A j \in 1..n : u[j] = text[pos + j]
    BY <2>2, PrefixType
  <2>4. u[1] \in Quotes /\ u[n] \in Quotes BY <1>15, <2>1, <2>2, <2>3 DEF ch
  <2>5. \A j \in 2..n - 1 : u[j] \notin Quotes \union {Newline}
    <3> SUFFICES ASSUME NEW j \in 2..n - 1 PROVE u[j] \notin Quotes \union {Newline}
      OBVIOUS
    <3>1. j \in 1..n /\ pos + j \in pos + 2..k - 1 BY <1>5, <2>2
    <3> QED BY <2>1, <2>3, <3>1
  <2>6. ToSet(v) \intersect (Quotes \union {Newline}) = {}
    <3> HIDE DEF u, n
    <3>1. DOMAIN v = 1..n - 2 /\ \A j \in 1..n - 2 : v[j] = u[j + 1] BY <2>2, <2>3
    <3>2. \A j \in 1..n - 2 : v[j] \notin Quotes \union {Newline}
      <4> SUFFICES ASSUME NEW j \in 1..n - 2 PROVE v[j] \notin Quotes \union {Newline}
        OBVIOUS
      <4>1. j + 1 \in 2..n - 1 BY <2>2
      <4> QED BY <2>5, <3>1, <4>1
    <3> QED BY <3>1, <3>2 DEF ToSet
  <2>7. IsQuoted(u) BY <2>2, <2>3, <2>4, <2>6 DEF IsQuoted
  <2> QED BY <2>2, <2>7, NoMatchBeyond
<1>16. CASE ch \in {"_", "!", "#"}
  <2>1. text[pos + 1] \in {"_", "!", "#"} BY <1>16 DEF ch
  <2> QED BY <1>3, <2>1 DEF NothingBegins
<1> QED BY <1>13, <1>14, <1>15, <1>16

-----------------------------------------------------------------------------
(* Places in a text.                                                       *)

\* A line and a column are no larger than the place.
LEMMA PlaceType ==
  ASSUME NEW p \in Nat
  PROVE  /\ IsFiniteSet(NewlinesTo(p))
         /\ LineAt(p) \in 0..p
         /\ ColumnAt(p) \in 0..p
<1>1. IsFiniteSet(1..p) /\ Cardinality(1..p) = p BY FS_Interval
<1>2. IsFiniteSet(NewlinesTo(p)) /\ Cardinality(NewlinesTo(p)) <= p
  <2>1. NewlinesTo(p) \in SUBSET (1..p) BY DEF NewlinesTo
  <2> QED BY <1>1, <2>1, FS_Subset
<1>3. LineAt(p) \in 0..p
  <2>1. Cardinality(NewlinesTo(p)) \in Nat BY <1>2, FS_CardinalityType
  <2> QED BY <1>2, <2>1 DEF LineAt
<1>4. ColumnAt(p) \in 0..p
  <2> DEFINE T == {0} \union NewlinesTo(p)
  <2>1. T \subseteq 0..p /\ T # {} BY DEF NewlinesTo
  <2>2. Max(T) \in T BY <2>1, GreatestNatural
  <2>3. Max(T) \in 0..p BY <2>1, <2>2
  <2> HIDE DEF T
  <2>4. p - Max(T) \in 0..p BY <2>3
  <2> QED BY <2>4 DEF T, ColumnAt
<1> QED BY <1>2, <1>3, <1>4

\* The lines and the columns of consecutive matches add up.
LEMMA AdvancedIsExact ==
  ASSUME TypeOK, yylloc.last_line = LineAt(pos), yylloc.last_column = ColumnAt(pos),
         NEW n \in 1..Len(Rest)
  PROVE  Advanced(yylloc, SubSeq(Rest, 1, n)) =
           [first_line |-> LineAt(pos), first_column |-> ColumnAt(pos),
            last_line |-> LineAt(pos + n), last_column |-> ColumnAt(pos + n)]
<1> DEFINE s == SubSeq(Rest, 1, n)
           A == {k \in DOMAIN s : s[k] = Newline}
           B == {k \in pos + 1..pos + n : text[k] = Newline}
<1>1. pos \in Nat /\ n \in Nat /\ n > 0 BY RestType, EmptyOrNot DEF TypeOK
<1>2. DOMAIN s = 1..n /\ Len(s) = n /\ \A k \in 1..n : s[k] = text[pos + k] BY PrefixType
<1>3. A = {k \in 1..n : text[pos + k] = Newline} BY <1>2
<1>4. A \subseteq 1..n /\ B \subseteq pos + 1..pos + n BY <1>2
<1>5. NewlinesTo(pos + n) = NewlinesTo(pos) \union B /\ NewlinesTo(pos) \intersect B = {}
  <2>1. 1..pos + n = (1..pos) \union (pos + 1..pos + n) BY <1>1
  <2>2. (1..pos) \intersect (pos + 1..pos + n) = {} BY <1>1
  <2> QED BY <2>1, <2>2 DEF NewlinesTo
<1>6. (\A k \in A : pos + k \in B) /\ (\A j \in B : j - pos \in A /\ pos + (j - pos) = j)
  <2> HIDE DEF s
  <2>1. ASSUME NEW k \in A PROVE pos + k \in B BY <1>1, <1>2, <1>3
  <2>2. ASSUME NEW j \in B PROVE j - pos \in A /\ pos + (j - pos) = j
    <3>1. j - pos \in 1..n /\ pos + (j - pos) = j /\ text[j] = Newline BY <1>1
    <3> QED BY <1>3, <3>1
  <2> QED BY <2>1, <2>2
<1> HIDE DEF A, B, s
<1>7. IsFiniteSet(A) /\ Cardinality(B) = Cardinality(A) /\ IsFiniteSet(B)
  <2>1. IsFiniteSet(1..n) BY <1>1, FS_Interval
  <2>2. IsFiniteSet(A) BY <1>4, <2>1, FS_Subset
  <2> DEFINE f == [k \in A |-> pos + k]
  <2>3. f \in [A -> B] BY <1>6
  <2>4. \A j, k \in A : f[j] = f[k] => j = k BY <1>1, <1>4
  <2>5. \A j \in B : \E k \in A : f[k] = j BY <1>6
  <2> HIDE DEF f
  <2>6. f \in Bijection(A, B) BY <2>3, <2>4, <2>5 DEF Bijection, Injection, Surjection, IsInjective
  <2>7. ExistsBijection(A, B) BY <2>6 DEF ExistsBijection
  <2> QED BY <2>2, <2>7, FS_Bijection
<1>8. LineAt(pos + n) = LineAt(pos) + Cardinality(A)
  <2>1. IsFiniteSet(NewlinesTo(pos)) BY <1>1, PlaceType
  <2>2. Cardinality(NewlinesTo(pos) \union B) =
          Cardinality(NewlinesTo(pos)) + Cardinality(B) - Cardinality(NewlinesTo(pos) \intersect B)
    BY <1>7, <2>1, FS_Union
  <2>3. Cardinality(NewlinesTo(pos) \intersect B) = 0 BY <1>5, FS_EmptySet
  <2>4. Cardinality(NewlinesTo(pos)) \in Nat /\ Cardinality(B) \in Nat
    BY <1>7, <2>1, FS_CardinalityType
  <2>5. Cardinality(NewlinesTo(pos + n)) = Cardinality(NewlinesTo(pos)) + Cardinality(A)
    <3>1. Cardinality(NewlinesTo(pos + n)) = Cardinality(NewlinesTo(pos) \union B) BY <1>5
    <3> QED BY <1>7, <2>2, <2>3, <2>4, <3>1
  <2> QED BY <2>5 DEF LineAt
<1>9. ColumnAt(pos + n) = IF A = {} THEN ColumnAt(pos) + n ELSE n - Max(A)
  <2> DEFINE T == {0} \union NewlinesTo(pos)
             U == {0} \union NewlinesTo(pos + n)
  <2>1. ColumnAt(pos) = pos - Max(T) /\ ColumnAt(pos + n) = (pos + n) - Max(U)
    BY DEF ColumnAt
  <2>2. T \subseteq 0..pos /\ U \subseteq 0..pos + n BY <1>1 DEF NewlinesTo
  <2>3. U = T \union B BY <1>5
  <2>4. T # {} /\ U # {} OBVIOUS
  <2> HIDE DEF T, U
  <2>5. Max(T) \in 0..pos BY <1>1, <2>2, <2>4, GreatestNatural
  <2>6. CASE A = {}
    <3>1. B = {} BY <1>6, <2>6
    <3>2. Max(U) = Max(T) BY <2>3, <3>1
    <3> QED BY <1>1, <2>1, <2>5, <2>6, <3>2
  <2>7. CASE A # {}
    <3>1. Max(A) \in A /\ \A k \in A : k <= Max(A)
      <4>1. A \subseteq 0..n BY <1>1, <1>4
      <4> QED BY <1>1, <2>7, <4>1, GreatestNatural
    <3>2. /\ Max(U) \in U
          /\ \A k \in U : k <= Max(U)
      <4>1. pos + n \in Nat BY <1>1
      <4> QED BY <2>2, <2>4, <4>1, GreatestNatural
    <3>3. Max(A) \in 1..n /\ pos + Max(A) \in B BY <1>4, <1>6, <3>1
    <3>4. pos + Max(A) <= Max(U) BY <2>3, <3>2, <3>3
    <3>5. Max(U) \in 0..pos + n BY <2>2, <3>2
    <3>6. Max(U) \notin T
      <4>1. Max(U) > pos BY <1>1, <3>3, <3>4, <3>5
      <4>2. \A k \in T : k \in 0..pos BY <2>2
      <4>3. ~(Max(U) \in 0..pos) BY <1>1, <3>5, <4>1
      <4> QED BY <4>2, <4>3
    <3>7. Max(U) \in B BY <2>3, <3>2, <3>6
    <3>8. Max(U) - pos <= Max(A) BY <1>6, <3>1, <3>7
    <3>9. Max(U) = pos + Max(A) BY <1>1, <3>3, <3>4, <3>5, <3>8
    <3> QED BY <1>1, <2>1, <2>7, <3>3, <3>9
  <2> QED BY <2>6, <2>7
<1>10. Advanced(yylloc, s) =
         [first_line |-> yylloc.last_line, first_column |-> yylloc.last_column,
          last_line |-> yylloc.last_line + Cardinality(A),
          last_column |-> IF A = {} THEN yylloc.last_column + Len(s) ELSE Len(s) - Max(A)]
  BY DEF Advanced, A
<1> QED BY <1>2, <1>8, <1>9, <1>10 DEF s

-----------------------------------------------------------------------------
(* The steps.                                                              *)

Match == [rule : DOMAIN Line, first : 1..Len(text), last : 1..Len(text)]

\* A match moves the scanner on.
LEMMA ConsumeType ==
  ASSUME IInv, NEW c \in Chosen, Consume(c), text' = text
  PROVE  /\ c.rule \in DOMAIN Line /\ c.length \in Nat /\ c.length > 0
         /\ pos' = pos + c.length /\ pos' \in 0..Len(text)
         /\ start' \in {"INITIAL", "COMMENT"}
         /\ matches' \in Seq(Match)
         /\ Len(matches) \in Nat /\ Len(matches') = Len(matches) + 1
         /\ \A k \in 1..Len(matches) : matches'[k] = matches[k] /\ matches[k] \in Match
         /\ Last(matches') = [rule |-> c.rule, first |-> pos + 1, last |-> pos + c.length]
         /\ matches'[Len(matches) + 1] = Last(matches')
<1>1. TypeOK BY DEF IInv
<1>2. c.rule \in DOMAIN Line /\ c.length \in 1..Len(Rest) BY CandidateType DEF Chosen
<1>3. Len(Rest) \in Nat /\ Len(text) \in Nat /\ Len(Rest) = Len(text) - pos /\ pos \in Nat
  BY <1>1, RestType, EmptyOrNot, TextType DEF TypeOK
<1>4. pos' = pos + c.length BY DEF Consume
<1>5. pos + c.length \in 1..Len(text) /\ pos + 1 \in 1..Len(text) BY <1>2, <1>3
<1>6. start' \in {"INITIAL", "COMMENT"}
  BY <1>1 DEF Consume, NextStart, TypeOK
<1> DEFINE m == [rule |-> c.rule, first |-> pos + 1, last |-> pos + c.length]
<1>7. m \in Match BY <1>2, <1>5 DEF Match
<1>8. matches \in Seq(Match) BY <1>1 DEF TypeOK, Match
<1>9. matches' = Append(matches, m) BY DEF Consume
<1> HIDE DEF m
<1>10. /\ matches' \in Seq(Match) /\ Len(matches') = Len(matches) + 1 /\ Len(matches) \in Nat
       /\ \A k \in 1..Len(matches) : matches'[k] = matches[k] /\ matches[k] \in Match
       /\ matches'[Len(matches) + 1] = m
  BY <1>7, <1>8, <1>9
<1> QED BY <1>2, <1>3, <1>4, <1>5, <1>6, <1>10 DEF Last, m

\* The location after a match.
LEMMA ConsumeLocated ==
  ASSUME IInv, NEW c \in Chosen, Consume(c), text' = text
  PROVE  /\ Located'
         /\ yylloc' \in [first_line : 0..Len(text), first_column : 0..Len(text),
                          last_line : 0..Len(text), last_column : 0..Len(text)]
<1> DEFINE n == c.length
<1>1. TypeOK /\ Located BY DEF IInv
<1>2. n \in 1..Len(Rest) BY CandidateType DEF Chosen
<1>3. pos \in Nat /\ pos' = pos + n /\ pos' \in 0..Len(text) /\ Len(text) \in Nat /\ n \in Nat
  BY <1>1, ConsumeType, TextType DEF TypeOK
<1>4. yylloc' = [first_line |-> LineAt(pos), first_column |-> ColumnAt(pos),
                 last_line |-> LineAt(pos + n), last_column |-> ColumnAt(pos + n)]
  <2>1. yylloc' = Advanced(yylloc, SubSeq(Rest, 1, n)) BY DEF Consume
  <2> QED BY <1>1, <1>2, <2>1, AdvancedIsExact DEF Located
<1>5. /\ LineAt(pos) \in 0..Len(text) /\ ColumnAt(pos) \in 0..Len(text)
      /\ LineAt(pos + n) \in 0..Len(text) /\ ColumnAt(pos + n) \in 0..Len(text)
  <2>1. LineAt(pos) \in 0..pos /\ ColumnAt(pos) \in 0..pos BY <1>3, PlaceType
  <2>2. LineAt(pos + n) \in 0..pos + n /\ ColumnAt(pos + n) \in 0..pos + n
    <3>1. pos + n \in Nat BY <1>3
    <3> QED BY <3>1, PlaceType
  <2>3. pos <= Len(text) /\ pos + n <= Len(text) BY <1>3
  <2> QED BY <1>3, <2>1, <2>2, <2>3
<1>6. LineAt(pos)' = LineAt(pos + n) /\ ColumnAt(pos)' = ColumnAt(pos + n)
  <2>1. NewlinesTo(pos)' = NewlinesTo(pos + n) BY <1>3 DEF NewlinesTo
  <2> QED BY <1>3, <2>1 DEF LineAt, ColumnAt
<1>7. Last(matches') = [rule |-> c.rule, first |-> pos + 1, last |-> pos + n]
  BY ConsumeType
<1>8. LocationIsExact'
  <2>1. Last(matches').first - 1 = pos /\ Last(matches').last = pos + n BY <1>3, <1>7
  <2>2. NewlinesTo(Last(matches).first - 1)' = NewlinesTo(pos) BY <2>1 DEF NewlinesTo
  <2>3. NewlinesTo(Last(matches).last)' = NewlinesTo(pos + n) BY <2>1 DEF NewlinesTo
  <2>4. /\ LineAt(Last(matches).first - 1)' = LineAt(pos)
        /\ ColumnAt(Last(matches).first - 1)' = ColumnAt(pos)
    BY <2>1, <2>2 DEF LineAt, ColumnAt
  <2>5. /\ LineAt(Last(matches).last)' = LineAt(pos + n)
        /\ ColumnAt(Last(matches).last)' = ColumnAt(pos + n)
    BY <2>1, <2>3 DEF LineAt, ColumnAt
  <2> QED BY <1>4, <2>4, <2>5 DEF LocationIsExact
<1> QED BY <1>3, <1>4, <1>5, <1>6, <1>7, <1>8 DEF Located

\* The match is whole, and the ones before it stay so.
LEMMA ConsumeWhole ==
  ASSUME IInv, NEW c \in Chosen, Consume(c), text' = text
  PROVE  TokensAreWhole'
<1>1. TypeOK BY DEF IInv
<1>2. /\ DOMAIN matches' = 1..Len(matches) + 1 /\ DOMAIN matches = 1..Len(matches)
      /\ Len(matches) \in Nat
  BY <1>1, ConsumeType, EmptyOrNot DEF TypeOK
<1>3. SUFFICES ASSUME NEW k \in 1..Len(matches) + 1 PROVE Whole(matches[k])'
  BY <1>2 DEF TokensAreWhole
<1>4. CASE k \in 1..Len(matches)
  <2>1. Whole(matches[k]) BY <1>2, <1>4 DEF IInv, TokensAreWhole
  <2>2. matches'[k] = matches[k] BY <1>4, ConsumeType
  <2> QED BY <2>1, <2>2 DEF Whole
<1>5. CASE k = Len(matches) + 1
  <2>1. matches'[k] = [rule |-> c.rule, first |-> pos + 1, last |-> pos + c.length]
    BY <1>5, ConsumeType
  <2>2. ASSUME pos + c.length < Len(text), c.rule \in {"word", "keyword"}
        PROVE  text[pos + c.length + 1] \notin Letters \union Digits \union {"_"}
    <3>1. c.length < Len(Rest) BY <1>1, <2>2, ConsumeType, RestType, PosType
    <3> QED BY <1>1, <2>2, <3>1, WordIsWhole
  <2>3. ASSUME pos + c.length < Len(text), c.rule \in {"int", "float"}
        PROVE  text[pos + c.length + 1] \notin Digits
    <3>1. c.length < Len(Rest) BY <1>1, <2>3, ConsumeType, RestType, PosType
    <3> QED BY <1>1, <2>3, <3>1, NumberIsWhole
  <2>4. matches'[k].last = pos + c.length /\ matches'[k].rule = c.rule BY <2>1
  <2>5. matches'[k].last + 1 = pos + c.length + 1 BY <1>1, <2>4, ConsumeType DEF TypeOK
  <2> QED BY <2>2, <2>3, <2>4, <2>5 DEF Whole
<1> QED BY <1>2, <1>4, <1>5

\* A match does not change what came before the matches there were.
LEMMA ConsumeFirst ==
  ASSUME IInv, NEW c \in Chosen, Consume(c), text' = text
  PROVE  \A k \in 1..Len(matches) + 1 : IsFirst(k)' <=> IsFirst(k)
<1>1. Len(matches) \in Nat /\ \A j \in 1..Len(matches) : matches'[j] = matches[j] BY ConsumeType
<1>2. SUFFICES ASSUME NEW k \in 1..Len(matches) + 1 PROVE IsFirst(k)' <=> IsFirst(k)
  OBVIOUS
<1>3. \A j \in 1..k - 1 : matches'[j] = matches[j] BY <1>1
<1> QED BY <1>3 DEF IsFirst

\* Initially nothing has been read.
LEMMA InitStep == Init => IInv
<1> SUFFICES ASSUME Init PROVE IInv
  OBVIOUS
<1> USE DEF Init
<1>1. Len(text) \in Nat BY TextsAssumption
<1>2. TypeOK BY <1>1 DEF TypeOK
<1>3. Located
  <2>1. NewlinesTo(0) = {} BY DEF NewlinesTo
  <2>2. LineAt(0) = 0 BY <2>1, FS_EmptySet DEF LineAt
  <2>3. ColumnAt(0) = 0
    <3>1. ColumnAt(0) \in 0..0 BY PlaceType
    <3> QED BY <3>1
  <2> QED BY <2>2, <2>3 DEF Located, LocationIsExact
<1>4. TokensAreWhole BY DEF TokensAreWhole
<1>5. StringsFollowTokens BY DEF StringsFollowTokens, IsFirst
<1>6. EndsWhereNothingBegins BY DEF EndsWhereNothingBegins
<1> QED BY <1>2, <1>3, <1>4, <1>5, <1>6 DEF IInv

\* A rule without a token.
LEMMA SkipStep ==
  ASSUME IInv, pc = "lex", NEW c \in Chosen, Skip(c)
  PROVE  IInv'
<1>1. Consume(c) /\ c.rule \in Skipped /\ UNCHANGED <<text, tokens, token, strings, pc>>
  BY DEF Skip
<1>2. TypeOK BY DEF IInv
<1>3. /\ Len(matches) \in Nat /\ Len(matches') = Len(matches) + 1
      /\ \A k \in 1..Len(matches) : matches'[k] = matches[k]
      /\ matches'[Len(matches) + 1].rule = c.rule
      /\ matches \in Seq(Match) /\ matches' \in Seq(Match)
      /\ DOMAIN matches = 1..Len(matches) /\ DOMAIN matches' = 1..Len(matches) + 1
  <2>1. matches \in Seq(Match) BY <1>2 DEF TypeOK, Match
  <2> QED BY <1>1, <2>1, ConsumeType, EmptyOrNot
<1>4. TypeOK'
  <2>1. text' \in Texts /\ pos' \in 0..Len(text') /\ start' \in {"INITIAL", "COMMENT"}
    BY <1>1, <1>2, ConsumeType DEF TypeOK
  <2>2. yylloc' \in [first_line : 0..Len(text'), first_column : 0..Len(text'),
                     last_line : 0..Len(text'), last_column : 0..Len(text')]
    BY <1>1, ConsumeLocated
  <2>3. strings' \subseteq DOMAIN matches' BY <1>1, <1>2, <1>3 DEF TypeOK
  <2>4. matches' \in Seq([rule : DOMAIN Line, first : 1..Len(text'), last : 1..Len(text')])
    BY <1>1, <1>3 DEF Match
  <2>5. /\ token' \in Tokens \union {"none"} /\ tokens' \in Seq(Tokens \ {"EOF"})
        /\ pc' \in {"lex", "loop", "done"}
    BY <1>1, <1>2 DEF TypeOK
  <2> QED BY <2>1, <2>2, <2>3, <2>4, <2>5 DEF TypeOK
<1>5. Located' /\ TokensAreWhole' BY <1>1, ConsumeLocated, ConsumeWhole
<1>6. StringsFollowTokens'
  <2>1. tokens = <<>> => strings = {} /\ IsFirst(Len(matches) + 1)
    BY DEF IInv, StringsFollowTokens
  <2>2. tokens = <<>> => IsFirst(Len(matches))'
    <3> SUFFICES ASSUME tokens = <<>>, NEW j \in 1..Len(matches') - 1
                 PROVE  matches'[j].rule \in Skipped
      BY DEF IsFirst
    <3> QED BY <1>3, <2>1 DEF IsFirst
  <2>3. tokens = <<>> => IsFirst(Len(matches) + 1)'
    <3> SUFFICES ASSUME tokens = <<>>, NEW j \in 1..(Len(matches') + 1) - 1
                 PROVE  matches'[j].rule \in Skipped
      BY DEF IsFirst
    <3>1. CASE j \in 1..Len(matches) BY <1>3, <2>1, <3>1 DEF IsFirst
    <3>2. CASE j = Len(matches) + 1 BY <1>1, <1>3, <3>2
    <3> QED BY <1>3, <3>1, <3>2
  <2>4. \A k \in strings : IsFirst(k)'
    <3>1. \A k \in strings : k \in 1..Len(matches) + 1 /\ IsFirst(k)
      BY <1>2, <1>3 DEF IInv, StringsFollowTokens, TypeOK
    <3> QED BY <1>1, <3>1, ConsumeFirst
  <2> QED BY <1>1, <2>1, <2>3, <2>4 DEF StringsFollowTokens
<1>7. EndsWhereNothingBegins'
  BY <1>1 DEF IInv, EndsWhereNothingBegins
<1> QED BY <1>1, <1>4, <1>5, <1>6, <1>7 DEF IInv

\* A rule with a token.
LEMMA ReturnTokenStep ==
  ASSUME IInv, pc = "lex", NEW c \in Chosen, ReturnToken(c)
  PROVE  IInv'
<1>1. /\ Consume(c) /\ c.rule \in DOMAIN Returned /\ UNCHANGED <<text, tokens>>
      /\ token' = Returned[c.rule] /\ pc' = "loop"
      /\ strings' = IF Returned[c.rule] \in {"IDENTIFIER", "STRING"}
                    THEN strings \union {Len(matches) + 1} ELSE strings
  BY DEF ReturnToken
<1>2. TypeOK BY DEF IInv
<1>3. /\ Len(matches) \in Nat /\ Len(matches') = Len(matches) + 1
      /\ \A k \in 1..Len(matches) : matches'[k] = matches[k]
      /\ matches \in Seq(Match) /\ matches' \in Seq(Match)
      /\ DOMAIN matches = 1..Len(matches) /\ DOMAIN matches' = 1..Len(matches) + 1
  <2>1. matches \in Seq(Match) BY <1>2 DEF TypeOK, Match
  <2> QED BY <1>1, <2>1, ConsumeType, EmptyOrNot
<1>4. c.rule \in DOMAIN Line BY <1>1, ConsumeType
<1>5. /\ token' \in Tokens
      /\ token' = "EOF" <=> c.rule = "unknown"
  BY <1>1, <1>4, RuleFacts
<1>6. strings' \subseteq 1..Len(matches) + 1
  <2>1. strings \subseteq 1..Len(matches) BY <1>2, <1>3 DEF TypeOK
  <2>2. CASE strings' = strings BY <1>3, <2>1, <2>2
  <2>3. CASE strings' = strings \union {Len(matches) + 1}
    <3>1. ASSUME NEW k \in strings' PROVE k \in 1..Len(matches) + 1
      <4>1. k \in strings \/ k = Len(matches) + 1 BY <2>3
      <4>2. Len(matches) \in Nat BY <1>3
      <4>3. CASE k \in strings
        <5>1. k \in 1..Len(matches) BY <2>1, <4>3
        <5> QED BY <4>2, <5>1
      <4>4. CASE k = Len(matches) + 1 BY <4>2, <4>4
      <4> QED BY <4>1, <4>3, <4>4
    <3> QED BY <3>1
  <2> QED BY <1>1, <2>2, <2>3
<1>7. TypeOK'
  BY <1>1, <1>2, <1>3, <1>5, <1>6, ConsumeType, ConsumeLocated DEF TypeOK, Match
<1>8. Located' /\ TokensAreWhole' BY <1>1, ConsumeLocated, ConsumeWhole
<1>9. StringsFollowTokens'
  <2>1. CASE tokens = <<>>
    <3>1. strings = {} /\ IsFirst(Len(matches) + 1)
      BY <2>1 DEF IInv, StringsFollowTokens
    <3>2. strings' \subseteq {Len(matches')} BY <1>1, <1>3, <3>1
    <3>3. IsFirst(Len(matches))'
      <4> SUFFICES ASSUME NEW j \in 1..Len(matches') - 1
                   PROVE  matches'[j].rule \in Skipped
        BY DEF IsFirst
      <4> QED BY <1>3, <3>1 DEF IsFirst
    <3> QED BY <1>1, <2>1, <3>2, <3>3 DEF StringsFollowTokens
  <2>2. CASE tokens # <<>>
    <3>1. \A k \in strings : k \in 1..Len(matches) + 1 /\ IsFirst(k)
      BY <1>2, <1>3 DEF IInv, StringsFollowTokens, TypeOK
    <3>2. \A k \in strings : IsFirst(k)' BY <1>1, <3>1, ConsumeFirst
    <3>3. \A k \in strings' :
            IsFirst(k)' \/ (k = Len(matches') /\ token' \in {"IDENTIFIER", "STRING"})
      <4>1. CASE Returned[c.rule] \in {"IDENTIFIER", "STRING"}
        <5>1. strings' = strings \union {Len(matches')} BY <1>1, <1>3, <4>1
        <5>2. token' \in {"IDENTIFIER", "STRING"} BY <1>1, <4>1
        <5> QED BY <3>2, <5>1, <5>2
      <4>2. CASE Returned[c.rule] \notin {"IDENTIFIER", "STRING"}
        <5>1. strings' = strings BY <1>1, <4>2
        <5> QED BY <3>2, <5>1
      <4> QED BY <4>1, <4>2
    <3> QED BY <1>1, <2>2, <3>3 DEF StringsFollowTokens
  <2> QED BY <2>1, <2>2
<1>10. EndsWhereNothingBegins'
  <2>1. CASE c.rule = "unknown"
    <3>1. pos' = pos + 1 /\ NothingBegins(pos + 1)
      BY <1>1, <1>2, <2>1, ConsumeType, UnknownMeans
    <3>2. NothingBegins(pos)' BY <1>1, <3>1 DEF NothingBegins
    <3> QED BY <1>1, <3>2 DEF EndsWhereNothingBegins
  <2>2. CASE c.rule # "unknown"
    BY <1>1, <1>5, <2>2 DEF EndsWhereNothingBegins
  <2> QED BY <2>1, <2>2
<1>11. token' # "none" BY <1>5 DEF Tokens
<1> QED BY <1>7, <1>8, <1>9, <1>10, <1>11 DEF IInv

\* Steps that leave the scanner where it is keep its part of the invariant.
LEMMA ScannerUnchanged ==
  ASSUME IInv, UNCHANGED <<text, pos, start, yylloc, matches>>
  PROVE  /\ Located' /\ TokensAreWhole'
         /\ \A k : IsFirst(k)' <=> IsFirst(k)
         /\ NothingBegins(pos)' <=> NothingBegins(pos)
<1>1. Located /\ TokensAreWhole BY DEF IInv
<1>2. Located'
  BY <1>1 DEF Located, LocationIsExact, LineAt, ColumnAt, NewlinesTo
<1>3. TokensAreWhole' BY <1>1 DEF TokensAreWhole, Whole
<1>4. \A k : IsFirst(k)' <=> IsFirst(k) BY DEF IsFirst
<1>5. NothingBegins(pos)' <=> NothingBegins(pos) BY DEF NothingBegins
<1> QED BY <1>2, <1>3, <1>4, <1>5

\* The end of the text.
LEMMA EndOfTextStep == ASSUME IInv, EndOfText PROVE IInv'
<1> USE DEF EndOfText
<1>1. TypeOK BY DEF IInv
<1>2. TypeOK'
  <2>1. token' \in Tokens BY DEF Tokens
  <2> QED BY <1>1, <2>1 DEF TypeOK
<1>3. Located' /\ TokensAreWhole' BY ScannerUnchanged
<1>4. StringsFollowTokens'
  <2>1. Len(matches) \in Nat BY <1>1 DEF TypeOK
  <2>2. IsFirst(Len(matches) + 1) => IsFirst(Len(matches)) BY <2>1 DEF IsFirst
  <2>3. IsFirst(Len(matches))' <=> IsFirst(Len(matches)) BY DEF IsFirst
  <2> QED BY <2>2, <2>3, ScannerUnchanged DEF IInv, StringsFollowTokens
<1>5. EndsWhereNothingBegins'
  <2>1. Len(Rest) = 0 BY <1>1, RestType, EmptyOrNot
  <2>2. pos = Len(text) BY <1>1, <2>1, RestType, TextType DEF TypeOK
  <2> QED BY <1>1, <2>2, TextType DEF EndsWhereNothingBegins, TypeOK
<1> QED BY <1>2, <1>3, <1>4, <1>5 DEF IInv

\* tokenize stores a token and frees its string.
LEMMA StoreStep == ASSUME IInv, Store PROVE IInv'
<1> USE DEF Store
<1>1. TypeOK BY DEF IInv
<1>2. strings' \subseteq strings BY DEF Freed
<1>3. TypeOK'
  <2>1. token \in Tokens \ {"EOF"} BY <1>1 DEF TypeOK, IInv
  <2>2. tokens' \in Seq(Tokens \ {"EOF"}) BY <1>1, <2>1 DEF TypeOK
  <2> QED BY <1>1, <1>2, <2>2 DEF TypeOK
<1>4. Located' /\ TokensAreWhole' BY ScannerUnchanged
<1>5. StringsFollowTokens'
  <2>1. tokens' # <<>>
    <3>1. tokens \in Seq(Tokens \ {"EOF"}) /\ token \in Tokens \ {"EOF"}
      BY <1>1 DEF TypeOK, IInv
    <3> QED BY <3>1
  <2>2. \A k \in strings' : IsFirst(k)
    <3>1. CASE tokens = <<>>
      <4>1. strings \subseteq {Len(matches)} /\ IsFirst(Len(matches)) /\ strings' = strings
        BY <3>1 DEF IInv, StringsFollowTokens, Freed
      <4> QED BY <4>1
    <3>2. CASE tokens # <<>>
      <4>1. \A k \in strings : IsFirst(k) \/ (k = Len(matches) /\ token \in {"IDENTIFIER", "STRING"})
        BY <3>2 DEF IInv, StringsFollowTokens
      <4> QED BY <3>2, <4>1 DEF Freed
    <3> QED BY <3>1, <3>2
  <2>3. \A k \in strings' : IsFirst(k)' BY <2>2, ScannerUnchanged
  <2> QED BY <2>1, <2>3 DEF StringsFollowTokens
<1>6. EndsWhereNothingBegins'
  BY DEF EndsWhereNothingBegins
<1> QED BY <1>3, <1>4, <1>5, <1>6 DEF IInv

\* tokenize returns.
LEMMA ReturnStep == ASSUME IInv, Return PROVE IInv'
<1> USE DEF Return
<1>1. TypeOK BY DEF IInv
<1>2. TypeOK' BY <1>1 DEF TypeOK
<1>3. Located' /\ TokensAreWhole' BY ScannerUnchanged
<1>4. StringsFollowTokens'
  <2>1. \A k \in strings : IsFirst(k) BY DEF IInv, StringsFollowTokens
  <2>2. \A k \in strings : IsFirst(k)' BY <2>1, ScannerUnchanged
  <2> QED BY <2>2 DEF StringsFollowTokens
<1>5. EndsWhereNothingBegins'
  BY ScannerUnchanged DEF IInv, EndsWhereNothingBegins
<1> QED BY <1>2, <1>3, <1>4, <1>5 DEF IInv

\* Every step keeps the invariant.
LEMMA NextStep == IInv /\ [Next]_vars => IInv'
<1> SUFFICES ASSUME IInv, [Next]_vars PROVE IInv'
  OBVIOUS
<1>1. CASE Lex
  <2>1. pc = "lex" /\ \E c \in Chosen : Skip(c) \/ ReturnToken(c) BY <1>1 DEF Lex
  <2> QED BY <2>1, SkipStep, ReturnTokenStep
<1>2. CASE EndOfText BY <1>2, EndOfTextStep
<1>3. CASE Store BY <1>3, StoreStep
<1>4. CASE Return BY <1>4, ReturnStep
<1>5. CASE UNCHANGED vars
  <2> USE <1>5 DEF vars
  <2>1. TypeOK' BY DEF IInv, TypeOK
  <2>2. Located' /\ TokensAreWhole' BY ScannerUnchanged
  <2>3. StringsFollowTokens'
    <3>1. IsFirst(Len(matches))' <=> IsFirst(Len(matches)) BY DEF IsFirst
    <3>2. IsFirst(Len(matches) + 1)' <=> IsFirst(Len(matches) + 1) BY DEF IsFirst
    <3> QED BY <3>1, <3>2, ScannerUnchanged DEF IInv, StringsFollowTokens
  <2>4. EndsWhereNothingBegins' BY ScannerUnchanged DEF IInv, EndsWhereNothingBegins
  <2> QED BY <2>1, <2>2, <2>3, <2>4 DEF IInv
<1> QED BY <1>1, <1>2, <1>3, <1>4, <1>5 DEF Next, Finished

LEMMA Invariant == Spec => []IInv
BY InitStep, NextStep, PTL DEF Spec

-----------------------------------------------------------------------------
(* The theorems.                                                           *)

\* The types: the scanner never reads past the end of a text, and its lines and columns
\* stay within it.
THEOREM TypeCorrect == Spec => []TypeOK
<1>1. IInv => TypeOK BY DEF IInv
<1> QED BY <1>1, Invariant, PTL

\* YY_USER_ACTION keeps the location of the last match, whatever was skipped before it.
THEOREM LocationsExact == Spec => []LocationIsExact
<1>1. IInv => LocationIsExact BY DEF IInv, Located
<1> QED BY <1>1, Invariant, PTL

\* The longest match of the first rule never ends inside a word or a number.
THEOREM TokensWhole == Spec => []TokensAreWhole
<1>1. IInv => TokensAreWhole BY DEF IInv
<1> QED BY <1>1, Invariant, PTL

\* tokenize frees the strings of all tokens but the first.
THEOREM StringsFreed == Spec => []OnlyFirstStringLeaks
<1>1. IInv => OnlyFirstStringLeaks BY DEF IInv, StringsFollowTokens, OnlyFirstStringLeaks
<1> QED BY <1>1, Invariant, PTL

\* tokenize reads all of a text, or up to a character nothing begins with.
THEOREM TokenizeEnds == Spec => []EndsAtUnknown
<1>1. IInv => EndsAtUnknown BY DEF IInv, EndsWhereNothingBegins, EndsAtUnknown
<1> QED BY <1>1, Invariant, PTL

-----------------------------------------------------------------------------
(* Progress.                                                               *)

\* What is left to do of a call of tokenize: characters to match, each of which can cost a
\* round of its loop, and the end of the round that has begun.
Left == 3 * (Len(text) - pos) + CASE pc = "lex" -> 2
                                  [] pc = "loop" -> IF token = "EOF" THEN 1 ELSE 3
                                  [] pc = "done" -> 0

\* A step that is not the last uses up a part of what is left: no call of hsql_lex, in either
\* start condition, and no round of the loop of SQLParser.cpp:65-73 is idle, so that tokenize
\* returns after at most 3 steps for each character and 2 more.
UsesUp == pc # "done" => Left' < Left

LEMMA LeftType == ASSUME IInv PROVE Left \in Nat
<1>1. TypeOK BY DEF IInv
<1>2. Len(text) - pos \in Nat BY <1>1, PosType
<1>3. pc \in {"lex", "loop", "done"} BY <1>1 DEF TypeOK
<1> QED BY <1>2, <1>3 DEF Left

\* A match is not empty.
LEMMA MatchUsesUp == ASSUME IInv, Lex PROVE Left' < Left
<1>1. PICK c \in Chosen : Skip(c) \/ ReturnToken(c) BY DEF Lex
<1>2. TypeOK BY DEF IInv
<1>3. c.length \in 1..Len(Rest) BY CandidateType DEF Chosen
<1>4. Len(Rest) = Len(text) - pos BY <1>2, RestType
<1>5. pos' = pos + c.length /\ text' = text BY <1>1 DEF Skip, ReturnToken, Consume
<1>6. pos \in Nat /\ pos' \in Nat /\ pos' > pos /\ Len(text) \in Nat
  BY <1>2, <1>3, <1>4, <1>5, PosType
<1>7. pc = "lex" /\ (pc' = "lex" \/ pc' = "loop") BY <1>1 DEF Lex, Skip, ReturnToken
<1>8. Left = 3 * (Len(text) - pos) + 2 BY <1>7 DEF Left
<1>9. \/ Left' = 3 * (Len(text) - pos') + 2 \/ Left' = 3 * (Len(text) - pos') + 1
      \/ Left' = 3 * (Len(text) - pos') + 3
  BY <1>5, <1>7 DEF Left
<1> QED BY <1>6, <1>8, <1>9

\* Each step but that of a finished program uses up some of what is left.
LEMMA StepUsesUp == ASSUME IInv, [Next]_vars PROVE [UsesUp]_vars
<1>1. Len(text) - pos \in Nat
  <2>1. TypeOK BY DEF IInv
  <2> QED BY <2>1, PosType
<1>2. CASE Lex BY <1>2, MatchUsesUp DEF UsesUp
<1>3. CASE EndOfText
  <2>1. pc = "lex" /\ pc' = "loop" /\ token' = "EOF" /\ text' = text /\ pos' = pos
    BY <1>3 DEF EndOfText
  <2> QED BY <1>1, <2>1 DEF UsesUp, Left
<1>4. CASE Store
  <2>1. pc = "loop" /\ token # "EOF" /\ pc' = "lex" /\ text' = text /\ pos' = pos
    BY <1>4 DEF Store
  <2> QED BY <1>1, <2>1 DEF UsesUp, Left
<1>5. CASE Return
  <2>1. pc = "loop" /\ token = "EOF" /\ pc' = "done" /\ text' = text /\ pos' = pos
    BY <1>5 DEF Return
  <2> QED BY <1>1, <2>1 DEF UsesUp, Left
<1> QED BY <1>2, <1>3, <1>4, <1>5 DEF Next, Finished

\* tokenize makes progress at every step, by a natural number that only gets smaller.
THEOREM TokenizeProgresses == Spec => [](Left \in Nat) /\ [][UsesUp]_vars
<1>1. IInv => Left \in Nat BY LeftType
<1>2. IInv /\ [Next]_vars => [UsesUp]_vars BY StepUsesUp
<1> QED BY <1>1, <1>2, Invariant, PTL DEF Spec

-----------------------------------------------------------------------------
(* Comments.                                                               *)

\* Where the scanner is in a comment whose marks end at e: behind them or at the end of their
\* line. The match of the marks is the last of its rule.
CommentFollowed ==
  start = "COMMENT" =>
    \E e \in 2..pos :
      /\ text[e - 1] = "-" /\ text[e] = "-"
      /\ \A k \in e + 1..pos : text[k] # Newline
      /\ pos = e \/ pos = Len(text) \/ text[pos + 1] = Newline
      /\ \E i \in 1..Len(matches) :
           /\ matches[i].rule = "comment" /\ matches[i].first = e - 1
           /\ \A j \in i + 1..Len(matches) : matches[j].rule # "comment"

\* The characters of a match.
LEMMA ChosenMatch ==
  ASSUME TypeOK, NEW c \in Chosen, NEW s, s = SubSeq(Rest, 1, c.length)
  PROVE  /\ c.rule \in DOMAIN Line /\ Matches(c.rule, s)
         /\ c.length \in Nat /\ c.length > 0 /\ c.length <= Len(Rest)
         /\ s \in Seq(Characters) /\ Len(s) = c.length /\ DOMAIN s = 1..c.length
         /\ \A k \in 1..c.length : s[k] = text[pos + k]
<1>1. c.rule \in DOMAIN Line /\ c.length \in 1..Len(Rest) /\ Matches(c.rule, s)
  BY CandidateType DEF Chosen
<1>2. Len(Rest) \in Nat BY RestType, EmptyOrNot
<1> QED BY <1>1, <1>2, PrefixType

\* A number has no newline.
LEMMA NumberHasNoNewline ==
  ASSUME NEW S, NEW s \in Seq(S), s # <<>>, IsInt(s) \/ IsFloat(s)
  PROVE  \A k \in 1..Len(s) : s[k] # Newline
<1>1. Newline \notin Digits /\ Newline # "-" /\ Newline # "." BY DEF Newline, Digits
<1>2. ASSUME NEW t \in Seq(S), t # <<>>, IsInt(t) PROVE \A k \in 1..Len(t) : t[k] # Newline
  <2> DEFINE b == IF t[1] = "-" THEN 1 ELSE 0
  <2>1. \A k \in b + 1..Len(t) : t[k] \in Digits BY <1>2, IntMeans
  <2>2. b \in {0, 1} /\ (b = 1 => t[1] = "-") OBVIOUS
  <2>3. Len(t) \in Nat OBVIOUS
  <2> HIDE DEF b
  <2> TAKE k \in 1..Len(t)
  <2>4. k \in b + 1..Len(t) \/ (b = 1 /\ k = 1) BY <2>2, <2>3
  <2> QED BY <1>1, <2>1, <2>2, <2>4
<1>3. ASSUME IsFloat(s) PROVE \A k \in 1..Len(s) : s[k] # Newline
  <2>1. Len(s) \in Nat /\ DOMAIN s = 1..Len(s) OBVIOUS
  <2>2. PICK d \in 1..Len(s) : /\ s[d] = "."
                               /\ All(SubSeq(s, d + 1, Len(s)), Digits)
                               /\ d = 1 \/ IsInt(SubSeq(s, 1, d - 1))
    BY <1>3, <2>1 DEF IsFloat
  <2> TAKE k \in 1..Len(s)
  <2>3. CASE k = d BY <1>1, <2>2, <2>3
  <2>4. CASE k > d
    <3> DEFINE t == SubSeq(s, d + 1, Len(s))
               n == Len(s) - d
    <3>1. n \in Nat /\ DOMAIN t = 1..n /\ \A j \in 1..n : t[j] = s[d + j]
      BY <2>1, <2>2
    <3>2. k - d \in 1..n /\ d + (k - d) = k BY <2>1, <2>2, <2>4
    <3> HIDE DEF t, n
    <3>3. t[k - d] \in Digits
      <4>1. All(t, Digits) BY <2>2 DEF t
      <4> QED BY <3>1, <3>2, <4>1, AllMeans
    <3> QED BY <1>1, <3>1, <3>2, <3>3
  <2>5. CASE k < d
    <3> DEFINE t == SubSeq(s, 1, d - 1)
    <3>1. t \in Seq(S) /\ Len(t) = d - 1 /\ \A j \in 1..d - 1 : t[j] = s[j]
      BY <2>1, <2>2
    <3>2. k \in 1..d - 1 /\ d # 1 BY <2>1, <2>2, <2>5
    <3>3. IsInt(t) /\ t # <<>>
      <4>1. IsInt(t) BY <2>2, <3>2
      <4>2. Len(t) # 0 BY <2>2, <3>1, <3>2
      <4> HIDE DEF t
      <4> QED BY <3>1, <4>1, <4>2
    <3> HIDE DEF t
    <3>4. t[k] # Newline BY <1>2, <3>1, <3>2, <3>3
    <3> QED BY <3>1, <3>2, <3>4
  <2> QED BY <2>1, <2>2, <2>3, <2>4, <2>5
<1> QED BY <1>2, <1>3

\* Only three rules match a newline.
LEMMA NewlineRules ==
  ASSUME TypeOK, NEW c \in Chosen, NEW k \in 1..c.length, text[pos + k] = Newline
  PROVE  c.rule \in {"endline", "blank", "string"}
<1> DEFINE s == SubSeq(Rest, 1, c.length)
           n == c.length
<1>1. /\ c.rule \in DOMAIN Line /\ Matches(c.rule, s)
      /\ n \in Nat /\ n > 0 /\ s \in Seq(Characters) /\ Len(s) = n /\ DOMAIN s = 1..n
      /\ s[k] = Newline
  BY ChosenMatch
<1>2. k \in 1..n OBVIOUS
<1>3. s # <<>>
  <2> HIDE DEF s
  <2> QED BY <1>1, EmptyOrNot
<1> HIDE DEF s, n
<1>4. Newline \in ToSet(s) BY <1>1, <1>2 DEF ToSet
<1>5. Newline \in Blanks /\ Newline \notin Letters /\ Newline \notin Quotes /\ Newline \notin Marks
      /\ Newline \notin Digits /\ Newline # "_" /\ Newline # "-"
  <2>1. Newline \in Blanks BY DEF Blanks
  <2>2. Newline \notin Letters BY <2>1, LettersAssumption
  <2> QED BY <2>1, <2>2 DEF Newline, Quotes, Marks, Digits
<1>6. c.rule # "comment"
  <2> SUFFICES ASSUME s = <<"-", "-">> PROVE FALSE
    BY <1>1 DEF Matches
  <2>1. n = 2 /\ s[1] = "-" /\ s[2] = "-" BY <1>1
  <2>2. k = 1 \/ k = 2 BY <1>2, <2>1
  <2>3. s[k] = "-" BY <2>1, <2>2
  <2> QED BY <1>1, <1>5, <2>3
<1>7. c.rule # "content" BY <1>1, <1>4 DEF Matches
<1>8. c.rule # "keyword"
  <2> SUFFICES ASSUME s \in Keywords PROVE FALSE
    BY <1>1 DEF Matches
  <2> QED BY <1>4, <1>5, LettersAssumption
<1>9. c.rule # "pair"
  <2> SUFFICES ASSUME s \in Pairs PROVE FALSE
    BY <1>1 DEF Matches
  <2>1. PICK a, b \in Marks \union {"!"} : s = <<a, b>> BY DEF Pairs, Marks
  <2>2. Newline # "!" BY DEF Newline
  <2>3. n = 2 /\ s[1] = a /\ s[2] = b BY <1>1, <2>1
  <2>4. k = 1 \/ k = 2 BY <1>2, <2>3
  <2>5. s[k] \in Marks \union {"!"} BY <2>3, <2>4
  <2> QED BY <1>1, <1>5, <2>2, <2>5
<1>10. c.rule # "single"
  <2> SUFFICES ASSUME n = 1, s[1] \in Singles PROVE FALSE
    BY <1>1 DEF Matches
  <2>1. k = 1 BY <1>2
  <2>2. s[k] \in Marks BY <2>1 DEF Singles
  <2> QED BY <1>1, <1>5, <2>2
<1>11. c.rule # "float" /\ c.rule # "int"
  <2> SUFFICES ASSUME IsInt(s) \/ IsFloat(s) PROVE FALSE
    BY <1>1 DEF Matches
  <2> QED BY <1>1, <1>2, <1>3, NumberHasNoNewline
<1>12. c.rule # "quoted"
  <2> SUFFICES ASSUME IsQuoted(s) PROVE FALSE
    BY <1>1 DEF Matches
  <2> DEFINE v == SubSeq(s, 2, n - 1)
  <2>1. n > 2 /\ s[1] \in Quotes /\ s[n] \in Quotes /\ Newline \notin ToSet(v)
    BY <1>1 DEF IsQuoted
  <2>2. k # 1 /\ k # n BY <1>1, <1>5, <2>1
  <2>3. DOMAIN v = 1..n - 2 /\ \A j \in 1..n - 2 : v[j] = s[1 + j] BY <1>1, <2>1
  <2>4. k - 1 \in 1..n - 2 /\ 1 + (k - 1) = k BY <1>1, <1>2, <2>1, <2>2
  <2> HIDE DEF v
  <2>5. v[k - 1] = Newline BY <1>1, <2>3, <2>4
  <2> QED BY <2>1, <2>3, <2>4, <2>5 DEF ToSet
<1>13. c.rule # "word"
  <2> SUFFICES ASSUME All(s, Letters \union Digits \union {"_"}) PROVE FALSE
    BY <1>1 DEF Matches, IsWord
  <2> QED BY <1>4, <1>5 DEF All
<1>14. c.rule # "unknown"
  <2> SUFFICES ASSUME n = 1, s[1] # Newline PROVE FALSE
    BY <1>1 DEF Matches
  <2> QED BY <1>1, <1>2
<1> QED BY <1>1, <1>6, <1>7, <1>8, <1>9, <1>10, <1>11, <1>12, <1>13, <1>14 DEF Line

\* A match in a plain comment ends it, or goes on to the end of its line.
LEMMA MatchInComment ==
  ASSUME TypeOK, start = "COMMENT", NEW c \in Chosen, NEW e \in 2..pos, PlainComment(text, e),
         \A k \in e + 1..pos : text[k] # Newline,
         pos = e \/ pos = Len(text) \/ text[pos + 1] = Newline,
         c.rule # "endline"
  PROVE  /\ \A k \in pos + 1..pos + c.length : text[k] # Newline
         /\ pos + c.length = Len(text) \/ text[pos + c.length + 1] = Newline
<1> DEFINE n == c.length
           s == SubSeq(Rest, 1, c.length)
           N == {k \in 1..n : text[pos + k] = Newline}
<1>1. /\ pos \in Nat /\ Len(text) \in Nat /\ Len(Rest) \in Nat /\ Len(Rest) = Len(text) - pos
      /\ e \in Nat /\ e <= pos
  BY PosType, RestType, EmptyOrNot
<1>2. /\ Matches(c.rule, s) /\ n \in Nat /\ n > 0 /\ n <= Len(Rest)
      /\ s \in Seq(Characters) /\ Len(s) = n /\ DOMAIN s = 1..n
      /\ \A k \in 1..n : s[k] = text[pos + k]
  BY ChosenMatch
<1>3. pos + n <= Len(text) BY <1>1, <1>2
<1>4. N = {}
  <2> SUFFICES ASSUME N # {} PROVE FALSE
    OBVIOUS
  <2>1. N \subseteq Nat OBVIOUS
  <2>2. PICK k \in N : \A j \in N : k <= j
    <3> HIDE DEF N
    <3> QED BY <2>1, LeastNatural
  <2> DEFINE q == pos + k
  <2>3. k \in 1..n /\ text[q] = Newline /\ q \in e + 1..Len(text) /\ k \in Nat /\ k > 0 /\ q \in Nat
    BY <1>1, <1>2, <1>3
  <2>4. \A j \in e + 1..q - 1 : text[j] # Newline
    <3> TAKE j \in e + 1..q - 1
    <3>1. CASE j <= pos
      <4>1. j \in e + 1..pos BY <1>1, <2>3, <3>1
      <4> QED BY <4>1
    <3>2. CASE j > pos
      <4>1. j - pos \in 1..n /\ j - pos < k /\ pos + (j - pos) = j BY <1>1, <1>2, <2>3, <3>2
      <4>2. j - pos \notin N BY <2>2, <2>3, <4>1
      <4> QED BY <4>1, <4>2
    <3> QED BY <1>1, <2>3, <3>1, <3>2
  <2>5. /\ q < Len(text) => text[q + 1] \notin Blanks
        /\ q = e + 1 \/ \E j \in e + 1..q - 1 : text[j] \notin Blanks
    BY <2>3, <2>4 DEF PlainComment
  <2>6. CASE c.rule = "blank"
    <3>1. \A j \in 1..n : text[pos + j] \in Blanks
      <4>1. All(s, Blanks) BY <1>2, <2>6 DEF Matches
      <4> HIDE DEF s, n
      <4> QED BY <1>2, <4>1, AllMeans
    <3>2. k = n
      <4> SUFFICES ASSUME k # n PROVE FALSE
        OBVIOUS
      <4> HIDE DEF N, s
      <4>1. k + 1 \in 1..n /\ k < n
        <5>1. k \in 1..n BY <2>3
        <5> HIDE DEF n
        <5> QED BY <1>2, <5>1
      <4>2. pos + (k + 1) = q + 1 /\ q < Len(text) BY <1>1, <1>2, <1>3, <2>3, <4>1
      <4> QED BY <2>5, <3>1, <4>1, <4>2
    <3>3. k = 1
      <4>1. CASE pos = e
        <5>1. ~\E j \in e + 1..q - 1 : text[j] \notin Blanks
          <6> SUFFICES ASSUME NEW j \in e + 1..q - 1 PROVE text[j] \in Blanks
            OBVIOUS
          <6>1. j - pos \in 1..n /\ pos + (j - pos) = j BY <1>1, <1>2, <2>3, <4>1
          <6> QED BY <3>1, <6>1
        <5>2. q = e + 1 BY <2>5, <5>1
        <5> QED BY <1>1, <2>3, <4>1, <5>2
      <4>2. CASE pos # e
        <5>1. text[pos + 1] = Newline BY <1>1, <1>2, <1>3, <4>2
        <5>2. 1 \in N BY <1>2, <5>1
        <5> QED BY <2>2, <2>3, <5>2
      <4> QED BY <4>1, <4>2
    <3>4. s = <<Newline>>
      <4>1. Len(s) = 1 /\ s[1] = Newline BY <1>2, <2>3, <3>2, <3>3
      <4> HIDE DEF s
      <4> QED BY <1>2, <4>1
    <3>5. Matches("endline", s) BY <3>4 DEF Matches
    <3>6. Line["endline"] < Line[c.rule] /\ "endline" \in DOMAIN Line BY <2>6 DEF Line
    <3>7. n \in 1..Len(Rest) BY <1>1, <1>2
    <3> QED BY <3>5, <3>6, <3>7, NotBeaten
  <2>7. CASE c.rule = "string"
    <3>1. s[1] = "sq" BY <1>2, <2>7 DEF Matches, IsString
    <3>2. text[pos + 1] = "sq" BY <1>2, <3>1
    <3>3. pos < Len(text) /\ "sq" # Newline BY <1>1, <1>2, <1>3 DEF Newline
    <3>4. pos = e BY <1>1, <3>2, <3>3
    <3> QED BY <3>2, <3>3, <3>4 DEF PlainComment
  <2> QED BY <2>3, <2>6, <2>7, NewlineRules
<1>5. \A k \in pos + 1..pos + n : text[k] # Newline
  <2> TAKE k \in pos + 1..pos + n
  <2>1. k - pos \in 1..n /\ pos + (k - pos) = k BY <1>1, <1>2
  <2> QED BY <1>4, <2>1
<1>6. pos + n = Len(text) \/ text[pos + n + 1] = Newline
  <2> SUFFICES ASSUME pos + n < Len(text), text[pos + n + 1] # Newline PROVE FALSE
    BY <1>1, <1>2, <1>3
  <2> DEFINE u == SubSeq(Rest, 1, n + 1)
  <2>1. n + 1 \in 1..Len(Rest) /\ n + 1 > c.length BY <1>1, <1>2
  <2>2. DOMAIN u = 1..n + 1 /\ \A k \in 1..n + 1 : u[k] = text[pos + k] BY <2>1, PrefixType
  <2>3. \A k \in 1..n + 1 : text[pos + k] # Newline
    <3> TAKE k \in 1..n + 1
    <3>1. k \in 1..n \/ k = n + 1
      <4> HIDE DEF n, s, N
      <4> QED BY <1>2
    <3>2. pos + (n + 1) = pos + n + 1 BY <1>1, <1>2
    <3> QED BY <1>4, <3>1, <3>2
  <2>4. Newline \notin ToSet(u)
    <3> HIDE DEF u
    <3> QED BY <2>2, <2>3 DEF ToSet
  <2>5. Matches("content", u) BY <2>4 DEF Matches
  <2>6. "content" \in DOMAIN Line BY DEF Line
  <2> QED BY <2>1, <2>5, <2>6, NotBeaten
<1> QED BY <1>5, <1>6

\* A match keeps the place in a comment.
LEMMA ConsumeFollows ==
  ASSUME IInv, CommentsArePlain(text), CommentFollowed, NEW c \in Chosen, Consume(c), text' = text
  PROVE  CommentFollowed'
<1> DEFINE n == c.length
           s == SubSeq(Rest, 1, c.length)
           L == Len(matches)
<1>1. TypeOK BY DEF IInv
<1>2. /\ pos \in Nat /\ Len(text) \in Nat /\ Len(Rest) \in Nat /\ Len(Rest) = Len(text) - pos
      /\ pos <= Len(text)
  BY <1>1, PosType, RestType, EmptyOrNot
<1>3. /\ Matches(c.rule, s) /\ n \in Nat /\ n > 0 /\ n <= Len(Rest)
      /\ s \in Seq(Characters) /\ Len(s) = n /\ DOMAIN s = 1..n
      /\ \A k \in 1..n : s[k] = text[pos + k]
  BY <1>1, ChosenMatch
<1>4. /\ pos' = pos + n /\ L \in Nat /\ Len(matches') = L + 1
      /\ \A k \in 1..L : matches'[k] = matches[k]
      /\ matches'[L + 1].rule = c.rule /\ matches'[L + 1].first = pos + 1
  BY ConsumeType
<1>5. start' = NextStart(c.rule) BY DEF Consume
<1> HIDE DEF n, s, L
<1>6. CASE c.rule = "comment"
  <2> DEFINE e == pos + 2
  <2>1. s = <<"-", "-">> BY <1>3, <1>6 DEF Matches
  <2>2. n = 2 /\ s[1] = "-" /\ s[2] = "-" BY <1>3, <2>1
  <2>3. pos' = e /\ e \in 2..pos' /\ e - 1 = pos + 1 BY <1>2, <1>4, <2>2
  <2>4. text[e - 1] = "-" /\ text[e] = "-"
    <3>1. 1 \in 1..n /\ 2 \in 1..n BY <2>2
    <3> QED BY <1>3, <2>2, <2>3, <3>1
  <2>5. \A k \in e + 1..pos' : text[k] # Newline BY <1>2, <2>3
  <2>6. L + 1 \in 1..Len(matches') /\ \A j \in L + 1 + 1..Len(matches') : FALSE BY <1>4
  <2> HIDE DEF e
  <2> QED BY <1>4, <1>6, <2>3, <2>4, <2>5, <2>6 DEF CommentFollowed
<1>7. CASE c.rule = "endline"
  <2>1. start' = "INITIAL" BY <1>5, <1>7 DEF NextStart
  <2> QED BY <2>1 DEF CommentFollowed
<1>8. CASE c.rule # "comment" /\ c.rule # "endline"
  <2> SUFFICES ASSUME start' = "COMMENT" PROVE CommentFollowed'
    BY DEF CommentFollowed
  <2>1. start = "COMMENT" BY <1>5, <1>8 DEF NextStart
  <2>2. PICK e \in 2..pos :
          /\ text[e - 1] = "-" /\ text[e] = "-"
          /\ \A k \in e + 1..pos : text[k] # Newline
          /\ pos = e \/ pos = Len(text) \/ text[pos + 1] = Newline
          /\ \E i \in 1..Len(matches) :
               /\ matches[i].rule = "comment" /\ matches[i].first = e - 1
               /\ \A j \in i + 1..Len(matches) : matches[j].rule # "comment"
    BY <2>1, Zenon DEF CommentFollowed
  <2>3. PICK i \in 1..L : /\ matches[i].rule = "comment" /\ matches[i].first = e - 1
                          /\ \A j \in i + 1..L : matches[j].rule # "comment"
    BY <2>2 DEF L
  <2>4. e \in 2..Len(text) /\ e \in Nat /\ e <= pos BY <1>2
  <2>5. PlainComment(text, e) BY <2>2, <2>4 DEF CommentsArePlain
  <2>6. /\ \A k \in pos + 1..pos + n : text[k] # Newline
        /\ pos + n = Len(text) \/ text[pos + n + 1] = Newline
    BY <1>1, <1>8, <2>1, <2>2, <2>5, MatchInComment DEF n
  <2>7. \A k \in e + 1..pos' : text[k] # Newline
    <3> TAKE k \in e + 1..pos'
    <3>1. k \in e + 1..pos \/ k \in pos + 1..pos + n BY <1>2, <1>3, <1>4, <2>4
    <3> QED BY <2>2, <2>6, <3>1
  <2>8. e \in 2..pos' BY <1>2, <1>3, <1>4, <2>4
  <2>9. \A j \in i + 1..L + 1 : matches'[j].rule # "comment"
    <3> TAKE j \in i + 1..L + 1
    <3>1. CASE j = L + 1 BY <1>4, <1>8, <3>1
    <3>2. CASE j # L + 1
      <4>1. j \in i + 1..L /\ j \in 1..L BY <1>4, <2>3, <3>2
      <4> QED BY <1>4, <2>3, <4>1
    <3> QED BY <3>1, <3>2
  <2>10. i \in 1..L + 1 /\ matches'[i] = matches[i] BY <1>4
  <2>11. pos' = Len(text) \/ text[pos' + 1] = Newline BY <1>4, <2>6
  <2> QED BY <1>4, <2>2, <2>3, <2>7, <2>8, <2>9, <2>10, <2>11 DEF CommentFollowed
<1> QED BY <1>6, <1>7, <1>8

\* What is to be proved of texts with plain comments.
CommentInv == \/ ~CommentsArePlain(text)
              \/ CommentFollowed

LEMMA InitComment == Init => CommentFollowed
<1> SUFFICES ASSUME Init PROVE CommentFollowed
  OBVIOUS
<1>1. start = "INITIAL" BY DEF Init
<1> QED BY <1>1 DEF CommentFollowed

LEMMA NextComment ==
  ASSUME IInv, CommentInv, [Next]_vars
  PROVE  CommentInv'
<1>1. CASE Lex
  <2>1. PICK c \in Chosen : Skip(c) \/ ReturnToken(c) BY <1>1 DEF Lex
  <2>2. Consume(c) /\ text' = text BY <2>1 DEF Skip, ReturnToken
  <2>3. CommentsArePlain(text)' <=> CommentsArePlain(text) BY <2>2
  <2> QED BY <2>2, <2>3, ConsumeFollows DEF CommentInv
<1>2. CASE ~Lex
  <2>1. UNCHANGED <<text, pos, start, matches>>
    BY <1>2 DEF Next, EndOfText, Store, Return, Finished, vars
  <2>2. CommentFollowed' <=> CommentFollowed BY <2>1 DEF CommentFollowed
  <2> QED BY <2>1, <2>2 DEF CommentInv
<1> QED BY <1>1, <1>2

LEMMA InvariantComment == IInv /\ CommentFollowed => CommentEndsWithLine
<1> SUFFICES ASSUME IInv, CommentFollowed, start = "COMMENT" PROVE CommentEndsWithLine
  BY DEF CommentEndsWithLine
<1> DEFINE I == {i \in 1..Len(matches) : matches[i].rule = "comment"}
           m == SelectLastInSeq(matches, LAMBDA x : x.rule = "comment")
<1>1. PICK e \in 2..pos :
        /\ text[e - 1] = "-" /\ text[e] = "-"
        /\ \A k \in e + 1..pos : text[k] # Newline
        /\ pos = e \/ pos = Len(text) \/ text[pos + 1] = Newline
        /\ \E i \in 1..Len(matches) :
             /\ matches[i].rule = "comment" /\ matches[i].first = e - 1
             /\ \A j \in i + 1..Len(matches) : matches[j].rule # "comment"
  BY Zenon DEF CommentFollowed
<1>2. PICK i \in 1..Len(matches) :
        /\ matches[i].rule = "comment" /\ matches[i].first = e - 1
        /\ \A j \in i + 1..Len(matches) : matches[j].rule # "comment"
  BY <1>1
<1>3. matches \in Seq(Match) BY DEF IInv, TypeOK, Match
<1>4. Len(matches) \in Nat BY <1>3
<1>5. i \in I /\ I \subseteq 1..Len(matches) BY <1>2
<1>6. \A j \in I : j <= i
  <2> TAKE j \in I
  <2>1. j \in 1..Len(matches) /\ matches[j].rule = "comment" OBVIOUS
  <2> QED BY <1>2, <1>4, <2>1
<1>7. m = Max(I)
  <2>1. m = IF I # {} THEN Max(I) ELSE 0 BY DEF SelectLastInSeq
  <2> HIDE DEF I, m
  <2> QED BY <1>5, <2>1
<1> HIDE DEF I, m
<1>8. Max(I) = i
  <2>1. Max(I) = CHOOSE x \in I : \A y \in I : x >= y BY DEF Max
  <2>2. \E x \in I : \A y \in I : x >= y BY <1>4, <1>5, <1>6
  <2>3. Max(I) \in I /\ \A y \in I : Max(I) >= y BY <2>1, <2>2
  <2>4. Max(I) \in Nat /\ i \in Nat
    <3>1. I \subseteq Nat BY <1>4, <1>5
    <3> QED BY <1>5, <2>3, <3>1
  <2>5. Max(I) <= i /\ Max(I) >= i BY <1>5, <1>6, <2>3
  <2> QED BY <2>4, <2>5
<1>9. matches[m].first = e - 1 BY <1>2, <1>7, <1>8
<1>10. Newline \notin ToSet(SubSeq(text, e - 1, pos))
  <2> DEFINE u == SubSeq(text, e - 1, pos)
             w == pos - (e - 1) + 1
  <2>1. text \in Seq(Characters) /\ Len(text) \in Nat /\ pos \in Nat /\ pos <= Len(text)
    BY TextType, PosType DEF IInv
  <2>2. DOMAIN u = 1..w /\ \A k \in 1..w : u[k] = text[(e - 1) + k - 1] BY <2>1
  <2>3. "-" # Newline BY DEF Newline
  <2>4. ASSUME NEW k \in 1..w PROVE text[(e - 1) + k - 1] # Newline
    <3>1. k = 1 \/ k = 2 \/ (e - 1) + k - 1 \in e + 1..pos BY <2>1
    <3>2. (e - 1) + 1 - 1 = e - 1 /\ (e - 1) + 2 - 1 = e BY <2>1
    <3> QED BY <1>1, <2>3, <3>1, <3>2
  <2> SUFFICES Newline \notin ToSet(u)
    OBVIOUS
  <2> HIDE DEF u, w
  <2>5. \A k \in 1..w : u[k] # Newline BY <2>2, <2>4
  <2> QED BY <2>2, <2>5 DEF ToSet
<1> QED BY <1>9, <1>10 DEF CommentEndsWithLine, m

\* In texts with plain comments the scanner leaves each comment where its line ends
\* (flex_lexer.l:49-51): only a string or blanks can match more than its content or its newline.
THEOREM CommentsEnd ==
  (\A t \in Texts : CommentsArePlain(t)) => (Spec => []CommentEndsWithLine)
<1> SUFFICES ASSUME \A t \in Texts : CommentsArePlain(t) PROVE Spec => []CommentEndsWithLine
  OBVIOUS
<1>1. Init => CommentInv BY InitComment DEF CommentInv
<1>2. IInv /\ CommentInv /\ [Next]_vars => CommentInv' BY NextComment
<1>3. IInv /\ CommentInv => CommentEndsWithLine
  <2> SUFFICES ASSUME IInv, CommentInv PROVE CommentEndsWithLine
    OBVIOUS
  <2>1. text \in Texts BY DEF IInv, TypeOK
  <2> QED BY <2>1, InvariantComment DEF CommentInv
<1> QED BY <1>1, <1>2, <1>3, Invariant, PTL DEF Spec
=============================================================================
