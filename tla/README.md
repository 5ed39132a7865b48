# TLA+ models of the C++ SQLite parser

The repository turns SQL text into C++ objects: a flex scanner, a bison LALR(1) grammar whose
semantic actions build an AST with raw pointers, destructors written by hand, and
`SQLParserResult`, which owns the statements. There are no threads, no I/O and no persistence.
What is hard in this code is *ownership over long sequences of steps* (which of a parser stack,
a half-built object, a vector, a result and a client may delete an allocation), *order* (default
reductions run before the lookahead is read; placeholders are numbered long after they are
built), and the *error path*, which abandons the parse at any token.

Paths below are relative to the repository root; modules are in this directory.

## Inventory

| Component | State | Operations | Interacts with |
|---|---|---|---|
| `src/SQLParserResult` | `statements_`, `isValid_`, `errorMsg_`, `errorLine_`, `errorColumn_`, `parameters_` | constructors, move, destructor, `reset`, `addStatement`, `addParameter`, `releaseStatements`, `setIsValid`, `setErrorDetails` | filled by the parser's actions and by `yyerror`; used by the client |
| `src/parser/bison_parser.y`, `SQLParser::parse` | bison's stack and lookahead, `yylloc.total_column`, `yylloc.string_length`, `yyloc.param_list` | shift, reduce (279 rules), error, `%destructor`s | calls the lexer, builds the AST, fills the result |
| AST, `src/sql` | types, pointer members, vectors, C strings | constructors, `Expr::make...`, destructors | built by actions; deleted by actions, by `%destructor`s, by the result or the client |
| `src/parser/flex_lexer.l`, `SQLParser::tokenize` | position, start condition, `yylloc`, `yylval` | one match of a rule, `BEGIN`, return, the loop of `tokenize` | called by the parser and by `tokenize` |
| `src/util/sqlhelper` | none (the C++ call stack) | seven printers, mutually recursive | reads the AST |
| `src/example/example.cpp` | one result | parse, print the statements of a valid result, destroy | calls the parser, the accessors and the printers |
| keyword lists, benchmark, tests, build | - | - | - |

What makes them correct:

* **Result**: each statement has one owner at any time, whatever the order of parses, moves,
  resets, releases and destructions; nothing is deleted twice; the error message belongs to one
  result; `parameters()` refers to live memory as long as the statements stay.
* **Parser**: no action or destructor touches a deleted object or dereferences null; two owners
  never share an allocation; after a parse and the destruction of its result nothing is left,
  whether the text was accepted or rejected at any token; statement lengths add up to the text;
  parameters are complete and numbered in text order; no conflict of the grammar makes the parser
  refuse a prefix of a valid text (some do: see below); operators nest as their declared levels
  say; the stack, which bison cannot grow here, follows the nesting of a text and not its length.
* **Lexer**: locations are exact; tokens are maximal; comments end with their line; `tokenize`
  returns, frees the strings and ends early only at a character that is none of the language's.
* **Printers**: each pointer they follow is set and each member they read is assigned; they meet
  every object once, and the placeholders in the order of their numbers, which is that of the text,
  but for a limit that a set operation keeps; the program exits.

The hazards, each at its line and with the properties that would catch it, are in `PROJECT.json`.

## Modules

| Module | Models | State and actions |
|---|---|---|
| `ParserResult` | `SQLParserResult.cpp`, the effect of a parse on it, and a client | `results` maps each object to its members; `stmt` and `msg` are allocation tables; `client` holds released statements; `fault` records undefined behaviour. One action per method (`Construct`, `ConstructWith`, `AddStatement`, `Reset`, `Destroy`, `MoveConstruct`, `ReleaseStatements`), three for a parse (`ParseSuccess`, `ParseError`, `ParseTrailingError`) and `ClientDelete`. `detached` is a history variable: the results whose statements were reset, released or moved away |
| `ParserResultProofs` | - | the theorems about `ParserResult` |
| `SqlHeap` | the AST classes: types, members and destructors (`src/sql`) | operators on a memory: allocation, assignment, and `Delete`, which frees what each class's destructor frees, and what their destructors free in turn, and reports double frees |
| `SqlGrammar` | the rules of `bison_parser.y` with their actions | `GrammarRows`: left side, right side, and the instructions of the action, the last of which makes `$$`. One row per alternative of the file, 279, and bison's `$accept` |
| `SqlParser` | `hsql_parse`, `SQLParser::parse`, then the result's destructor | `Call`, `ReadToken`, `Shift`, `Reduce` (`ReduceNode`, `ReduceParameter`, `ReduceStatement`, `ReduceInput`), `SyntaxError`, `StackExhausted`, `DestroyResult`, over `yyss` (the stack), `yychar`/`yylval` (the lookahead), `memory`, the counters and the parameter list |
| `SqlPrinter` | `sqlhelper.cpp` and `main` of the example | `ParseText` (a step of `SqlParser`), `Enter` (a printer is entered, up to its calls), `Return`, over `agenda` (the calls to come), `printed` (those entered) and the history `handed` (what the parse left in the result) |
| `Lexer` | `flex_lexer.l`, `YY_USER_ACTION`, `SQLParser::tokenize` | `Lex` (one match: `Skip` or `ReturnToken`), `EndOfText`, `Store`, `Return` |
| `MCParserResult`, `MCSqlParser`, `MCSqlPrinter`, `MCLexer` | - | instances for TLC: identities and symmetry, the texts |
| `NaturalSets` | - | least and greatest elements of sets of numbers, for the proofs |
| `LexerProofs` | - | the theorems about `Lexer` |
| `SqlActionProofs` | - | lemmas about the operators of `SqlHeap` on a tidy memory, one in which every allocation has at most one owner, then about the semantic actions: one instruction, and all those of a row |
| `SqlParserProofs` | - | the automaton, the inductive invariant of `SqlParser`, and the theorems about its memory |
| `SqlPlaceholderProofs` | - | the theorem about the placeholders of `SqlParser` |
| `SqlLengthProofs` | - | the theorem about the lengths of the statements of `SqlParser` |
| `SqlPrinterProofs` | - | the theorem about the printers, and that the parse implements `ParserResult` |

`SqlParser` composes `SqlHeap` and `SqlGrammar`; the rows are its constant `Rows`, which the
configurations set to `GrammarRows`. `SqlParser` abstracts the lexer to a sequence of
tokens; `ParserResult` abstracts a whole parse to one step and keeps the three outcomes it can
have. `SqlPrinter` extends `SqlParser` with the rest of the example program, and shows that the
detailed parse implements the step of `ParserResult`: on the run's texts by a run, and by a theorem on
every text whose parse is defined and leaves each parameter in a statement (`ParametersPlaced`,
which is false of the texts of `printer_union`).

### How the parser is modelled

The automaton is built in the model from the rows: a state is the closure of a set of items, and
`Decision` runs it as bison's `yyparse` does. A state whose only action is one reduction reduces
*without reading the next token* (this decides what `stringLength` counts); any other state reads
first; a token without an action takes the default reduction, so errors are found only when no
reduction is left (this is why `input` has run, and the result holds statements, when a text is
rejected at the token after a complete list). Shift/reduce conflicts are resolved by the
declared precedences (`Resolved`), otherwise for the shift. Where a state has several complete
rules, `When` names the lookahead sets bison computes for the one that is not the default. The
set of rows was compared mechanically with the grammar file: all 279 alternatives, no other.

A semantic action is a sequence of instructions (`Execute`), each of which allocates, assigns,
deletes or moves pointers among `$1`, `$2`, ... and what the instructions before it made. `Run`
and the destructors (`Doomed`, `DeleteEach`, `Unwind`) are recursive functions and no RECURSIVE
operators, so that the prover can reason about them. Three conditions on the rows
are assumptions of the module, and TLC evaluates them on the actual rows in each run of
the parser and the printers (`ActionsAssumption`): an action moves a pointer at most once and does
not use it afterwards (`ActionsAreLinear`); the lists the actions take apart are lists of
what the actions take them for (`ListsAreTyped`); and the symbol whose statement gets its length
has a statement for its value, which then gets only into lists and triggers, and these into more
of their kind (`StatementsAreCounted`).

A full stack ends the parse (`StackExhausted`): bison grows its stacks only when `YYLTYPE` and
`YYSTYPE` are trivial, and `YYLTYPE` holds a `std::vector`. The size is the constant
`YYINITDEPTH`, 200 in the code and 60 or 40 in the runs, so that short texts reach it. A syntax
error and a full stack free the stack and the lookahead alike (`Abandon`), in different orders.

An allocation is a number. A field or a stack value is the set of allocations it points to,
so `null` is the empty set, and a `table_name` (schema and name, which share their fate
everywhere) may hold two. An object has the type its constructor or `make` function gives it
(`TypeOK` checks it against the class's enumeration, and the members against the class's).
Other enumerations, flags and literal values are left out, except the members no constructor
sets: these are in an object's fields once they are assigned, so that a read can tell.

### How the parse implements `ParserResult`

`ImplementsParserResult` is `Spec` of `ParserResult`, with one result, `MaxBatch` statements and one
message, under this mapping: statement k is the k-th that `input` hands to the result, live as
long as its object is in `memory`; a parameter is the pair of the statement its object can be
reached from and its `ival`; the message is live between `yyerror` and the destructor. While the
parser runs the result is the one that was constructed; the last step of the parse, which sets
`isValid` or reports the error, maps to `ParseSuccess`, `ParseError` or `ParseTrailingError`;
every step before it and all of the printing are stutters. `Call` maps to `Construct`, and the
destruction to `Destroy`.

### Abstractions

* Tokens, names and messages are model values; every token is one character long in `SqlParser`.
* `ParserResult`: a parameter is the pair of its statement and its number; line and column are one
  value `errorPos` in {uninitialised, cleared, set}. `std::sort` leaves equal numbers in any order.
* `Lexer`: one character stands for each class that the patterns distinguish; keywords are one
  rule whose words are the constant `Keywords`. Line and column start at 0, as `%initial-action`
  sets them; `tokenize` passes an unset location, which no token depends on.
* After undefined behaviour nothing is said of the program: `ParserResult` stops, `SqlParser`
  goes to `pc = "undefined"`.

## Runs

| Run | Instance | What it shows |
|---|---|---|
| `result` | 2 results, 3 statements, 2 messages, at most 2 statements (`MaxBatch`) and 1 parameter (`MaxParams`) per parse; symmetry on all three sets | `TypeOK`, `ExclusiveOwnership`, `NoOrphanStatement`, `NoDoubleDelete`, `MessageOwnership`, `ParametersLiveUntilDetached` |
| `parser` | `MCTexts`: 483 texts, `YYINITDEPTH` 60 | `TypeOK`, `NoDangling`, `UniqueOwner`, `NoNullDereference`, `NoUseAfterFree`, `FreedOnSuccess`, `FreedOnError`, `LengthsAddUp`, `ParametersNumbered`, `TreesFollowPrecedence`, `StackFollowsNesting`, `OnlySpoiltTextsRejected` |
| `printer` | `MCTexts` of `MCSqlPrinter`: 41 texts, at most 3 statements (`MaxBatch`) and 3 placeholders (`MaxParams`), `YYINITDEPTH` 40 | `PrintingIsDefined`, `PrintedOnce`, `PlaceholdersInOrder`, `ParametersPlaced`, `ImplementsParserResult`, `ProgramExits` |
| `lexer` | `AllTexts`: all texts up to 3 characters over 10 classes, all of 4 over signs and points, all of 6 over quotes and lines, and comments | `TypeOK`, `LocationIsExact`, `TokensAreWhole`, `CommentEndsWithLine`, `OnlyFirstStringLeaks`, `EndsAtUnknown`, `Terminates` |

**Bounds.** Two results are enough for every move, and for one to be reset or destroyed while the
other holds what came from it; three statements let a parse add to a result that already has
some, and a client re-add one; the theorems below remove these bounds. The 483 texts of `parser`
are of seven kinds. Templates put every alternative of every place into an otherwise plain text; these
texts reduce by each of the 279 rules of the file at least once. `OperatorTexts` pairs one
operator of each level with one of each, in every arrangement of infix, prefix and postfix;
`TreesFollowPrecedence` compares the trees with a table of its own, not with that of the grammar.
`ConstraintTexts` and `TestTexts` have what may compete for a token side by side: each constraint of a
column before each other, and `IN`, `NOT IN`, `BETWEEN`, `NOT LIKE` and `IS NOT NULL` after each operator,
all but the pairs named under the exclusions. Long
texts repeat each kind of list, and joins and operators that associate to the left, 20 times:
against `StackFollowsNesting` they show a rule that recurses on the wrong
side. Nested texts overflow the stack. `ChainTexts` and `MisplacedTexts` are not well formed:
comparisons that do not associate, and misplaced strings. At every token the lexer may also
deliver `Alien`, which no rule accepts, or the end, so every prefix of every text is also parsed
as an erroneous one: the error path is taken from each stack that these texts can produce. The misplaced strings are there
because only they are an erroneous lookahead that owns memory. The lexer's texts
are exhaustive in the short lengths where the rules' matches overlap.

The texts of `printer` bring every printer and every branch of it to a valid result, with as many
placeholders as the mapping to `ParserResult` has numbers for, plus one text that overflows.
`UnionTexts` are set operations with placeholders in the selects and in an order and a limit that
may be there or not, after a select with and without parentheses, and after one that has a limit in
its parentheses.

Deadlock is checked except in the runs of `ParserResult`, where undefined behaviour ends the
program; in the other modules a finished program stutters explicitly.

**Fairness.** `tokenize`, the parser and the printers run in their caller's thread and wait for
nothing, so a step that can be taken is taken. `Lexer` states this as weak fairness of its next
step, for `Terminates`. `SqlPrinter` states it for `ProgramExits` with ENABLED written out: a
program that has not ended has a step to take (the run checks deadlock), so weak fairness says
that it ends or takes steps again and again, and TLC need not build every successor a second
time to find that there is one. `ParserResult` assumes no fairness: its client may stop calling.

**Exclusions inside properties.** `FreedOnSuccess` and `FreedOnError` say that nothing is left but
what the destructors and `%destructor`s forget, as two tables (`Forgotten`, `Abandoned`): the
token that brings it, and the class that stays. `Forgotten` has the `INDEXED BY` name that
`~TableRef` does not free, the statements of a trigger whose vector alone is deleted
(`statements.cpp:153`), and the order and union that a set operation on a parenthesised select
overwrites. `Abandoned` has the vectors of the default `%destructor` and the members of column
constraints and update clauses. `PlaceholdersInOrder` excepts the limit of a parenthesised select
that a set operation keeps: in `(SELECT * FROM t LIMIT ?) UNION SELECT ? FROM t` it is the first
placeholder, and printed after the union (`KeptLimit`). `EndsAtUnknown` names the characters at which
`tokenize` returns true having dropped the rest of the text.

**Exclusions by the choice of texts.** Each is named where the property is, and has a run that
shows the property violated on what is left out.

* `OnlySpoiltTextsRejected`: `ContestedTexts`, in which a token may go on with one rule or begin
  another and bison shifts it for the first (`parser_conflict`): `NOT` for `NOT LIKE` after an operand
  (so `DEFAULT 5 NOT NULL`, `NOT a NOT IN (b)`, `a MATCH b NOT IN (c)` and
  `a LIKE b ESCAPE c NOT IN (d)` are refused), `NOT` for `NOT DEFERRABLE` (`REFERENCES t NOT NULL`),
  `UNIQUE` and `PRIMARY KEY` for a constraint of the last column when no comma separates the table's
  (`a INT UNIQUE (a)`), and `ESCAPE` for the inner of two `NOT LIKE`. The comparisons that do not
  associate are refused on purpose (`%nonassoc`) and count as ill-formed.
* `ParametersPlaced`: `OverwrittenTexts`, set operations on a parenthesised select whose order or
  union holds a placeholder (`printer_union`).
* `NoNullDereference` and `NoUseAfterFree`: `MalformedTexts` (`program_null`) and `ReplacedTexts`
  (`parser_params`).
* `PrintingIsDefined`: `MalformedTexts` and `SurprisingTexts`, both in `program_null`; the run `printer` has texts
  the printers can print.
* `CommentEndsWithLine`: comments that are not plain, `CommentTexts` (`lexer_comment`).

### What the code does not do

Eight runs expect a violation. Each checks what a header, comment or test says and the code
contradicts:

| Run | The sentence | The code |
|---|---|---|
| `result_reset` | `reset()` "Deletes all statements and other data" (`SQLParserResult.h:63`) | `parameters_` keeps its dangling pointers |
| `result_error` | `setErrorDetails` "Takes ownership of errorMsg" (`:34`), `errorLine()` "Returns the line number of the occurrance of the error" (`:40`) | a second failing parse loses the first message, as the run shows; the move constructor takes the message and not its position, a trace of the same length |
| `parser_params` | "we might need to alter the placeholder_list" (`sql/Expr.h:79`) | `input` writes through deleted placeholders |
| `parser_conflict` | the parser "doesn't contain conflicts" (`parser/Makefile:28`) | `DEFAULT 5 NOT NULL`, `REFERENCES t NOT NULL` and `NOT a NOT IN (b)` are refused |
| `parser_length` | `test/sql_tests.cpp:222` | `INSERT ... VALUES (...)` does not count its semicolon |
| `lexer_comment` | comment content is skipped "until a end of line is read" (`flex_lexer.l:50`) | a blank rest of line after `--`, or a blank at the start of the next line, lets the whitespace rule run past the end: the next line is swallowed |
| `program_null` | a text that is not SQL gives an invalid result (`SQLParser.h:13`); "Prints a summary of the given SQLStatement" (`util/sqlhelper.h:8`), "default: false" (`CreateStatement.h:161`) | `(a INT,, UNIQUE (a))` and `USING (*)` make an action dereference null, `NATURAL JOIN`, `EXISTS` and `CASE` without an operand a printer; the flags of a `CREATE VIEW`, `INDEX` or `TRIGGER` are read unset |
| `printer_union` | a parameter is an expression of the statement (`test/prepare_tests.cpp:78`) | a set operation overwrites the order or union of a parenthesised select: the text is accepted, and `parameters()` has a placeholder that is in no statement |

## Proofs

A theorem is about the module's specification, for every value of the constants that meets
the named assumptions, which TLC evaluates on the instances it runs. One, `ParseIsOneStep`, has
further hypotheses, properties of the run `printer`. None of the proofs
bounds the length of a text, the depth of the stack or the number of objects. The
library's induction theorems cannot be used with these provers, so an induction over numbers
is the choice of a least counterexample (`NaturalSets`).

### The result

`ParserResultProofs`, for every set of results, statements and messages and all bounds
(`BoundsAssumption`, `NoMsgAssumption`):

| Theorem | Property |
|---|---|
| `TypeCorrect` | `TypeOK` |
| `StatementsOwnedOnce` | `ExclusiveOwnership` |
| `NoStatementLost` | `NoOrphanStatement` |
| `NeverDeletedTwice` | `NoDoubleDelete` |
| `MessagesOwnedOnce` | `MessageOwnership` |
| `ParametersValid` | `ParametersLiveUntilDetached` |

`ParseIsOneStep` below makes these statements about the detailed parser too.

The argument is one inductive invariant, `IInv`, the conjunction of `TypeOK` and these. None is
inductive alone: that `reset` deletes nothing twice needs that the statements it holds are live
(ownership), that a message is live (message ownership) and that no vector holds a statement
twice; that a released statement is not deleted by a result needs that client and results are
disjoint; that a destroyed result is not counted as an owner needs that it holds nothing. Each
action has one lemma, under which each conjunct it can disturb is one step; lemmas about vectors
(`Elems` of a concatenation, injectivity of a concatenation of disjoint vectors) are stated once.

### The scanner

`LexerProofs`, for every set of texts over any letters and keywords (`LettersAssumption`,
`TextsAssumption`):

| Theorem | Property |
|---|---|
| `TypeCorrect` | `TypeOK` |
| `LocationsExact` | `LocationIsExact` |
| `TokensWhole` | `TokensAreWhole` |
| `StringsFreed` | `OnlyFirstStringLeaks` |
| `TokenizeEnds` | `EndsAtUnknown` |
| `CommentsEnd` | `CommentEndsWithLine`, if the comments of the texts are plain |
| `TokenizeProgresses` | each step uses up some of a natural number: the safety half of `Terminates` |

`IInv` there joins these with what makes them inductive: the location is that of the place
reached, counted from the start of the text, whichever matches were skipped (`Located`); which
strings are allocated at each place of the loop of `tokenize` (`StringsFollowTokens`); where `tokenize`
ends (`EndsWhereNothingBegins`). The lemmas are about one match: how long each rule's match is and what
its characters are (longest match, then the first rule), and how lines and columns of
a text follow from those of its parts.

`CommentsEnd` has a condition, as the property is false of the code in general: `CommentsArePlain`
leaves out the comments that start like a string, are all blanks (but not empty), or have a
blank or another newline behind their line. In the others the scanner is behind the marks or at the end of their line
(`CommentFollowed`): only `endline`, `blank` and `string` match a newline (`NewlineRules`), and the
content goes on to the end of the line unless one of these matches more. `PlainAssumption` of
`MCLexer` says that the texts of the run `lexer` are of this kind.

### The parser

`SqlActionProofs`, `SqlParserProofs`, `SqlPlaceholderProofs` and `SqlLengthProofs`, for every set of texts, any depth of the stack and any rows that meet `RowsAssumption` (their form),
`EntryAssumption` (the row of `$accept`), `PlaceholderAssumption` (the token `?` has one rule of its own)
and `ActionsAssumption` (the static discipline of the actions):

| Theorem | What it says |
|---|---|
| `OneOwner` | `UniqueOwner` |
| `NeverDangling` | `NoDangling` |
| `NeverFreedTwice` | no action, `%destructor` or destructor frees what is freed already |
| `OnlyPlaceholdersDangle` | a use after free is a write of `input` through a placeholder that an action deleted, and nothing else: the one finding of `parser_params` is the only one of its kind |
| `ParametersComplete` | `ParametersNumbered` |
| `StatementsMeasureText` | `LengthsAddUp` |
| `Invariant` | the inductive invariant itself |

*The heap.* A memory is *tidy* with the roots S when no two fields of live objects, nor a field and
S, share an allocation, and all they point to is live and older than what is still to be
allocated. `Doomed` is the least set that holds the deleted objects and what destructors of its
members free (that the recursive function exists, and is this set, is proved from the
well-foundedness of the complement). Deleting a set of roots of a tidy memory frees nothing twice,
leaves it tidy, and touches nothing that the other roots own; deleting an object of a plain
class (a vector, a column constraint) spares what it points to, which is how an action may keep a
member of what it deletes. Each operator on a memory has a lemma of this form.

*The actions.* By the static discipline, each place (a `$i`, or what an instruction made) is
moved once, so the values still to be used are roots apart from those in the fields
(`Registers`); an instruction keeps that (`Sound`), hence a whole action does (`BuildSound`): it
takes the values of the right-hand side from the roots and adds that of `$$`.

*The automaton.* That a reduction finds on the stack the symbols of its row, and not others, is
no check the program makes: it follows from the items. In each state, the symbols an item has
seen are those on top of the stack (`StackFits`), so that the row the automaton decides on is
on top (`OnTop`), and the value of a symbol has the type the row counts on (`CellsTyped`).

*The invariant.* `IInv` is the conjunction of `StackFits`, `CellsTyped`, single ownership of the
cells, the lookahead, the statements of the result and the members of live objects (`Owners`),
that only a token with a string holds memory, the form of the result, an empty stack
after the end, and which faults there may be (`FaultFits`). TLC checked it on the texts of the run
`parser` before it was proved. Ownership is not inductive without the automaton (a
reduction by another row would leave a value on the stack that has been moved) nor
without the types (the constructor of `ColumnDefinition` deletes constraints and
keeps their members, which is sound because it gets a vector of constraints).

*The placeholders.* `ParametersComplete` adds `PInv`, also checked by TLC: the placeholders of the text read
so far are those in `param_list` and the one that is still a token on the stack or the lookahead
(`Counted`); the list is in the order of allocation (`Increasing`), and refers to expressions as
far as it is live (`Expressions`); when `input` has been reduced, nothing but the end can
be shifted, so the parameters the result has are all there are.

*The lengths.* `StatementsMeasureText` adds `LInv`, also checked by TLC first. The sum of the
lengths would change if an action deleted a statement that has one, gave it a second length, or took its
object for another. So `LInv` names a part R of the memory in which all measured
statements are, and into which nothing points but members of R itself and the values of
`statement`, `statement_list` and `create_statement` on the stack (`Separate`). Actions without
such an operand leave R as it is (`Spared`), whatever they delete; those with one only move
it (`Carried`), and R grows by what they make. The statement that gets its length has none yet
(`StatementsHeld`), and is a new summand of the sum, which is a fold over a set, of which any
element can be taken first (`TotalRemove`). After `input` nothing
is reduced before the end, and the lengths stay.

### The printers and the refinement

`SqlPrinterProofs`, under the same assumptions as the parser and, for the mapping to
`ParserResult`, `MappingAssumption` (a text may have a statement):

| Theorem | Property |
|---|---|
| `NeverPrintedTwice` | `PrintedOnce` |
| `ParseIsOneStep` | `ImplementsParserResult`, of the runs in which `PrintingIsDefined`, `WithinBounds` and `ParametersPlaced` hold throughout |

The printers recurse over what the actions linked, and no printer marks where it was: that they meet
nothing twice is a matter of the tree alone. The invariant `PrintInv` holds while a valid result is printed,
in the memory the parse left, in which every allocation has at most one owner (`OneOwner`). The calls
printed and pending form a forest: no two are equal, and each is about a statement of the result, which
nothing owns, or is made by one that was printed (`Forest`). Two lemmas go through the printers one by
one: the calls one printer makes are about different members of its object, or elements of
different vectors (`Branches`); and calls that meet in an object were made by calls that meet in one
(`CallersClash`), so that two visits of an object lead back to two visits of a root. A null
pointer or an unset member ends the program, so the theorem needs none of the runs' texts.

`ParseIsOneStep` says that whatever reductions lead to the end of a parse, the result is given all the
statements of the text in that one step. Its hypotheses are what it cannot do without:

* `PrintingIsDefined`: nothing undefined happens. After an undefined step `ParserResult` says nothing,
  but the parser's memory is one in which the step was not made.
* `ParametersPlaced`: each `?` is in a statement of the text, in order. An action that drops a live
  one leaves a parameter of no statement, which `ParserResult` does not allow for. One does
  (`printer_union`), so of its texts the theorem says nothing.
* `WithinBounds`: the mapping has as many statements and parameters as the text hands over. It
  bounds the mapping alone: `MaxBatch` and `MaxParams` may be any numbers, so there are some for
  each text.

The run `printer` checks the first two on its texts, and the third as a part of the refinement. The
invariant is the parser's own (`Defined`) with `Outcome`: until the parse has ended the
result holds no message and nothing was handed over; then it holds what was handed over, its
live parameters have their places for numbers, and `isValid` and the message say how it ended.
`ParseEnds` goes through the steps of the parser for how a parse can end. Each step is then mapped:
`Call` to `Construct` (`CallConstructs`); a reading, a shift or a reduction to none
(`ParseStutters`); the acceptance to `ParseSuccess` (`AcceptedIsSuccess`); a syntax error or a full stack
to `ParseError` if nothing was handed over, and to `ParseTrailingError` if `input` was reduced before
(`RejectedIsError`); the printing to none (`SameMapping`); the return to `Destroy`
(`ReturnDestroys`). That the statements handed over are a batch of fresh ones follows from their having
one owner (`ByPlace`, `BatchOfFresh`), that the parameters are sorted as `input` sorts them from
their numbers (`PlacedAndSorted`), and that an abandoned parse keeps both from what deletions do:
they only remove, and leave the rest as it was (`Remains`).

### Only model-checked

* `Terminates` and `ProgramExits`: liveness is out of the prover's reach.
* `NoNullDereference` and `NoUseAfterFree`: false of the code in general,
  as the runs `program_null` and `parser_params` show; the passing run checks
  them away from those texts. `NeverFreedTwice` and `OnlyPlaceholdersDangle` prove the part of the
  last that is true.
* `TypeOK` of `SqlParser`: it needs the class of object of each symbol and of each member, and
  that each of the 279 rows keeps them, which `ListsAreTyped` and `StatementsAreCounted` say of a
  few symbols only.
* `FreedOnSuccess`, `FreedOnError`, `TreesFollowPrecedence`, `StackFollowsNesting` and
  `OnlySpoiltTextsRejected` (false on the texts of `parser_conflict`) speak of the SQLite grammar and of the texts of the run, not of any rows.
* `PrintingIsDefined`, `PlaceholdersInOrder` and `ParametersPlaced`: likewise, they depend on what the
  actions of the SQLite grammar leave null, in which member they put an operand, and which
  expressions they drop: `parser_params` shows those that are deleted, `printer_union` those that
  are overwritten and leak.

## Not modelled

* Keyword lists, benchmark, tests, build files.
* Values: enumerations other than the types, flags, numeric conversion (`atol`, `atof`,
  `float fval`), and the text the printers write.
* Allocation failure, the depth of the C++ call stack under the recursive printers and
  destructors, and `new`/`free` mismatches as errors (the memory records them in `mismatched`; no
  property speaks of them).
* AST constructors no rule calls (`makeArray`, `makeArrayIndex`, hints), and the branches of the
  printers for them.
* Clients other than the example program and the client of `ParserResult`.

## Plan

In this order:

1. A typing discipline of the rows, from which `TypeOK` of `SqlParser` follows.
2. `ColumnDefinition` as a fold over its constraints (last `DEFAULT`, flags independent of order),
   and the flags of the other classes.
