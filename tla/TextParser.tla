----------------------------- MODULE TextParser ------------------------------
(***************************************************************************)
(* ParsedText::Parse (src/nCore/ParsedText.cpp): how a text is split into  *)
(* plain text and expressions, "[name]" or "[name('one', 'two')]".  The    *)
(* parser is a loop over a switch on its mode; an iteration is a step.     *)
(* What does not parse as an expression stays plain text.                  *)
(*                                                                         *)
(* The arguments of an expression are counted in an unsigned char.  One    *)
(* more than it can count makes it zero: realloc frees the array, the      *)
(* argument is written in front of it, where there is nothing, and the     *)
(* program ends.                                                           *)
(*                                                                         *)
(* A text is a sequence of characters; position 0 is the null pointer and  *)
(* the position after the last character holds the terminator.             *)
(***************************************************************************)
EXTENDS Naturals, Sequences

SeqExt == INSTANCE SequencesExt

CONSTANTS
  Characters, \* what texts are made of
  RawTexts,   \* the texts to parse
  Writings,   \* texts given by their pieces, to be spelled and then parsed
  Alnum,      \* the characters iswalnum accepts
  MaxNumArgs  \* the largest value of numArgs, a UCHAR

VARIABLES
  text,             \* what is parsed
  written,          \* the pieces it was spelled from, <<>> if it was not
  mode,             \* what the loop is searching for
  searchPos,        \* where it is
  pos,              \* where the current text segment began
  expressionStart,  \* the [ of the current expression
  functionName,     \* the name, once it has been read
  arguments,        \* the arguments read so far; numArgs is their number
  argumentStart,    \* the quote of the current argument
  tokens,           \* the result
  finished

parserVars == <<text, written, mode, searchPos, pos, expressionStart, functionName,
                arguments, argumentStart, tokens, finished>>

Terminator == "end"

\* What lies between two arguments.
Comma == ","
Space == " "

Char(i) == IF i \in DOMAIN text THEN text[i] ELSE Terminator

Token == [type : {"TEXT", "EXPRESSION"}, text : Seq(Characters),
          name : Seq(Characters), args : Seq(Seq(Characters))]

TextToken(t) == [type |-> "TEXT", text |-> t, name |-> <<>>, args |-> <<>>]

Expression(name, args, t) == [type |-> "EXPRESSION", text |-> t, name |-> name, args |-> args]

\* What Evaluate makes of the tokens while no function is registered.
Shown(token) ==
  IF token.type = "TEXT" THEN token.text ELSE <<"[">> \o token.text \o <<"]">>

\* The inside of the brackets of an expression.
Call(name, args) ==
  IF args = <<>> THEN name
  ELSE name \o <<"(">>
       \o SeqExt!FlattenSeq([i \in 1..Len(args) |->
            (IF i = 1 THEN <<>> ELSE <<Comma, Space>>) \o <<"'">> \o args[i] \o <<"'">>])
       \o <<")">>

Spelled(pieces) == SeqExt!FlattenSeq([i \in 1..Len(pieces) |-> Shown(pieces[i])])

\* Plain text that begins no expression.
IsText(p) == p = TextToken(p.text) /\ p.text \in Seq(Characters \ {"["}) \ {<<>>}

\* A call whose name is alphanumeric, but for its first character, which neither
\* ends the expression nor begins a quotation, and whose arguments have no quotes
\* and are not too many to be counted.
IsCall(p) ==
  /\ p = Expression(p.name, p.args, Call(p.name, p.args))
  /\ p.name # <<>> /\ p.name[1] \notin {"]", "'"}
  /\ \A i \in 2..Len(p.name) : p.name[i] \in Alnum
  /\ p.args \in Seq(Seq(Characters \ {"'"})) /\ Len(p.args) <= MaxNumArgs

\* Two pieces of plain text never meet: they are one.
WellFormed(pieces) ==
  /\ \A i \in 1..Len(pieces) : IsText(pieces[i]) \/ IsCall(pieces[i])
  /\ \A i \in 1..(Len(pieces) - 1) : IsCall(pieces[i]) \/ IsCall(pieces[i + 1])

\* A text has no terminator inside, and neither a bracket nor a parenthesis is
\* alphanumeric.
ASSUME ParserAssumption ==
  /\ Terminator \notin Characters
  /\ {"]", "("} \cap Alnum = {}
  /\ MaxNumArgs \in Nat \ {0}
  /\ RawTexts \subseteq Seq(Characters)
  /\ Writings \subseteq Seq(Token)
  /\ \A w \in Writings : WellFormed(w) /\ Spelled(w) \in Seq(Characters)

ParserInit ==
  /\ \/ text \in RawTexts /\ written = <<>>
     \/ \E w \in Writings : written = w /\ text = Spelled(w)
  /\ mode = "begin"
  /\ searchPos = 1
  /\ pos = 1
  /\ expressionStart = 0
  /\ functionName = <<>>
  /\ arguments = <<>>
  /\ argumentStart = 0
  /\ tokens = <<>>
  /\ finished = FALSE

----------------------------------------------------------------------------
(* The iterations of the loop, by mode.                                    *)

\* wcswcs: the first c at or after position i.
Find(i, c) ==
  LET found == {k \in DOMAIN text : k >= i /\ text[k] = c}
  IN  IF found = {} THEN 0 ELSE CHOOSE k \in found : \A m \in found : k <= m

\* 0: the beginning of the next expression.
SearchBeginning ==
  /\ mode = "begin"
  /\ LET p == Find(searchPos, "[")
     IN  IF p = 0
           THEN searchPos' = 0 /\ UNCHANGED <<mode, expressionStart>>
           ELSE /\ expressionStart' = p
                /\ searchPos' = p + 1
                /\ mode' = "name"
  /\ UNCHANGED <<pos, functionName, arguments, argumentStart, tokens>>

\* 1: the name of the function, whose first character may be anything.
ReadName ==
  /\ mode = "name"
  /\ LET p == searchPos + 1
         OpensArguments == Char(p) = "(" /\ Char(p + 1) = "'"
         name == SubSeq(text, expressionStart + 1, p - 1)
     IN  /\ mode' = CASE Char(p) = "]"      -> "success"
                      [] OpensArguments     -> "arguments"
                      [] Char(p) \in Alnum  -> "name"
                      [] OTHER              -> "failure"
         /\ searchPos' = IF Char(p) = "(" THEN p + 1 ELSE p
         /\ functionName' = IF Char(p) = "]" \/ OpensArguments THEN name ELSE functionName
         /\ argumentStart' = IF OpensArguments THEN p + 1 ELSE argumentStart
  /\ UNCHANGED <<pos, expressionStart, arguments, tokens>>

\* 2: one argument, and what comes after its closing quote: ", '" and another
\* argument, ")]", or a failure.  numArgs may wrap around.
ReadArgument ==
  /\ mode = "arguments"
  /\ LET q == Find(searchPos + 1, "'")
         another == Char(q + 1) = Comma /\ Char(q + 2) = Space /\ Char(q + 3) = "'"
         closes  == Char(q + 1) = ")" /\ Char(q + 2) = "]"
     IN  IF q = 0
           THEN mode' = "failure" /\ searchPos' = 0 /\ UNCHANGED <<arguments, argumentStart>>
         ELSE IF Len(arguments) = MaxNumArgs
           THEN mode' = "overrun" /\ UNCHANGED <<searchPos, arguments, argumentStart>>
           ELSE /\ arguments' = Append(arguments, SubSeq(text, argumentStart + 1, q - 1))
                /\ mode' = CASE another -> "arguments"
                             [] closes  -> "success"
                             [] OTHER   -> "failure"
                /\ argumentStart' = IF another THEN q + 3 ELSE argumentStart
                /\ searchPos' = IF another THEN q + 3
                                ELSE IF \/ Char(q + 1) = ")"
                                        \/ Char(q + 1) = Comma /\ Char(q + 2) = Space THEN q + 2
                                ELSE q + 1
  /\ UNCHANGED <<pos, expressionStart, functionName, tokens>>

\* 9: the expression is given up.
Failure ==
  /\ mode = "failure"
  /\ mode' = "begin"
  /\ searchPos' = searchPos - 1
  /\ expressionStart' = 0
  /\ argumentStart' = 0
  /\ functionName' = <<>>
  /\ arguments' = <<>>
  /\ UNCHANGED <<pos, tokens>>

\* (mutant) The next text segment begins at the closing bracket.
Success_KeepsBracket ==
  /\ mode = "success"
  /\ tokens' = tokens \o
       <<TextToken(SubSeq(text, pos, expressionStart - 1)),
         Expression(functionName, arguments, SubSeq(text, expressionStart + 1, searchPos - 1))>>
  /\ pos' = searchPos
  /\ searchPos' = searchPos + 1
  /\ mode' = "begin"
  /\ functionName' = <<>>
  /\ arguments' = <<>>
  /\ argumentStart' = 0
  /\ UNCHANGED expressionStart

\* (mutant) The arguments are not taken back.
Success_KeepsArguments ==
  /\ mode = "success"
  /\ tokens' = tokens \o
       <<TextToken(SubSeq(text, pos, expressionStart - 1)),
         Expression(functionName, arguments, SubSeq(text, expressionStart + 1, searchPos - 1))>>
  /\ pos' = searchPos + 1
  /\ searchPos' = searchPos + 1
  /\ mode' = "begin"
  /\ functionName' = <<>>
  /\ argumentStart' = 0
  /\ UNCHANGED <<expressionStart, arguments>>

\* 10: the text before the expression, if only the empty one, and the
\* expression become tokens.
Success ==
  /\ mode = "success"
  /\ tokens' = tokens \o
       <<TextToken(SubSeq(text, pos, expressionStart - 1)),
         Expression(functionName, arguments, SubSeq(text, expressionStart + 1, searchPos - 1))>>
  /\ pos' = searchPos + 1
  /\ searchPos' = searchPos + 1
  /\ mode' = "begin"
  /\ functionName' = <<>>
  /\ arguments' = <<>>
  /\ argumentStart' = 0
  /\ UNCHANGED expressionStart

\* After the loop: what is left is a text segment.
Finish ==
  /\ finished' = TRUE
  /\ tokens' = IF Char(pos) = Terminator THEN tokens
               ELSE Append(tokens, TextToken(SubSeq(text, pos, Len(text))))
  /\ UNCHANGED <<mode, searchPos, pos, expressionStart, functionName, arguments, argumentStart>>

Parsing == searchPos # 0 /\ Char(searchPos) # Terminator

\* The text is parsed, or the program has ended.
Parsed == (finished \/ mode = "overrun") /\ UNCHANGED parserVars

ParserNext ==
  \/ /\ ~finished
     /\ UNCHANGED <<text, written>>
     /\ \/ /\ Parsing
           /\ UNCHANGED finished
           /\ \/ SearchBeginning \/ ReadName \/ ReadArgument \/ Failure \/ Success
        \/ ~Parsing /\ Finish
  \/ Parsed

ParserSpec == ParserInit /\ [][ParserNext]_parserVars

----------------------------------------------------------------------------
(* Properties.                                                             *)

Modes == {"begin", "name", "arguments", "failure", "success", "overrun"}

\* No position lies beyond the terminator, wherever a text ends.
ParserTypeOK ==
  /\ mode \in Modes
  /\ {searchPos, pos, expressionStart, argumentStart} \subseteq 0..(Len(text) + 1)
  /\ finished \in BOOLEAN

\* Parsing loses nothing: a text none of whose functions is registered shows
\* exactly what was typed, however malformed its brackets and quotes are, unless
\* it has so many arguments that the program ends before it is parsed (Parse, and
\* Evaluate's "[" text "]" for a function without a procedure).
LosesNothing == finished => SeqExt!FlattenSeq([i \in 1..Len(tokens) |-> Shown(tokens[i])]) = text

\* The tokens ts without the empty plain text between two expressions.
Kept(ts) ==
  SeqExt!FlattenSeq([i \in 1..Len(ts) |-> IF ts[i] = TextToken(<<>>) THEN <<>> ELSE <<ts[i]>>])

\* A well-formed text, none of whose calls has more than MaxNumArgs arguments, is
\* taken apart into the plain text and the calls it was put together from: "An
\* expression starts with a [, and ends with the first ] which is not enclosed
\* within quotes" (src/nCore/ParsedText.cpp:207).  The program does not end at it.
ReadsWhatWasWritten ==
  written # <<>> => IF finished THEN Kept(tokens) = written ELSE mode # "overrun"
=============================================================================
