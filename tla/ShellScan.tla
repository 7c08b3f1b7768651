------------------------------ MODULE ShellScan ------------------------------
(***************************************************************************)
(* The shell text helpers of tinybox-core/src/shell: quoting an argument   *)
(* vector into one command, and the structural scanners behind the         *)
(* module's analyze_shell. A text is a sequence of one-character strings,  *)
(* a command a sequence of lines that keep their newline.                  *)
(*                                                                         *)
(* The inputs are grown a piece at a time by a writer who knows the shell  *)
(* grammar: what each piece declares, which lines are heredoc bodies and   *)
(* which arguments were quoted. That knowledge is the reference the        *)
(* scanners are compared with; they see only the text.                     *)
(***************************************************************************)
EXTENDS Naturals, Sequences, SequencesExt

CONSTANTS Pieces,     \* what a command line is made of: its text, the heredocs it opens,
                      \* whether it redirects, ends the line, or is beyond the quoted scan
          Bodies,     \* texts of heredoc body lines
          Arguments,  \* texts of arguments
          MaxPieces, MaxLines, MaxArguments   \* bounds on the inputs

VARIABLES lines,     \* the finished lines
          kinds,     \* what the shell takes each of them for
          line,      \* the pieces of the line being written
          pending,   \* the heredocs whose bodies are still to come
          argv, cwd  \* the other input: an argument vector and a directory

vars == <<lines, kinds, line, pending, argv, cwd>>

White == {" ", "\t", "\n"}
Ends == White \union {";", "|", "&", "(", ")", "<", ">"}

Drop(text, n) == SubSeq(text, n + 1, Len(text))

Trim(text) ==
  LET Inked(ch) == ch \notin White
  IN IF ToSet(text) \subseteq White THEN <<>>
     ELSE SubSeq(text, SelectInSeq(text, Inked), SelectLastInSeq(text, Inked))

------------------------------------------------------------------------------
(* Quote state and the two quote-aware scans of one text.                  *)

Bare == [quote |-> "none", escaped |-> FALSE]

Live(lex) == lex = Bare

\* Mutant: a backslash escapes inside single quotes as well
LexedLoose(lex, ch) ==
  CASE lex.escaped -> [lex EXCEPT !.escaped = FALSE]
    [] ~lex.escaped /\ ch = "\\" -> [lex EXCEPT !.escaped = TRUE]
    [] ~lex.escaped /\ ch # "\\" /\ lex.quote # "none" -> IF ch = lex.quote THEN Bare ELSE lex
    [] Live(lex) /\ ch # "\\" -> IF ch \in {"'", "\""} THEN [lex EXCEPT !.quote = ch] ELSE lex

\* QuoteState: what a character does to the quoting of the next one
Lexed(lex, ch) ==
  CASE lex.quote = "'" -> IF ch = "'" THEN Bare ELSE lex
    [] lex.quote # "'" /\ lex.escaped -> [lex EXCEPT !.escaped = FALSE]
    [] lex.quote # "'" /\ ~lex.escaped /\ ch = "\\" -> [lex EXCEPT !.escaped = TRUE]
    [] lex.quote = "\"" /\ ~lex.escaped /\ ch # "\\" -> IF ch = "\"" THEN Bare ELSE lex
    [] Live(lex) /\ ch # "\\" -> IF ch \in {"'", "\""} THEN [lex EXCEPT !.quote = ch] ELSE lex

contains_unquoted_char(text, target) ==
  FoldLeft(LAMBDA acc, ch : [lex |-> Lexed(acc.lex, ch),
                             found |-> acc.found \/ (Live(acc.lex) /\ ch = target)],
           [lex |-> Bare, found |-> FALSE], text).found

RECURSIVE Segments(_, _, _)
\* The loop of split_unquoted_segments. A blank segment is dropped; || and && count once.
Segments(lex, current, rest) ==
  LET pushed == IF Trim(current) = <<>> THEN <<>> ELSE <<Trim(current)>>
      twice == Len(rest) > 1 /\ rest[2] = rest[1]
  IN IF rest = <<>> THEN pushed
     ELSE IF Live(lex) /\ rest[1] \in {";", "\n"} THEN pushed \o Segments(lex, <<>>, Tail(rest))
     ELSE IF Live(lex) /\ (rest[1] = "|" \/ (rest[1] = "&" /\ twice))
          THEN pushed \o Segments(lex, <<>>, Drop(rest, IF twice THEN 2 ELSE 1))
     ELSE Segments(Lexed(lex, rest[1]), Append(current, rest[1]), Tail(rest))

split_unquoted_segments(text) == Segments(Bare, <<>>, text)

------------------------------------------------------------------------------
(* Heredocs.                                                               *)

RECURSIVE Skip(_, _)
Skip(rest, Chars) == IF rest # <<>> /\ rest[1] \in Chars THEN Skip(Tail(rest), Chars) ELSE rest

\* what follows << up to the delimiter word: an optional dash and blanks
Word(rest) == Skip(IF IsPrefix(<<"-">>, rest) THEN Tail(rest) ELSE rest, {" ", "\t"})

RECURSIVE Quoted(_, _, _, _, _)
\* the loop of heredoc_delimiter; a word is [word, quoted, left], an empty one is no heredoc
Quoted(quote, escaped, quoted, word, rest) ==
  LET ch == rest[1]
      nothing == [word |-> <<>>, quoted |-> quoted, left |-> rest]
  IN IF rest = <<>> \/ (quote = "none" /\ ~escaped /\ rest[1] \in Ends)
     THEN IF quote = "none" /\ ~escaped THEN [nothing EXCEPT !.word = word] ELSE nothing
     ELSE IF escaped THEN Quoted(quote, FALSE, TRUE, Append(word, ch), Tail(rest))
     ELSE IF ch = "\\" /\ quote # "'" THEN Quoted(quote, TRUE, TRUE, word, Tail(rest))
     ELSE IF quote # "none" /\ ch = "\n" THEN nothing
     ELSE IF ch = quote THEN Quoted("none", FALSE, quoted, word, Tail(rest))
     ELSE IF quote = "none" /\ ch \in {"'", "\""} THEN Quoted(ch, FALSE, TRUE, word, Tail(rest))
     ELSE Quoted(quote, FALSE, quoted, Append(word, ch), Tail(rest))

heredoc_delimiter(rest) == Quoted("none", FALSE, FALSE, <<>>, Word(rest))

RECURSIVE Declared(_, _)
\* the loop of heredoc_declarations: a here-string is skipped, a declared word consumed
Declared(lex, rest) ==
  IF rest = <<>> THEN <<>>
  ELSE IF ~(Live(lex) /\ IsPrefix(<<"<", "<">>, rest)) THEN Declared(Lexed(lex, rest[1]), Tail(rest))
  ELSE IF IsPrefix(<<"<", "<", "<">>, rest) THEN Declared(lex, Drop(rest, 3))
  ELSE LET d == heredoc_delimiter(Drop(rest, 2))
       IN IF d.word = <<>> THEN Declared(lex, Drop(rest, 2))
          ELSE <<[word |-> d.word, quoted |-> d.quoted]>> \o Declared(lex, d.left)

heredoc_declarations(text) == Declared(Bare, text)

strip_quoted_heredoc_bodies(text) ==
  FoldLeft(LAMBDA acc, l :
             IF acc.active = <<>>
             THEN [out |-> Append(acc.out, l), active |-> heredoc_declarations(l)]
             ELSE IF Trim(l) = Head(acc.active).word
             THEN [out |-> Append(acc.out, l), active |-> Tail(acc.active)]
             ELSE [acc EXCEPT !.out = Append(@, IF Head(acc.active).quoted THEN <<"\n">> ELSE l)],
           [out |-> <<>>, active |-> <<>>], text).out

RECURSIVE Structural(_, _, _)
\* the loop of structural_heredoc_delimiter (the backquote is not in the alphabet)
Structural(lex, word, rest) ==
  LET ch == rest[1]
      next == Lexed(lex, ch)
      kept == CASE lex.quote = "\"" /\ lex.escaped ->
                     IF ch \in {"$", "\"", "\\", "\n"} THEN <<ch>> ELSE <<"\\", ch>>
                [] lex.quote # "\"" /\ lex.escaped -> <<ch>>
                [] ~lex.escaped -> IF next = lex THEN <<ch>> ELSE <<>>
  IN IF rest = <<>> \/ (Live(lex) /\ rest[1] \in Ends) THEN word
     ELSE Structural(next, word \o kept, Tail(rest))

structural_heredoc_delimiter(rest) ==
  [word |-> Structural(Bare, <<>>, Word(rest)), tabs |-> IsPrefix(<<"-">>, rest)]

RECURSIVE Delimiters(_, _, _, _, _)
\* The loop of heredoc_delimiters: found so far and the arithmetic stack, the
\* quoting, whether a word may start, the character before and the rest of the line.
Delimiters(acc, lex, start, before, rest) ==
  LET ch == rest[1]
      inside == acc.arithmetic # <<>> /\ Last(acc.arithmetic)
      Push(bits) == [acc EXCEPT !.arithmetic = @ \o bits]
      On(next, n) == Delimiters(next, Bare, TRUE, rest[n], Drop(rest, n))
      word == structural_heredoc_delimiter(Drop(rest, 2))
  IN IF rest = <<>> \/ (Live(lex) /\ start /\ rest[1] = "#") THEN acc
     ELSE IF ~Live(lex) \/ ch \in {"'", "\"", "\\"}
     THEN Delimiters(acc, Lexed(lex, ch), start /\ Live(lex) /\ ch = "\\", ch, Tail(rest))
     ELSE IF IsPrefix(<<"(", "(">>, rest) THEN On(Push(<<TRUE, TRUE>>), 2)
     ELSE IF ch = "(" THEN On(Push(<<before # "$" /\ inside>>), 1)
     ELSE IF ch = ")" THEN On(IF acc.arithmetic = <<>> THEN acc
                              ELSE [acc EXCEPT !.arithmetic = Front(@)], 1)
     ELSE IF inside \/ ~IsPrefix(<<"<", "<">>, rest)
     THEN Delimiters(acc, lex, ch \in Ends, ch, Tail(rest))
     ELSE IF IsPrefix(<<"<", "<", "<">>, rest) THEN On(acc, 3)
     ELSE On(IF word.word = <<>> THEN acc ELSE [acc EXCEPT !.found = Append(@, word)], 2)

heredoc_delimiters(text, arithmetic) ==
  Delimiters([found |-> <<>>, arithmetic |-> arithmetic], Bare, TRUE, "\n", text)

strip_heredoc_bodies(text) ==
  LET Terminator(l, tabs) == LET body == Front(l) IN IF tabs THEN Skip(body, {"\t"}) ELSE body
  IN FoldLeft(LAMBDA acc, l :
                IF acc.active = <<>>
                THEN LET d == heredoc_delimiters(l, acc.arithmetic)
                     IN [out |-> Append(acc.out, l), active |-> d.found, arithmetic |-> d.arithmetic]
                ELSE IF Terminator(l, Head(acc.active).tabs) = Head(acc.active).word
                THEN [acc EXCEPT !.out = Append(@, l), !.active = Tail(@)]
                ELSE [acc EXCEPT !.out = Append(@, <<"\n">>)],
              [out |-> <<>>, active |-> <<>>, arithmetic |-> <<>>], text).out

analyze_shell(text) ==
  [segments |-> split_unquoted_segments(FlattenSeq(strip_quoted_heredoc_bodies(text))),
   redirection |-> contains_unquoted_char(FlattenSeq(strip_heredoc_bodies(text)), ">")]

------------------------------------------------------------------------------
(* Quoting.                                                                *)

quote(argument) ==
  <<"'">> \o FlattenSeq([i \in DOMAIN argument |->
    IF argument[i] = "'" THEN <<"'", "\\", "'", "'">> ELSE <<argument[i]>>]) \o <<"'">>

\* the parts joined with a blank between them
Join(parts) ==
  FlattenSeq([i \in DOMAIN parts |-> IF i = 1 THEN parts[i] ELSE <<" ">> \o parts[i]])

command_line(arguments) == Join([i \in DOMAIN arguments |-> quote(arguments[i])])

\* the environment is one variable, or none
script(arguments, dir, env) ==
  Join((IF dir = <<>> THEN <<>> ELSE <<<<"c", "d", " ">> \o quote(dir) \o <<" ", "&", "&">>>>)
       \o (IF env = <<>> THEN <<>> ELSE <<<<"e", "n", "v">>, quote(env)>>)
       \o <<command_line(arguments)>>)

------------------------------------------------------------------------------
(* The writer.                                                             *)

Init ==
  /\ lines = <<>> /\ kinds = <<>> /\ line = <<>> /\ pending = <<>>
  /\ argv = <<>>
  /\ cwd \in {<<>>} \union Arguments

\* the pieces written outside the bodies
Commands == FlattenSeq([i \in DOMAIN kinds |-> kinds[i].pieces]) \o line

Write(p) ==
  /\ argv = <<>> /\ cwd = <<>>
  /\ Len(Commands) < MaxPieces /\ Len(lines) < MaxLines
  /\ line # <<>> => ~Last(line).last
  /\ pending = <<>>
  /\ line' = Append(line, p)
  /\ UNCHANGED <<lines, kinds, pending, argv, cwd>>

Finished(text, kind) ==
  /\ lines' = Append(lines, Append(text, "\n"))
  /\ kinds' = Append(kinds, kind)
  /\ line' = <<>>
  /\ UNCHANGED <<argv, cwd>>

EndLine ==
  /\ line # <<>>
  /\ Finished(FlattenSeq([i \in DOMAIN line |-> line[i].text]),
              [body |-> "none", pieces |-> line])
  /\ pending' = FlattenSeq([i \in DOMAIN line |-> line[i].opens])

Ending(text, doc) == (IF doc.tabs THEN Skip(text, {"\t"}) ELSE text) = doc.word

Body(text) ==
  /\ pending # <<>> /\ Len(lines) < MaxLines
  /\ ~Ending(text, Head(pending))
  /\ Finished(text, [body |-> IF Head(pending).quoted THEN "quoted" ELSE "expanded",
                     pieces |-> <<>>])
  /\ UNCHANGED pending

EndBody(indent) ==
  /\ pending # <<>>
  /\ indent => Head(pending).tabs
  /\ Finished((IF indent THEN <<"\t">> ELSE <<>>) \o Head(pending).word,
              [body |-> "none", pieces |-> <<>>])
  /\ pending' = Tail(pending)

Argument(text) ==
  /\ line = <<>> /\ lines = <<>>
  /\ Len(argv) < MaxArguments
  /\ argv' = Append(argv, text)
  /\ UNCHANGED <<lines, kinds, line, pending, cwd>>

Next ==
  \/ \E p \in Pieces : Write(p)
  \/ EndLine
  \/ \E text \in Bodies : Body(text)
  \/ \E indent \in BOOLEAN : EndBody(indent)
  \/ \E text \in Arguments : Argument(text)

Spec == Init /\ [][Next]_vars

------------------------------------------------------------------------------
(* Properties.                                                             *)

\* strip_quoted_heredoc_bodies covers what was written: no comment or arithmetic shift
\* looks like a heredoc, and no body line is the delimiter between blanks
Covered ==
  /\ \A p \in ToSet(Commands) : p.covered
  /\ \A i \in DOMAIN lines : kinds[i].body # "none" =>
       \A p \in ToSet(Commands) : \A d \in ToSet(p.opens) : Trim(lines[i]) # d.word

Blanked(Hidden) ==
  [i \in DOMAIN lines |-> IF kinds[i].body \in Hidden THEN <<"\n">> ELSE lines[i]]

\* strip_heredoc_bodies blanks exactly the lines that the shell reads as heredoc
\* bodies, whatever quoted, commented or arithmetic << came before;
\* strip_quoted_heredoc_bodies, where it covers the text, exactly those the shell does
\* not expand. So analyze_shell reports a redirection exactly when a command has one.
HeredocsExact ==
  line = <<>> =>
    /\ strip_heredoc_bodies(lines) = Blanked({"quoted", "expanded"})
    /\ Covered => strip_quoted_heredoc_bodies(lines) = Blanked({"quoted"})
    /\ analyze_shell(lines).redirection <=> \E p \in ToSet(Commands) : p.redirects

\* Every segment analyze_shell reports is one command: splitting it again, and the
\* search for a separator outside quotes, find nothing more in it.
SegmentsWhole ==
  line = <<>> => LET segments == analyze_shell(lines).segments
                 IN \A i \in DOMAIN segments :
                      /\ split_unquoted_segments(segments[i]) = <<segments[i]>>
                      /\ \A ch \in {";", "|", "\n"} : ~contains_unquoted_char(segments[i], ch)

RECURSIVE ShellWords(_, _, _)
\* The reference: the words a POSIX shell reads in a text, its quotes removed
\* (inside "none", single or double quotes).
ShellWords(inside, word, rest) ==
  LET ch == rest[1]
  IN IF rest = <<>> THEN <<word>>
     ELSE IF ch = inside THEN ShellWords("none", word, Tail(rest))
     ELSE IF inside = "'" THEN ShellWords(inside, Append(word, ch), Tail(rest))
     ELSE IF ch = "\\" /\ Len(rest) > 1 /\ (inside = "none" \/ rest[2] \in {"$", "\"", "\\"})
     THEN ShellWords(inside, Append(word, rest[2]), Drop(rest, 2))
     ELSE IF inside = "none" /\ ch \in {"'", "\""} THEN ShellWords(ch, word, Tail(rest))
     ELSE IF inside = "none" /\ ch = " " THEN <<word>> \o ShellWords("none", <<>>, Tail(rest))
     ELSE ShellWords(inside, Append(word, ch), Tail(rest))

\* A shell reads back exactly the arguments, the directory and the environment that
\* script quoted, whatever they hold, and the cd is a command of its own.
WordsVerbatim ==
  \A env \in {<<>>} \union Arguments : argv # <<>> =>
    LET commands == split_unquoted_segments(script(argv, cwd, env))
        run == (IF env = <<>> THEN <<>> ELSE <<<<"e", "n", "v">>, env>>) \o argv
    IN [i \in DOMAIN commands |-> ShellWords("none", <<>>, commands[i])] =
         (IF cwd = <<>> THEN <<>> ELSE <<<<<<"c", "d">>, cwd>>>>) \o <<run>>
==============================================================================
