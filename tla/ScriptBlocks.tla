---------------------------- MODULE ScriptBlocks ----------------------------
(***************************************************************************)
(* How a list of scripts travels: the controller renders it into one file  *)
(* of blocks (renderScripts), the worker splits the file again             *)
(* (ParseScripts).  A file is a sequence of lines.  A line that looks like *)
(* a header or a footer is one, wherever it comes from.                    *)
(***************************************************************************)
EXTENDS SequencesExt

\* "#!script name=<name> interpreter=<interpreter>", "#!endscript", and any
\* other line.  Names, interpreters and text are sequences of words, with
\* spaces between them.
Header(name, interpreter) ==
    [mark |-> "header", text |-> name, interpreter |-> interpreter]
Footer == [mark |-> "footer", text |-> <<>>, interpreter |-> <<>>]
Text(text) == [mark |-> "text", text |-> text, interpreter |-> <<>>]

\* Any string.  (The provers do not know a literal to be in STRING.)
Word == STRING \cup {"/bin/sh"}

Line == [mark : {"header", "footer", "text"}, text : Seq(Word), interpreter : Seq(Word)]

\* A script's content is its lines; a newline at its end makes no difference.
ScriptType == [name : Seq(Word), interpreter : Seq(Word), content : Seq(Line)]
Script(name, interpreter, content) ==
    [name |-> name, interpreter |-> interpreter, content |-> content]

defaultInterpreter == <<"/bin/sh">>

\* What a script of the spec asks for, and what a spec asks a node to run.
WithDefault(s) ==
    [s EXCEPT !.interpreter = IF @ = <<>> THEN defaultInterpreter ELSE @]

Asked(scripts) == [i \in DOMAIN scripts |-> WithDefault(scripts[i])]

Block(s) == <<Header(s.name, s.interpreter)>> \o s.content \o <<Footer>>

renderScripts(scripts) ==
    FlattenSeq([i \in DOMAIN scripts |-> Block(Asked(scripts)[i])])

\* The fields of a header are separated by spaces, so only the first word of a
\* name or of an interpreter is read.  A header may lack either.  (A further
\* word that is a field itself, name=x, replaces the first; either way
\* one word is read, and no property tells which.)
FirstWord(words) == IF words = <<>> THEN <<>> ELSE <<Head(words)>>

parseScriptHeader(line) ==
    WithDefault(Script(FirstWord(line.text), FirstWord(line.interpreter), <<>>))

\* One line: a header opens a block, dropping one that is open; a footer
\* closes the open block; other lines belong to the open block, if any.
ParseLine(state, line) ==
    CASE line.mark = "header" ->
           [state EXCEPT !.open = TRUE, !.cur = parseScriptHeader(line)]
      [] line.mark = "footer" /\ state.open ->
           [state EXCEPT !.open = FALSE, !.scripts = Append(@, state.cur)]
      [] line.mark = "text" /\ state.open ->
           [state EXCEPT !.cur.content = Append(@, line)]
      [] OTHER -> state

ParseScripts(lines) ==
    FoldLeft(ParseLine,
             [open |-> FALSE, cur |-> Script(<<>>, <<>>, <<>>), scripts |-> <<>>],
             lines).scripts

\* A script that no line of which is a marker and whose name and interpreter
\* are at most one word each.
Plain(s) ==
    /\ \A i \in DOMAIN s.content : s.content[i].mark = "text"
    /\ Len(s.name) <= 1
    /\ Len(s.interpreter) <= 1
=============================================================================
