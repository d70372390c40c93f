--------------------------- MODULE CommandHandler ---------------------------
(***************************************************************************)
(* The command handler library: characters of a serial line are gathered   *)
(* in a buffer, and at the end of a line the first option that matches and *)
(* accepts it runs.  A line longer than the buffer is counted on but not   *)
(* kept, and turned down at its end.                                       *)
(***************************************************************************)
EXTENDS Integers, Sequences, SequencesExt

CONSTANTS Chars,         \* the characters commands are made of
          EndOfLine,     \* "\r" and "\n"
          bufferLength,
          options,       \* the options, in order: [command, partialMatch, accepts]
          MaxLine        \* bound on the length of a line

ASSUME CommandAssumption ==
  /\ bufferLength \in Nat \ {0} /\ MaxLine \in Nat
  /\ options \in Seq([command : Seq(Chars), partialMatch : BOOLEAN, accepts : SUBSET Seq(Chars)])

VARIABLES buffer,        \* the characters kept
          ptr,           \* characters counted since the buffer was reset
          outcome,       \* what the last call of process() led to
          line           \* history: the characters since the last end of line

commandVars == <<buffer, ptr, outcome, line>>

Nothing == [kind |-> "nothing"]
Unknown(text) == [kind |-> "unknown", text |-> text]
TooLong == [kind |-> "tooLong"]
Runs(k, rest) == [kind |-> "option", option |-> k, rest |-> rest]

CommandInit == buffer = <<>> /\ ptr = 0 /\ outcome = Nothing /\ line = <<>>

startsWith(match, text) == IsPrefix(match, text)

\* A callback sees what follows its command; it declines when that is not what it accepts.
Matches(k, text) == /\ startsWith(options[k].command, text)
                    /\ options[k].partialMatch \/ options[k].command = text

RestOf(k, text) == SubSeq(text, Len(options[k].command) + 1, Len(text))

\* Defect: an option whose callback declined ends the search.
FaultyFinds(k, text) == Matches(k, text)
Finds(k, text) == /\ Matches(k, text)
                  /\ options[k].partialMatch => RestOf(k, text) \in options[k].accepts

FirstFound(text) ==
  IF \E k \in DOMAIN options : Finds(k, text)
  THEN LET k == CHOOSE j \in DOMAIN options : Finds(j, text) /\ \A i \in 1 .. j - 1 : ~Finds(i, text)
       IN  Runs(k, RestOf(k, text))
  ELSE Unknown(text)

\* process() with an ordinary character.
Gather(c) ==
  /\ Len(line) < MaxLine
  /\ buffer' = IF ptr < bufferLength - 1 THEN Append(buffer, c) ELSE buffer
  /\ ptr' = ptr + 1 /\ outcome' = Nothing /\ line' = Append(line, c)

\* process() with an end of line.
Finish(c) ==
  /\ c \in EndOfLine
  /\ outcome' = IF ptr >= bufferLength THEN TooLong
                ELSE IF ptr = 0 THEN Nothing
                ELSE FirstFound(buffer)
  /\ buffer' = <<>> /\ ptr' = 0 /\ line' = <<>>

process(c) == IF c \in EndOfLine THEN Finish(c) ELSE Gather(c)

CommandNext == \E c \in Chars \union EndOfLine : process(c)

CommandSpec == CommandInit /\ [][CommandNext]_commandVars

----------------------------------------------------------------------------
\* What a line of the console should lead to, from the text of the line alone: of the options
\* that begin it, all of it unless the option takes more, the first that takes the rest.
Meant(text) ==
  LET fit == {k \in DOMAIN options :
                \E n \in 0 .. Len(text) :
                  /\ SubSeq(text, 1, n) = options[k].command
                  /\ IF options[k].partialMatch THEN SubSeq(text, n + 1, Len(text)) \in options[k].accepts
                     ELSE n = Len(text)}
  IN  CASE text = <<>>              -> <<"nothing", 0>>
        [] Len(text) >= bufferLength -> <<"tooLong", 0>>
        [] OTHER -> IF fit = {} THEN <<"unknown", 0>> ELSE <<"option", Min(fit)>>

\* CommandHandler.cpp:43: whatever came before it, a line runs the option it means, once; a
\* line that is too long runs nothing, neither by its beginning nor by its end.
LineRunsWhatItMeans ==
  [][line # <<>> /\ line' = <<>> =>
       Meant(line) = <<outcome'.kind, IF outcome'.kind = "option" THEN outcome'.option ELSE 0>>]_commandVars
=============================================================================
