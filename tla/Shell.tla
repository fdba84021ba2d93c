-------------------------------- MODULE Shell --------------------------------
(***************************************************************************)
(* Shell/shell.c: lines with redirections, built-in commands and programs. *)
(* What is modelled are the words of a line, the descriptors of the shell  *)
(* and of the programs it starts, their signals, and the foreground        *)
(* process group of the terminal.  Between fork and waitpid the shell and  *)
(* the child run concurrently.                                             *)
(***************************************************************************)
EXTENDS Tokenizer, FiniteSets

CONSTANTS Lines,     \* the lines a user may enter
          Files,     \* the names that can be opened for writing
          Contents,  \* Contents[f]: the words of the file f, if it can be read
          Programs,  \* the names found by access, as they are or along PATH
          MaxFd,     \* (bound) the highest descriptor
          MaxLines,  \* (bound) how many lines are read
          Garbage    \* what the local variable fd may hold at first

Fds == 0 .. MaxFd

(* saved_stdout and saved_stdin come from dup, behind the standard three.  *)
saved_stdout == 3
saved_stdin == 4

(* The shell's standard input, its standard output (and error), the pipe   *)
(* of a command, the files.                                                *)
Things == {"input", "output", "tube out", "tube in"} \cup Files
FREE == "free"

Operators == {<<">">>, <<"<">>}

(* A redirection takes a descriptor, and two words of the line.            *)
Leaks(text) == Len(tokenize(text).tokens) \div 2

ASSUME ShellAssumption ==
  /\ Lines \subseteq Seq(STRING)
  /\ \A f \in DOMAIN Contents : Contents[f] \in Seq(Seq(STRING) \ {<<>>})
  /\ MaxLines \in Nat \ {0} /\ MaxFd \in Nat /\ MaxFd >= 6
  /\ \A text \in Lines : MaxFd >= 6 + MaxLines * Leaks(text)
  /\ Garbage \subseteq Fds \cup {-1}
  /\ Files \cap {"input", "output", "tube out", "tube in", "free"} = {}

cmd_table == {<<"?">>, <<"exit">>, <<"pwd">>, <<"cd">>}

SHELL == 0            \* the shell's process group; a child's is its number
Children == 1 .. MaxLines

VARIABLES
  interactive,  \* shell_is_interactive: input and output are one terminal
  desc,         \* the shell's descriptors
  eof,          \* there is nothing left to read
  pc, n,        \* where the shell is, how many lines it has read
  tokens, a,    \* the words of the last one, and its arguments
  fd,           \* the variable fd, which keeps its value from line to line
  tube,         \* the two descriptors of the pipe
  fg,           \* the foreground process group
  at,           \* at[c]: where the child of line c is
  group,        \* group[c]: its process group
  table         \* table[c]: its descriptors

line == <<tokens, a>>
children == <<at, group, table>>
vars == <<interactive, desc, eof, pc, n, line, fd, tube, fg, children>>

(* Where the loop starts: standard input and output have been duplicated,  *)
(* and a shell on a terminal has already come to its foreground.           *)
Init ==
  /\ interactive \in BOOLEAN
  /\ desc = [d \in Fds |-> IF d \in {0, saved_stdin} THEN "input"
                           ELSE IF d <= saved_stdout THEN "output" ELSE FREE]
  /\ eof = FALSE
  /\ pc = "read" /\ n = 0
  /\ tokens = <<>> /\ a = <<>>
  /\ fd \in Garbage
  /\ tube = [out |-> -1, in |-> -1]
  /\ fg = SHELL
  /\ at = [c \in Children |-> "none"]
  /\ group = [c \in Children |-> SHELL]
  /\ table = [c \in Children |-> [d \in Fds |-> FREE]]

(* dup2 and close of a process with descriptors t; with a descriptor that  *)
(* is not open they fail and change nothing.                               *)
dup2(t, from, to) == IF from \in Fds /\ t[from] # FREE THEN [t EXCEPT ![to] = t[from]] ELSE t
close(t, d) == IF d \in Fds THEN [t EXCEPT ![d] = FREE] ELSE t

lowest(t) == CHOOSE d \in Fds : t[d] = FREE /\ \A e \in Fds : t[e] = FREE => d <= e

restored(t) == dup2(dup2(t, saved_stdin, 0), saved_stdout, 1)

Alive(c) == at[c] \notin {"none", "gone"}
-----------------------------------------------------------------------------
(* The loop over the words of a line.  s.after is the operator just seen.  *)
NULL == <<>>          \* no word; tokenize returns no empty one
Named(word, names) == Len(word) = 1 /\ word[1] \in names

open(s, name) ==
  IF Named(name, Files)
  THEN LET f == lowest(s.desc)
       IN [s EXCEPT !.fd = f, !.desc = [@ EXCEPT ![f] = name[1]]]
  ELSE [s EXCEPT !.fd = -1]

(* Before a word of the file is stored, the array doubles when it is full. *)
fscanf(s, word) ==
  [s EXCEPT !.a = Append(@, word), !.l = IF Len(s.a) >= @ THEN 2 * @ ELSE @]

(* Any other word is stored without a look at the length of the array.     *)
store(s, word) == [s EXCEPT !.a = Append(@, word), !.overrun = @ \/ Len(s.a) >= s.l]

scan(s, token) ==
  LET t == [s EXCEPT !.after = NULL]
  IN CASE s.after = <<">">> -> open(t, token)
       [] s.after = <<"<">> -> IF Named(token, DOMAIN Contents)
                               THEN FoldLeft(fscanf, t, Contents[token[1]])
                               ELSE [t EXCEPT !.valid = FALSE]
       [] OTHER -> IF token \in Operators THEN [s EXCEPT !.after = token]
                   ELSE store(s, token)

(* An operator at the end opens the file named NULL, in vain.              *)
scanned(words) ==
  LET s == FoldLeft(scan, [after |-> NULL, fd |-> fd, desc |-> desc, a |-> <<>>,
                           l |-> Len(words), valid |-> TRUE, overrun |-> FALSE], words)
  IN IF s.after = NULL THEN s ELSE scan(s, NULL)

lookup(words) == words # <<>> /\ words[1] \in cmd_table

(* One line is read, cut into words, and its redirections are opened.  The *)
(* process dies when a word is too long, and may die when an argument was  *)
(* stored behind the array, at the next realloc.                           *)
ReadLine ==
  /\ pc = "read"
  /\ desc[0] = "input" /\ ~eof
  /\ n < MaxLines
  /\ n' = n + 1
  /\ \E text \in Lines :
       LET t == tokenize(text)
           s == scanned(t.tokens)
       IN IF t.abort
          THEN pc' = "aborted" /\ UNCHANGED <<line, fd, desc>>
          ELSE /\ tokens' = t.tokens /\ a' = s.a
               /\ fd' = s.fd
               /\ desc' = restored(s.desc)
               /\ \/ pc' = CASE ~s.valid -> "next"
                              [] lookup(t.tokens) -> "built-in"
                              [] OTHER -> "program"
                  \/ s.overrun /\ pc' = "aborted"
  /\ UNCHANGED <<interactive, eof, tube, fg, children>>

(* fgets returns NULL.                                                     *)
EndOfInput ==
  /\ pc = "read"
  /\ eof' = TRUE
  /\ pc' = "exited"
  /\ UNCHANGED <<interactive, desc, n, line, fd, tube, fg, children>>

RunBuiltIn ==
  /\ pc = "built-in"
  /\ pc' = IF tokens[1] = <<"exit">> THEN "exited" ELSE "next"
  /\ UNCHANGED <<interactive, desc, eof, n, line, fd, tube, fg, children>>

(* pipe, fork, and the close of the redirection in the shell.  When fork   *)
(* fails the shell goes on as if there was a child.                        *)
Fork ==
  /\ pc = "program"
  /\ LET r == lowest(desc)
         w == lowest([desc EXCEPT ![r] = "tube out"])
         piped == [desc EXCEPT ![r] = "tube out", ![w] = "tube in"]
     IN /\ tube' = [out |-> r, in |-> w]
        /\ desc' = close(piped, fd)
        /\ \/ at' = [at EXCEPT ![n] = "forked"] /\ table' = [table EXCEPT ![n] = piped]
           \/ UNCHANGED <<at, table>>
  /\ pc' = "setpgid"
  /\ UNCHANGED <<interactive, eof, n, line, fd, fg, group>>

setpgid ==
  /\ pc = "setpgid"
  /\ group' = IF Alive(n) THEN [group EXCEPT ![n] = n] ELSE group
  /\ pc' = "foreground"
  /\ UNCHANGED <<interactive, desc, eof, n, line, fd, tube, fg, at, table>>

(* The kernel's answers.  A child that has ended has no group: SIGCHLD is  *)
(* ignored, so nothing is left of it.  There is no group -1, and only the  *)
(* terminal has a foreground.                                              *)
getpgid(c) == IF Alive(c) THEN group[c] ELSE -1

tcsetpgrp(g) == fg' = IF interactive /\ desc[0] = "input" /\ g # -1 THEN g ELSE fg

(* What getpgid returns is handed on as it is.                             *)
Foreground ==
  /\ pc = "foreground"
  /\ tcsetpgrp(getpgid(n))
  /\ desc' = close(desc, tube.out)
  /\ pc' = "feed"
  /\ UNCHANGED <<interactive, eof, n, line, fd, tube, children>>

(* Its only argument is cat.                                               *)
CatFromStdin == a = << <<"cat">> >>

(* For cat the shell copies what it reads itself into the pipe.  On a      *)
(* terminal that is nothing while it is not in the foreground (EIO, as     *)
(* SIGTTIN is ignored); otherwise it is all the rest of the input.         *)
Feed ==
  /\ pc = "feed"
  /\ IF CatFromStdin
     THEN /\ eof' = (eof \/ ~interactive)
          /\ desc' = close(dup2(desc, saved_stdin, 0), tube.in)
     ELSE desc' = close(desc, tube.in) /\ UNCHANGED eof
  /\ pc' = "wait"
  /\ UNCHANGED <<interactive, n, line, fd, tube, fg, children>>

(* Slip: without WUNTRACED.                                                *)
waitpid_ended ==
  /\ pc = "wait"
  /\ at[n] = "gone" \/ (at[n] = "none" /\ \A c \in Children : ~Alive(c))
  /\ pc' = "back"
  /\ UNCHANGED <<interactive, desc, eof, n, line, fd, tube, fg, children>>

(* The child has ended or stopped.  If fork failed, cpid is -1: any child  *)
(* will do, so those that were stopped earlier are waited for.             *)
waitpid ==
  /\ pc = "wait"
  /\ \/ at[n] \in {"gone", "stopped"}
     \/ at[n] = "none" /\ \A c \in Children : ~Alive(c)
  /\ pc' = "back"
  /\ UNCHANGED <<interactive, desc, eof, n, line, fd, tube, fg, children>>

Back ==
  /\ pc = "back"
  /\ tcsetpgrp(SHELL)
  /\ pc' = "next"
  /\ UNCHANGED <<interactive, desc, eof, n, line, fd, tube, children>>

(* Slip: standard input and output are left as they are.                   *)
NextLineUnrestored ==
  /\ pc = "next"
  /\ pc' = "read"
  /\ UNCHANGED <<interactive, desc, eof, n, line, fd, tube, fg, children>>

NextLine ==
  /\ pc = "next"
  /\ desc' = restored(desc)
  /\ pc' = "read"
  /\ UNCHANGED <<interactive, eof, n, line, fd, tube, fg, children>>
-----------------------------------------------------------------------------
(* The child starts with every signal ignored, like the shell ...          *)
ignore_signal(c) == at[c] = "forked"

(* ... and resets them.                                                    *)
accept_signal(c) ==
  /\ at[c] = "forked"
  /\ at' = [at EXCEPT ![c] = "accepts"]
  /\ UNCHANGED <<interactive, desc, eof, pc, n, line, fd, tube, fg, group, table>>

setpgrp(c) ==
  /\ at[c] = "accepts"
  /\ group' = [group EXCEPT ![c] = c]
  /\ at' = [at EXCEPT ![c] = "grouped"]
  /\ UNCHANGED <<interactive, desc, eof, pc, n, line, fd, tube, fg, table>>

(* Slip: the file is closed first.                                         *)
closed_early(t) == IF fd # -1 THEN dup2(close(t, fd), fd, 1) ELSE t

redirected(t) == IF fd # -1 THEN close(dup2(t, fd, 1), fd) ELSE t

get_cmd(token) == Named(token, Programs)

(* Its descriptors, and the program.  The words given to execv have no     *)
(* NULL behind them but the one that may be there by chance; if there is   *)
(* none, execv fails, or the program runs with more arguments.  Without a  *)
(* first word get_cmd crashes.                                             *)
exec(c) ==
  /\ at[c] = "grouped"
  /\ LET t == redirected(table[c])
     IN table' = [table EXCEPT ![c] =
                    IF CatFromStdin
                    THEN close(dup2(close(t, tube.in), tube.out, 0), tube.out)
                    ELSE close(close(t, tube.out), tube.in)]
  /\ \E null_behind \in BOOLEAN :
       at' = [at EXCEPT ![c] =
                CASE tokens = <<>> -> "gone"
                  [] tokens # <<>> /\ get_cmd(tokens[1]) /\ (CatFromStdin \/ null_behind) -> "runs"
                  [] OTHER -> "failed"]
  /\ UNCHANGED <<interactive, desc, eof, pc, n, line, fd, tube, fg, group>>

(* The child ends, by itself or killed.                                    *)
Exit(c) ==
  /\ Alive(c) /\ ~ignore_signal(c)
  /\ at' = [at EXCEPT ![c] = "gone"]
  /\ UNCHANGED <<interactive, desc, eof, pc, n, line, fd, tube, fg, group, table>>

(* It is stopped: by the terminal's suspend character when it is in the    *)
(* foreground, or for reading the terminal when it is not.                 *)
Stop(c) ==
  /\ interactive
  /\ at[c] \in {"accepts", "grouped", "runs"}
  /\ fg = group[c] \/ (at[c] = "runs" /\ table[c][0] = "input")
  /\ at' = [at EXCEPT ![c] = "stopped"]
  /\ UNCHANGED <<interactive, desc, eof, pc, n, line, fd, tube, fg, group, table>>

Starts(c) == accept_signal(c) \/ setpgrp(c) \/ exec(c)

Runs == Fork \/ setpgid \/ Foreground \/ Feed \/ waitpid \/ Back \/ NextLine \/ RunBuiltIn

Next ==
  \/ ReadLine \/ EndOfInput
  \/ Runs
  \/ \E c \in Children : Starts(c) \/ Exit(c) \/ Stop(c)

Spec == Init /\ [][Next]_vars

(* A program ends in the end; one that reads the pipe may wait until no    *)
(* process has its other end.                                              *)
Holds(t) == \E d \in Fds : t[d] = "tube in"
Ends(c) ==
  /\ at[c] \in {"runs", "failed"}
  /\ table[c][0] = "tube out" => ~Holds(desc) /\ ~Holds(table[c])
  /\ Exit(c)

(* The shell and its children run on, and what a user types for cat ends.  *)
Fairness ==
  /\ WF_vars(Runs)
  /\ \A c \in Children : WF_vars(Starts(c)) /\ WF_vars(Ends(c))

FairSpec == Spec /\ Fairness
-----------------------------------------------------------------------------
(* Every variable has its type.                                            *)
TypeOK ==
  /\ interactive \in BOOLEAN /\ eof \in BOOLEAN
  /\ desc \in [Fds -> Things \cup {FREE}]
  /\ pc \in {"read", "built-in", "program", "setpgid", "foreground",
             "feed", "wait", "back", "next", "exited", "aborted"}
  /\ n \in 0 .. MaxLines
  /\ NULL \notin ToSet(tokens) \cup ToSet(a)
  /\ fd \in Fds \cup {-1}
  /\ tube \in [out : Fds \cup {-1}, in : Fds \cup {-1}]
  /\ fg \in Children \cup {SHELL}
  /\ at \in [Children -> {"none", "forked", "accepts", "grouped", "runs", "failed", "stopped", "gone"}]
  /\ group \in [Children -> Children \cup {SHELL}]
  /\ table \in [Children -> [Fds -> Things \cup {FREE}]]

(* The shell reads a line from its own input, writes the prompt to its own *)
(* output, and is in the foreground, whatever the last command did to the  *)
(* descriptors or the terminal, and whether it ended or was stopped.  No   *)
(* end of a pipe is left open.                                             *)
PromptReady ==
  pc = "read" =>
    /\ desc[0] = "input" /\ desc[1] = "output"
    /\ fg = SHELL
    /\ \A d \in Fds : desc[d] \notin {"tube out", "tube in"}

(* An operator: not one that is the operand of another.                    *)
IsOperator[i \in 0 .. Len(tokens)] ==
  i > 0 /\ tokens[i] \in Operators /\ ~IsOperator[i - 1]

Redirections == {i \in 1 .. Len(tokens) : IsOperator[i] /\ tokens[i] = <<">">>}

(* A program whose line has redirections writes to the file of the last    *)
(* one, although descriptors are used again and leak, and only cat without *)
(* arguments reads from a pipe.                                            *)
RedirectKept ==
  n > 0 /\ at[n] = "runs" /\ Redirections # {} =>
    /\ table[n][1] = LET i == Max(Redirections) + 1
                     IN IF i <= Len(tokens) /\ Named(tokens[i], Files) THEN tokens[i][1]
                        ELSE "output"
    /\ ~Holds(table[n])
    /\ \A d \in Fds : table[n][d] = "tube out" <=> CatFromStdin /\ d = 0

(* The words of every line are those that were meant.  (This is about      *)
(* tokenize alone, so it is evaluated once.)                               *)
TokensOK ==
  n = 0 /\ pc = "read" => RoundTrip

(* Every line comes to its end: the shell asks for the next one, unless it *)
(* dies, whatever becomes of the child.  The exception is a fork that      *)
(* failed while a child is stopped: waitpid(-1) waits for that one.        *)
PromptReturns ==
  pc # "read" ~> \/ pc \in {"read", "exited", "aborted"}
                 \/ pc = "wait" /\ at[n] = "none" /\ \E c \in Children : at[c] = "stopped"

(* shell.c:297: "Run commands as programs."  A command that was found is   *)
(* executed.                                                               *)
ProgramRuns ==
  n > 0 /\ at[n] = "failed" => ~get_cmd(tokens[1])

(* shell.c:332: "set the proccess group in the foreground".                *)
ChildForeground ==
  [][pc = "foreground" /\ pc' = "feed" /\ interactive /\ Alive(n) => fg' = n]_vars
=============================================================================
