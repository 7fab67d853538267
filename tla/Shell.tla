------------------------------- MODULE Shell --------------------------------
(***************************************************************************)
(* The shell, apps/core/sfsh.c, its descriptors, its here-documents, and   *)
(* apps/core/init.c, which starts it and starts it again. The dispatch of  *)
(* one line is several system calls, each of which can fail; the shell is  *)
(* one process and keeps its descriptor table from line to line.           *)
(*                                                                         *)
(* A line is the sequence of its tokens after quotes are stripped and "$?" *)
(* is expanded: neither makes or hides an operator that the loop at line   *)
(* 686 would not see (a quoted ">" is an operator for it). Exit statuses   *)
(* and what commands print are left out.                                   *)
(***************************************************************************)
EXTENDS Integers, Sequences, FiniteSets, FiniteSetsExt

CONSTANTS Lines,       \* what the user may type
          MaxTokens,   \* MAX_TOKENS - 1
          Dirs,        \* directories the current directory may be
          NFds,        \* MAX_FDS
          MaxFails     \* failures of init's fork or exec

VARIABLES sh,      \* the shell process
          child,   \* the command it has forked
          init,    \* where init's loop is
          cwd,     \* current_dir of the kernel: one for all processes
          doc,     \* the directories that hold a file .heredoc
          fails

svars == <<sh, child, init, cwd, doc, fails>>

ConsoleFds == [d \in 0 .. NFds - 1 |-> IF d <= 2 THEN "console" ELSE "none"]

NoFds == [d \in 0 .. NFds - 1 |-> "none"]

Shell0 == [at |-> "prompt", line |-> <<>>, i |-> 1, fds |-> ConsoleFds,
           inf |-> 0, outf |-> 1, here |-> FALSE, cmd |-> "", file |-> "",
           savedIn |-> -1, savedOut |-> -1, before |-> {}, home |-> ""]

Gone == [Shell0 EXCEPT !.at = "gone", !.fds = NoFds]

NoChild == [at |-> "none", fds |-> NoFds]

-----------------------------------------------------------------------------
(* Descriptors: sys_open looks from 3, sys_dup from 0, sys_dup2 replaces    *)
(* what is there.                                                          *)

FreeFrom(f, k) == {d \in k .. NFds - 1 : f[d] = "none"}

Placed(f, k, what) ==
    IF FreeFrom(f, k) = {} THEN [fds |-> f, fd |-> -1]
    ELSE [fds |-> [f EXCEPT ![Min(FreeFrom(f, k))] = what],
          fd |-> Min(FreeFrom(f, k))]

\* open may also find no such file or no memory for one.
FdOpen(f, what) == {Placed(f, 3, what), [fds |-> f, fd |-> -1]}

FdClose(f, d) == IF d \in DOMAIN f THEN [f EXCEPT ![d] = "none"] ELSE f

FdDup(f, d) == Placed(f, 0, f[d])

FdDup2(f, from, to) ==
    IF from \in DOMAIN f /\ f[from] # "none" THEN [f EXCEPT ![to] = f[from]]
    ELSE f

\* if (in_fd != 0) close(in_fd); if (out_fd > 1) close(out_fd);
CloseBoth(s) ==
    LET f == IF s.inf # 0 THEN FdClose(s.fds, s.inf) ELSE s.fds
    IN  IF s.outf > 1 THEN FdClose(f, s.outf) ELSE f

RedirectInput(f, s) ==
    IF s.inf = 0 THEN f ELSE FdClose(FdDup2(f, s.inf, 0), s.inf)

RedirectOutput(f, s) ==
    IF s.outf = 1 THEN f
    ELSE FdClose(FdDup2(FdDup2(f, s.outf, 1), s.outf, 2), s.outf)

-----------------------------------------------------------------------------
(* Reading and parsing a line.                                             *)

Operators == {">", ">>", "<", "<<"}

Builtins == {"help", "exit", "clear", "echo", "pwd", "cd"}

ReadLine ==
    /\ sh.at = "prompt"
    /\ \E line \in Lines :
          sh' = [Shell0 EXCEPT
                    !.at = "parse", !.fds = sh.fds, !.before = doc, !.home = cwd,
                    !.line = SubSeq(line, 1, Min({Len(line), MaxTokens}))]
    /\ UNCHANGED <<child, init, cwd, doc, fails>>

\* One turn of the token loop.
ParseToken ==
    /\ sh.at = "parse" /\ sh.i <= Len(sh.line)
    /\ LET t == sh.line[sh.i]
           next == [sh EXCEPT !.i = @ + 2]
       IN  \/ /\ t \notin Operators
              /\ sh' = [sh EXCEPT !.i = @ + 1, !.cmd = IF @ = "" THEN t ELSE @]
           \/ /\ t \in Operators /\ sh.i = Len(sh.line)
              /\ sh' = [sh EXCEPT !.at = "error"]
           \/ /\ t = "<<" /\ sh.i < Len(sh.line)
              /\ sh' = [next EXCEPT !.here = TRUE]
           \/ /\ t = "<" /\ sh.i < Len(sh.line)
              /\ \E o \in FdOpen(IF sh.inf # 0 THEN FdClose(sh.fds, sh.inf)
                                 ELSE sh.fds, sh.line[sh.i + 1]) :
                    sh' = [next EXCEPT !.fds = o.fds, !.inf = o.fd,
                                       !.at = IF o.fd < 0 THEN "error" ELSE @]
           \/ /\ t \in {">", ">>"} /\ sh.i < Len(sh.line)
              /\ \E o \in FdOpen(IF sh.outf > 1 THEN FdClose(sh.fds, sh.outf)
                                 ELSE sh.fds, sh.line[sh.i + 1]) :
                    sh' = [next EXCEPT !.fds = o.fds, !.outf = o.fd,
                                       !.at = IF o.fd < 0 THEN "error" ELSE @]
    /\ UNCHANGED <<child, init, cwd, doc, fails>>

ParseEnd ==
    /\ sh.at = "parse" /\ sh.i > Len(sh.line)
    /\ sh' = [sh EXCEPT !.at = IF sh.cmd = "" THEN "error"
                               ELSE IF sh.here THEN "doc" ELSE "start"]
    /\ UNCHANGED <<child, init, cwd, doc, fails>>

-----------------------------------------------------------------------------
(* Here-documents. The name is relative: it means the current directory of *)
(* the moment it is used.                                                  *)

DocDirs == IF sh.file = "./" THEN {cwd} ELSE IF sh.file = "" THEN {} ELSE {sh.file}

\* make_heredoc_file: .heredoc, else /tmp/.heredoc, else the line is dropped.
MakeDoc ==
    /\ sh.at = "doc"
    /\ \/ /\ sh' = [sh EXCEPT !.at = "collect", !.file = "./"]
          /\ doc' = doc \union {cwd}
       \/ /\ sh' = [sh EXCEPT !.at = "collect", !.file = "/tmp"]
          /\ doc' = doc \union {"/tmp"}
       \/ sh' = [sh EXCEPT !.at = "error"] /\ UNCHANGED doc
    /\ UNCHANGED <<child, init, cwd, fails>>

\* collect_heredoc opens, writes and closes the file; it becomes the input.
CollectDoc ==
    /\ sh.at = "collect"
    /\ \/ sh' = [sh EXCEPT !.at = "error"]
       \/ \E o \in FdOpen(IF sh.inf # 0 THEN FdClose(sh.fds, sh.inf) ELSE sh.fds,
                          "doc") :
             sh' = [sh EXCEPT !.fds = o.fds, !.inf = o.fd,
                              !.at = IF o.fd < 0 THEN "error" ELSE "start"]
    /\ UNCHANGED <<child, init, cwd, doc, fails>>

AbandonKeepsOutput ==
    /\ sh.at = "error"
    /\ sh' = [sh EXCEPT !.at = "prompt",
                        !.fds = IF sh.inf # 0 THEN FdClose(@, sh.inf) ELSE @]
    /\ doc' = doc \ DocDirs
    /\ UNCHANGED <<child, init, cwd, fails>>

\* The error paths of main: close what was opened, remove the document.
Abandon ==
    /\ sh.at = "error"
    /\ sh' = [sh EXCEPT !.at = "prompt", !.fds = CloseBoth(sh)]
    /\ doc' = doc \ DocDirs
    /\ UNCHANGED <<child, init, cwd, fails>>

-----------------------------------------------------------------------------
(* Commands.                                                               *)

\* run_builtin_with_redirect up to run_builtin.
EnterBuiltin ==
    /\ sh.at = "start" /\ sh.cmd \in Builtins
    /\ LET in == FdDup(sh.fds, 0)
           f == IF sh.inf # 0 THEN RedirectInput(in.fds, sh) ELSE sh.fds
           out == FdDup(f, 1)
           g == IF sh.outf # 1 THEN RedirectOutput(out.fds, sh) ELSE f
       IN  sh' = [sh EXCEPT !.at = "builtin", !.fds = g,
                            !.savedIn = IF sh.inf # 0 THEN in.fd ELSE -1,
                            !.savedOut = IF sh.outf # 1 THEN out.fd ELSE -1]
    /\ UNCHANGED <<child, init, cwd, doc, fails>>

Restored(s) ==
    LET f == IF s.savedIn >= 0
             THEN FdClose(FdDup2(s.fds, s.savedIn, 0), s.savedIn) ELSE s.fds
    IN  IF s.savedOut >= 0
        THEN FdClose(FdDup2(FdDup2(f, s.savedOut, 1), s.savedOut, 2), s.savedOut)
        ELSE f

\* run_builtin, the descriptors put back, the document removed. cd moves the
\* current directory before the document is removed; exit leaves at once.
LeaveBuiltin ==
    /\ sh.at = "builtin"
    /\ \/ /\ sh.cmd = "exit"
          /\ sh' = Gone
          /\ UNCHANGED <<cwd, doc>>
       \/ /\ sh.cmd # "exit"
          /\ cwd' \in IF sh.cmd = "cd" THEN Dirs ELSE {cwd}
          /\ sh' = [sh EXCEPT !.at = "prompt", !.fds = Restored(sh)]
          /\ doc' = doc \ DocDirs'
    /\ UNCHANGED <<child, init, fails>>

\* run_external: the child's half up to execve, and the shell's up to waitpid.
ForkCommand ==
    /\ sh.at = "start" /\ sh.cmd \notin Builtins
    /\ sh' = [sh EXCEPT !.at = "wait", !.fds = CloseBoth(sh)]
    /\ \/ child' = [at |-> "program",
                    fds |-> RedirectOutput(RedirectInput(sh.fds, sh), sh)]
       \/ UNCHANGED child
    /\ UNCHANGED <<init, cwd, doc, fails>>

\* The command may change the current directory, the shell's too.
CommandRuns ==
    /\ child.at = "program"
    /\ cwd' \in Dirs
    /\ UNCHANGED <<sh, child, init, doc, fails>>

\* It ends, or execve found it nowhere.
CommandExits ==
    /\ child.at = "program"
    /\ child' = NoChild
    /\ UNCHANGED <<sh, init, cwd, doc, fails>>

\* waitpid returns, or fork had failed.
EndCommand ==
    /\ sh.at = "wait" /\ child.at = "none"
    /\ sh' = [sh EXCEPT !.at = "prompt"]
    /\ doc' = doc \ DocDirs
    /\ UNCHANGED <<child, init, cwd, fails>>

-----------------------------------------------------------------------------
(* init.                                                                   *)

InitSpawn ==
    /\ init = "spawn"
    /\ \/ /\ sh' = Shell0 /\ init' = "wait"
          /\ UNCHANGED fails
       \/ /\ fails < MaxFails       \* fork or execve fails
          /\ fails' = fails + 1 /\ init' = "sleep"
          /\ UNCHANGED sh
    /\ UNCHANGED <<child, cwd, doc>>

InitReapOnce ==
    /\ init = "wait" /\ sh.at = "gone"
    /\ init' = "done"
    /\ UNCHANGED <<sh, child, cwd, doc, fails>>

InitReap ==
    /\ init = "wait" /\ sh.at = "gone"
    /\ init' = "sleep"
    /\ UNCHANGED <<sh, child, cwd, doc, fails>>

InitWakes ==
    /\ init = "sleep"
    /\ init' = "spawn"
    /\ UNCHANGED <<sh, child, cwd, doc, fails>>

SInit ==
    /\ sh = Gone /\ child = NoChild /\ init = "spawn"
    /\ cwd \in Dirs /\ doc = {} /\ fails = 0

SNext ==
    \/ ReadLine \/ ParseToken \/ ParseEnd \/ MakeDoc \/ CollectDoc \/ Abandon
    \/ EnterBuiltin \/ LeaveBuiltin
    \/ ForkCommand \/ CommandRuns \/ CommandExits \/ EndCommand
    \/ InitSpawn \/ InitReap \/ InitWakes

\* init is runnable whenever it is not asleep or waiting, and a runnable
\* process runs (EveryoneRuns and WaiterReaps of Sched). Nothing is
\* assumed of the user or of the commands.
SFairness ==
    WF_svars(InitSpawn) /\ WF_svars(InitReap) /\ WF_svars(InitWakes)

SSpec == SInit /\ [][SNext]_svars /\ SFairness

-----------------------------------------------------------------------------
(* Properties.                                                             *)

\* What the line asks for: the last file after an operator, a document before
\* any "<".
Asked(line, ops, default) ==
    LET at == {i \in 1 .. Len(line) - 1 :
                  /\ line[i] \in ops
                  /\ \A j \in 1 .. i - 1 : line[j] \in Operators => j + 1 # i}
    IN  IF at = {} THEN default ELSE line[Max(at) + 1]

\* When a command runs, in the shell or in its child, its input, output and
\* errors are what the line asked for, and a child has no other descriptor
\* (run_builtin_with_redirect and run_external of sfsh.c).
RunsRedirected ==
    LET in == IF sh.here THEN "doc" ELSE Asked(sh.line, {"<"}, "console")
        out == Asked(sh.line, {">", ">>"}, "console")
        right(f) == f[0] = in /\ f[1] = out /\ f[2] = out
    IN  /\ sh.at = "builtin" => right(sh.fds)
        /\ child.at = "program" =>
              right(child.fds) /\ FreeFrom(child.fds, 3) = 3 .. NFds - 1

\* Back at the prompt the shell has the console three times and nothing else,
\* whatever line was typed and whichever of its system calls failed; and unless
\* the current directory has moved, no here-document is left behind (the close
\* and unlink calls of main in sfsh.c).
PromptClean ==
    sh.at = "prompt" =>
        /\ sh.fds = ConsoleFds
        /\ sh.line # <<>> /\ sh.home = cwd => doc \subseteq sh.before

\* Between a line and the next prompt every redirection is set up, used and
\* undone, in the shell and in its child.
RedirectedAndBack == RunsRedirected /\ PromptClean

\* A shell that has left comes back: init.c waits for it, sleeps and starts
\* another.
ShellComesBack == (sh.at = "gone") ~> (sh.at = "prompt")
=============================================================================
