------------------------------ MODULE Pipeline ------------------------------
(***************************************************************************)
(* How 42_minishell runs a line: command_processor() and executor().       *)
(*                                                                         *)
(* The shell redirects its own descriptors 0 and 1, forks the command,     *)
(* which inherits them, and puts them back.  A step of the shell is one of *)
(* the functions executor() calls before the command starts, the start (a  *)
(* fork() or a builtin, which runs in the shell), what is closed after it, *)
(* or a wait() that returns.  Commands read, write and end in between.                 *)
(***************************************************************************)
EXTENDS Integers, Sequences, SequencesExt, FiniteSets, FiniteSetsExt, Descriptors

CONSTANTS
  Lines,      \* what may be typed: sequences of [kind, redirs]
  Files,      \* names of files
  PipeSize,   \* units a pipe can hold
  Volume      \* units a command writes of its own, and a file or the terminal holds

Kinds == {"gen", "copy", "head", "missing", "builtin", "exit", "none"}

\* What the name of a heredoc is does not matter: it is where its text ends.
Redirection == [type : {"<", ">"}, name : Files] \cup [type : {"<<"}, name : STRING]
Commands == [kind : Kinds, redirs : Seq(Redirection)]

ASSUME LinesAssumption == Lines \subseteq Seq(Commands) \ {<<>>}
ASSUME SizeAssumption == PipeSize \in Nat \ {0} /\ Volume \in Nat \ {0}

VARIABLES
  sh,      \* the shell: its place in the code and the variables of both functions
  proc,    \* the command numbered i of the line, when it is a process
  fd,      \* the table of each process
  pipe,    \* units in the pipe behind command i
  absent,  \* files that cannot be opened while this line runs
  marred   \* a command without a word has been run (observed)

vars == <<sh, proc, fd, pipe, absent, marred>>

Shell == 0
Named(line) == UNION {{r.name : r \in Range(line[i].redirs)} : i \in DOMAIN line}
Cmd   == UNION {DOMAIN line : line \in Lines}     \* the places of commands

\* What a descriptor can be open on.
Tty         == <<"tty">>
File(name)  == <<"file", name>>
Heredoc     == <<"heredoc">>
ReadEnd(i)  == <<"read", i>>
WriteEnd(i) == <<"write", i>>

Opens == {Tty, Heredoc} \cup {File(n) : n \in Files}
           \cup {ReadEnd(i) : i \in Cmd} \cup {WriteEnd(i) : i \in Cmd}

ASSUME NoneAssumption == NONE \notin Opens

\* A process may have ten files open; POSIX promises twenty.
ASSUME RoomAssumption == 0 .. 9 \subseteq Fd

Holders(file) == {p \in {Shell} \cup Cmd : \E d \in Fd : fd[p][d] = file}

IsLast  == sh.i = Len(sh.line)
Command == sh.line[sh.i]
OutFd   == IF IsLast THEN 1 ELSE sh.fds[2]

\* The shell goes on with table t.
Goto(pc, t) ==
  /\ sh' = [sh EXCEPT !.pc = pc]
  /\ fd' = [fd EXCEPT ![Shell] = t]

\* The shell calls error(), or a builtin exit(): its descriptors are closed.
Quit == Goto("gone", Closed) /\ UNCHANGED <<proc, pipe, absent, marred>>

-----------------------------------------------------------------------------
(* Before the command starts.                                                   *)

\* pipe(), the ends of which get the two lowest numbers.
Pipe ==
  /\ sh.pc = "pipe" /\ ~IsLast
  /\ \E r, w \in Unused(fd[Shell]) :
       /\ r < w /\ \A d \in Unused(fd[Shell]) : d < w => d = r
       /\ sh' = [sh EXCEPT !.pc = "originals", !.fds = <<r, w>>]
       /\ fd' = [fd EXCEPT ![Shell] = [@ EXCEPT ![r] = ReadEnd(sh.i), ![w] = WriteEnd(sh.i)]]
  /\ pipe' = [pipe EXCEPT ![sh.i] = 0]
  /\ UNCHANGED <<proc, absent, marred>>

PipeFails ==
  /\ sh.pc = "pipe" /\ ~IsLast /\ Cardinality(Unused(fd[Shell])) < 2
  /\ Quit

\* create_original_fds(): dup(0) and dup(1).
Copied(t, d) == IF IsOpen(t, d) THEN Lowest(t) ELSE -1

Originals ==
  /\ sh.pc = "originals" \/ (sh.pc = "pipe" /\ IsLast)
  /\ \E oin \in {Copied(fd[Shell], 0)} :
     \E t \in {Put(fd[Shell], oin, fd[Shell][0])} :
     \E oout \in {Copied(t, 1)} :
       /\ sh' = [sh EXCEPT !.pc = "wire", !.redirs = Command.redirs, !.oin = oin, !.oout = oout,
                           !.in = 0, !.out = 1, !.tin = 0, !.tout = 1]
       /\ fd' = [fd EXCEPT ![Shell] = Put(t, oout, t[1])]
  /\ UNCHANGED <<proc, pipe, absent, marred>>

\* One turn of wire_files(): d is what open() or heredoc() gives; then
\* assign_and_close() for both directions, with what an earlier turn has left in
\* temp_in and temp_out.
Found(r)  == r.type = "<<" \/ r.name \notin absent
NewFd(r)  == IF Found(r) THEN Lowest(fd[Shell]) ELSE -1
Target(r) == IF r.type = "<<" THEN Heredoc ELSE File(r.name)

Assigned(t, old, new) == IF new > -1 /\ old > 1 THEN Close(t, old) ELSE t

WireFile ==
  /\ sh.pc = "wire" /\ sh.redirs # <<>>
  /\ \E r \in {Head(sh.redirs)} : \E d \in {NewFd(Head(sh.redirs))} :
     \E tin  \in {IF r.type = ">" THEN sh.tin ELSE IF r.type = "<<" /\ d = -1 THEN 0 ELSE d} :
     \E tout \in {IF r.type = ">" THEN d ELSE sh.tout} :
       /\ sh' = [sh EXCEPT !.redirs = Tail(@), !.tin = tin, !.tout = tout,
                           !.in = IF tin > -1 THEN tin ELSE @, !.out = IF tout > -1 THEN tout ELSE @]
       /\ fd' = [fd EXCEPT ![Shell] = Assigned(Assigned(Put(@, d, Target(r)), sh.in, tin), sh.out, tout)]
  /\ UNCHANGED <<proc, pipe, absent, marred>>

\* handle_input_output(): a redirection goes before the pipe; what is copied is closed.
HandleIn_pipe(t) == IF sh.prev # -1 THEN Move(t, sh.prev, 0) ELSE Move(t, sh.in, 0)   \* mutant: the pipe goes first
HandleIn(t) ==
  IF sh.in # 0 THEN Move(t, sh.in, 0) ELSE IF sh.prev # -1 THEN Move(t, sh.prev, 0) ELSE t
HandleOut(t) ==
  IF sh.out # 1 THEN Move(t, sh.out, 1) ELSE IF OutFd # 1 THEN Move(t, OutFd, 1) ELSE t

\* Then executor() returns at once when there is no word.
Handle ==
  /\ sh.pc = "wire" /\ sh.redirs = <<>>
  /\ \E t \in {HandleIn(fd[Shell])} :
       Goto(IF Command.kind = "none" THEN "next" ELSE "start", HandleOut(t))
  /\ marred' = (marred \/ Command.kind = "none")
  /\ UNCHANGED <<proc, pipe, absent>>

-----------------------------------------------------------------------------
(* The command starts.                                                          *)

\* write() of a unit by process p waits when the pipe is full.  Whoever writes to a
\* pipe has inherited, or is about to hand on, its read end too, so nobody ever gets
\* a SIGPIPE.
IsFull(p) == \E i \in Cmd : fd[p][1] = WriteEnd(i) /\ pipe[i] = PipeSize
Written(p) == [i \in Cmd |-> IF fd[p][1] = WriteEnd(i) THEN pipe[i] + 1 ELSE pipe[i]]

\* A builtin that succeeds runs in the shell and writes a unit; last_pid is 0.
Builtin ==
  /\ sh.pc = "start" /\ Command.kind = "builtin"
  /\ ~IsFull(Shell)
  /\ pipe' = Written(Shell)
  /\ sh' = [sh EXCEPT !.pc = "restore", !.status = 0]
  /\ UNCHANGED <<proc, fd, absent, marred>>

Exit ==
  /\ sh.pc = "start" /\ Command.kind = "exit"
  /\ Quit

Fork ==
  /\ sh.pc = "start" /\ Command.kind \notin {"builtin", "exit"}
  /\ proc' = [proc EXCEPT ![sh.i] = [state |-> "runs", kind |-> Command.kind,
                                     left |-> IF Command.kind \in {"gen", "copy"} THEN Volume ELSE 1,
                                     holds |-> Command.kind \in {"gen", "missing"}]]
  /\ fd' = [fd EXCEPT ![sh.i] = fd[Shell]]
  /\ sh' = [sh EXCEPT !.pc = "restore", !.last = IF IsLast THEN sh.i ELSE @]
  /\ UNCHANGED <<pipe, absent, marred>>

ForkFails ==
  /\ sh.pc = "start" /\ Command.kind \notin {"builtin", "exit"}
  /\ Quit

-----------------------------------------------------------------------------
(* After the start.                                                             *)

\* The ends of the pipes executor() was given, when it has forked.
CloseEnds(t) == Close(Close(t, sh.prev), OutFd)

\* close_and_original_fd()
Restore_out(t) == Close(Close(Dup2(t, sh.oout, 1), sh.oout), sh.oin)  \* mutant: descriptor 0 is not put back
Restore(t) ==
  LET u == Close(Close(Dup2(Dup2(t, sh.oout, 1), sh.oin, 0), sh.oout), sh.oin)
      v == IF sh.out # 1 THEN Close(u, sh.out) ELSE u
  IN  IF sh.in # 0 THEN Close(v, sh.in) ELSE v

Restored ==
  /\ sh.pc = "restore"
  /\ \E t \in {IF Command.kind = "builtin" THEN fd[Shell] ELSE CloseEnds(fd[Shell])} :
       Goto("next", Restore(t))
  /\ UNCHANGED <<proc, pipe, absent, marred>>

\* The rest of the turn of command_processor().
ClosePipe_none(t) == t     \* mutant: the write end stays in the shell
ClosePipe(t) == IF IsLast THEN t ELSE Close(t, sh.fds[2])

NextCommand ==
  /\ sh.pc = "next"
  /\ fd' = [fd EXCEPT ![Shell] = Close(ClosePipe(@), sh.prev)]
  /\ sh' = IF IsLast THEN [sh EXCEPT !.pc = "wait"]
                     ELSE [sh EXCEPT !.pc = "pipe", !.prev = sh.fds[1], !.i = @ + 1]
  /\ UNCHANGED <<proc, pipe, absent, marred>>

NoProcess == [state |-> "none", kind |-> "none", left |-> 0, holds |-> FALSE]
Children == {i \in Cmd : proc[i].state # "none"}

ExitCode(kind) == IF kind = "missing" THEN 127 ELSE 0

\* wait() returns child i.
StatusOf_any(i) == ExitCode(proc[i].kind)    \* mutant: of the child that is waited for last
StatusOf(i) == IF i = sh.last THEN ExitCode(proc[i].kind) ELSE sh.status

Wait(i) ==
  /\ sh.pc = "wait"
  /\ proc[i].state = "exited"
  /\ proc' = [proc EXCEPT ![i] = NoProcess]
  /\ sh' = [sh EXCEPT !.status = StatusOf(i)]
  /\ UNCHANGED <<fd, pipe, absent, marred>>

NewLine ==
  [pc |-> "prompt", line |-> <<>>, i |-> 1, prev |-> -1, fds |-> <<-1, -1>>,
   redirs |-> <<>>, in |-> 0, out |-> 1, tin |-> 0, tout |-> 1, oin |-> -1, oout |-> -1,
   last |-> 0, status |-> 0]

WaitEnds ==
  /\ sh.pc = "wait" /\ Children = {}
  /\ sh' = [NewLine EXCEPT !.status = sh.status]
  /\ absent' = {}
  /\ UNCHANGED <<proc, fd, pipe, marred>>

\* minishell_loop(): a line is typed.
ReadLine ==
  /\ sh.pc = "prompt"
  /\ \E line \in Lines : \E missing \in SUBSET (Files \cap Named(line)) :
       /\ sh' = [sh EXCEPT !.pc = "pipe", !.line = line]
       /\ absent' = missing
  /\ UNCHANGED <<proc, fd, pipe, marred>>

\* A step of the shell that is not up to who types.
ShellStep ==
  \/ Pipe \/ PipeFails \/ Originals \/ WireFile \/ Handle
  \/ Builtin \/ Exit \/ Fork \/ ForkFails
  \/ Restored \/ NextCommand
  \/ WaitEnds \/ \E i \in Cmd : Wait(i)

-----------------------------------------------------------------------------
(* The commands.                                                                *)

FromPipe(i) == {k \in Cmd : fd[i][0] = ReadEnd(k)}

\* Command i asks for a unit: "head" wants one, "copy" all there is, which in a file
\* or at the terminal is left.
Reads(i) ==
  /\ proc[i].state = "runs" /\ ~proc[i].holds
  /\ proc[i].kind = "head" => proc[i].left > 0
  /\ proc[i].kind \in {"copy", "head"}

ReadPipe(i) ==
  /\ Reads(i)
  /\ \E k \in FromPipe(i) : pipe[k] > 0 /\ pipe' = [pipe EXCEPT ![k] = @ - 1]
  /\ proc' = [proc EXCEPT ![i].holds = TRUE]
  /\ UNCHANGED <<sh, fd, absent, marred>>

ReadFile(i) ==
  /\ Reads(i) /\ FromPipe(i) = {} /\ IsOpen(fd[i], 0)
  /\ proc[i].left > 0
  /\ proc' = [proc EXCEPT ![i].holds = TRUE]
  /\ UNCHANGED <<sh, fd, pipe, absent, marred>>

AtEnd(i) ==
  IF FromPipe(i) = {} THEN proc[i].left = 0 \/ ~IsOpen(fd[i], 0)
  ELSE \A k \in FromPipe(i) : pipe[k] = 0 /\ Holders(WriteEnd(k)) = {}

\* Command i has read or written all it wants to, and ends.
Stop(i) ==
  /\ proc[i].state = "runs" /\ ~proc[i].holds
  /\ Reads(i) => AtEnd(i)
  /\ proc' = [proc EXCEPT ![i].state = "exited"]
  /\ fd' = [fd EXCEPT ![i] = Closed]
  /\ UNCHANGED <<sh, pipe, absent, marred>>

Write(i) ==
  /\ proc[i].state = "runs" /\ proc[i].holds
  /\ ~IsFull(i)
  /\ pipe' = Written(i)
  /\ LET left == IF proc[i].left > 0 THEN proc[i].left - 1 ELSE 0
     IN  proc' = [proc EXCEPT ![i] = [@ EXCEPT !.left = left, !.holds = proc[i].kind = "gen" /\ left > 0]]
  /\ UNCHANGED <<sh, fd, absent, marred>>

CmdStep(i) == ReadPipe(i) \/ ReadFile(i) \/ Stop(i) \/ Write(i)

-----------------------------------------------------------------------------
NewTable == [d \in Fd |-> IF d \in {0, 1, 2} THEN Tty ELSE NONE]

Init ==
  /\ sh = NewLine
  /\ proc = [i \in Cmd |-> NoProcess]
  /\ fd = [p \in {Shell} \cup Cmd |-> IF p = Shell THEN NewTable ELSE Closed]
  /\ pipe = [i \in Cmd |-> 0]
  /\ absent = {}
  /\ marred = FALSE

Next == ReadLine \/ ShellStep \/ \E i \in Cmd : CmdStep(i)

Spec == Init /\ [][Next]_vars

\* The shell and every command go on when they can; a line need not be typed.
FairSpec ==
  /\ Spec
  /\ WF_vars(ShellStep)
  /\ \A i \in Cmd : WF_vars(CmdStep(i))
-----------------------------------------------------------------------------
(* Properties *)

\* The redirections of a command that apply to its input or output and are there.
Opened(i, types) ==
  {j \in DOMAIN sh.line[i].redirs : sh.line[i].redirs[j].type \in types /\ Found(sh.line[i].redirs[j])}

\* The last of them counts.
Given(i, types) == Target(sh.line[i].redirs[Max(Opened(i, types))])

Input(i) ==
  IF Opened(i, {"<", "<<"}) # {} THEN Given(i, {"<", "<<"})
  ELSE IF i > 1 THEN ReadEnd(i - 1) ELSE Tty
Output(i) ==
  IF Opened(i, {">"}) # {} THEN Given(i, {">"})
  ELSE IF i < Len(sh.line) THEN WriteEnd(i) ELSE Tty

\* All redirections of a command are of its input, or all of its output.
OneWay(redirs) == \A r, q \in Range(redirs) : (r.type = ">") = (q.type = ">")

\* A command reads from and writes to what its redirections say, else the pipes beside
\* it, else the terminal, as long as it runs: whatever files were missing, and whatever
\* the shell has done with its own descriptors before.
WiredAsAsked ==
  \A i \in Cmd : ~marred /\ proc[i].state = "runs" /\ OneWay(sh.line[i].redirs)
                   => fd[i][0] = Input(i) /\ fd[i][1] = Output(i)

\* When all commands are started the shell has its own descriptors again and no other,
\* although executor() closes some numbers twice.
DescriptorsRestored == sh.pc \in {"wait", "prompt"} /\ ~marred => fd[Shell] = NewTable

\* Nobody but command i and, until it is started, the shell can write to the pipe behind
\* it: so the next command sees the end of its input when command i ends.
EndIsSeen ==
  \A i \in Cmd : ~marred =>
    Holders(WriteEnd(i)) \subseteq (IF sh.pc \in {"wait", "prompt"} THEN {i} ELSE {i, Shell})

\* The status of a line is that of its last command, whatever the others do and in which
\* order they end.
StatusIsLast ==
  sh.pc = "wait" /\ Children = {} /\ Last(sh.line).kind # "none"
    => sh.status = ExitCode(Last(sh.line).kind)

\* Commands see the end of their input, and the shell the status of the last: executor().
LineIsRun == EndIsSeen /\ StatusIsLast

\* Each command behind a pipe reads it to its end.
ReadsOn(line) ==
  /\ \A i \in DOMAIN line : line[i].kind # "none"
  /\ \A i \in 2 .. Len(line) : line[i].kind = "copy" /\ \A r \in Range(line[i].redirs) : r.type = ">"

\* A line comes to its end, however little a pipe holds: nobody waits for an end of input
\* that does not come, and the shell not for a command that cannot end.
EveryLineEnds ==
  (sh.pc \notin {"prompt", "gone"} /\ ~marred /\ ReadsOn(sh.line)) ~> sh.pc \in {"prompt", "gone"}
=============================================================================
