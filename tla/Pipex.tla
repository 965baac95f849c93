------------------------------- MODULE Pipex --------------------------------
(***************************************************************************)
(* 42_pipex: file1 cmd1 cmd2 file2, "< file1 cmd1 | cmd2 > file2" with two *)
(* children and one pipe.  A step of the parent is a system call or the    *)
(* closes between two of them; a child wires itself and becomes its        *)
(* command, which reads and writes units.                                  *)
(***************************************************************************)
EXTENDS Integers, Descriptors

CONSTANTS
  Firsts, Seconds,  \* kinds of the two commands: "gen", "copy", "head", "missing" or "broken"
  PipeSize,         \* units the pipe can hold
  Volume            \* units in file1, and a command writes of its own

VARIABLES
  parent,  \* pc, status, and the descriptors of its struct: in, out, fds
  kind,    \* of each command
  child,   \* [state, left, holds] of each child
  fd,      \* the tables of the parent (0) and the children
  pipe,    \* units in the pipe
  out,     \* units in file2
  lacks    \* which of file1, file2 cannot be opened

vars == <<parent, kind, child, fd, pipe, out, lacks>>

Tty      == "tty"
In       == "file1"
Out      == "file2"
ReadEnd  == "read end"
WriteEnd == "write end"

Holders(file) == {p \in 0 .. 2 : \E d \in Fd : fd[p][d] = file}

At(pc) == parent.pc = pc

\* exit(): the descriptors of the parent are closed.
Exit(code) ==
  /\ parent' = [parent EXCEPT !.pc = "gone", !.status = code]
  /\ fd' = [fd EXCEPT ![0] = Closed]
  /\ UNCHANGED <<kind, child, pipe, out, lacks>>

-----------------------------------------------------------------------------
(* The parent.                                                                  *)

\* open_file(): file2 is made empty before file1 is looked for.
OpenOut ==
  /\ At("start") /\ Out \notin lacks
  /\ parent' = [parent EXCEPT !.pc = "in", !.out = Lowest(fd[0])]
  /\ fd' = [fd EXCEPT ![0] = Put(@, Lowest(@), Out)]
  /\ out' = 0
  /\ UNCHANGED <<kind, child, pipe, lacks>>

OpenIn ==
  /\ At("in") /\ In \notin lacks
  /\ parent' = [parent EXCEPT !.pc = "pipe", !.in = Lowest(fd[0])]
  /\ fd' = [fd EXCEPT ![0] = Put(@, Lowest(@), In)]
  /\ UNCHANGED <<kind, child, pipe, out, lacks>>

OpenFails == ((At("start") /\ Out \in lacks) \/ (At("in") /\ In \in lacks)) /\ Exit(1)

\* pipe(); extract_path() exits when there is no PATH.
Pipe ==
  /\ At("pipe")
  /\ \E r, w \in Unused(fd[0]) :
       /\ r < w /\ \A d \in Unused(fd[0]) : d < w => d = r
       /\ parent' = [parent EXCEPT !.pc = "fork1", !.fds = <<r, w>>]
       /\ fd' = [fd EXCEPT ![0] = [@ EXCEPT ![r] = ReadEnd, ![w] = WriteEnd]]
  /\ UNCHANGED <<kind, child, pipe, out, lacks>>

PipeFails == At("pipe") /\ Exit(1)
NoPath    == At("fork1") /\ Exit(127)

\* multi_processes(): fork(), and the child is about to wire itself.
Fork(i, from, to) ==
  /\ At(from)
  /\ parent' = [parent EXCEPT !.pc = to]
  /\ child' = [child EXCEPT ![i].state = "forked"]
  /\ fd' = [fd EXCEPT ![i] = fd[0]]
  /\ UNCHANGED <<kind, pipe, out, lacks>>

ForkFails == (At("fork1") \/ At("fork2")) /\ Exit(1)

\* Between the forks the parent closes the write end, or a child that reads would wait
\* for its own parent.
CloseBetween(t) == Close(Close(t, parent.fds[2]), parent.in)

Between ==
  /\ At("between")
  /\ parent' = [parent EXCEPT !.pc = "fork2"]
  /\ fd' = [fd EXCEPT ![0] = CloseBetween(@)]
  /\ UNCHANGED <<kind, child, pipe, out, lacks>>

\* The two waitpid(): for the first child, then for the second.  The read end is still
\* open in the parent.
Code(i) == CASE kind[i] = "missing" -> 127 [] kind[i] = "broken" -> 1 [] OTHER -> 0

\* mutant: the status is that of whoever is waited for first
Wait_first(i, from, to) ==
  /\ At(from) /\ child[i].state = "exited"
  /\ parent' = [parent EXCEPT !.pc = to, !.status = IF i = 1 THEN Code(1) ELSE @]
  /\ UNCHANGED <<kind, child, fd, pipe, out, lacks>>

Wait(i, from, to) ==
  /\ At(from) /\ child[i].state = "exited"
  /\ parent' = [parent EXCEPT !.pc = to, !.status = IF i = 2 THEN Code(2) ELSE @]
  /\ UNCHANGED <<kind, child, fd, pipe, out, lacks>>

End == At("end") /\ Exit(parent.status)

ParentStep ==
  \/ OpenOut \/ OpenIn \/ OpenFails \/ Pipe \/ PipeFails \/ NoPath
  \/ Fork(1, "fork1", "between") \/ Between \/ Fork(2, "fork2", "wait1") \/ ForkFails
  \/ Wait(1, "wait1", "wait2") \/ Wait(2, "wait2", "end") \/ End

-----------------------------------------------------------------------------
(* The children.                                                                *)

\* read_process() and write_process(): a command that is not found ends at once.
Wired(i, t) ==
  IF i = 1 THEN Close(Close(Close(Dup2(Dup2(t, parent.in, 0), parent.fds[2], 1), parent.fds[1]), parent.fds[2]), parent.in)
  ELSE Close(Close(Close(Dup2(Dup2(t, parent.out, 1), parent.fds[1], 0), parent.fds[2]), parent.fds[1]), parent.out)

Runs(i) == child[i].state = "runs"

Become(i) ==
  /\ child[i].state = "forked" /\ kind[i] \in {"gen", "copy", "head"}
  /\ child' = [child EXCEPT ![i] = [state |-> "runs", left |-> IF kind[i] = "head" THEN 1 ELSE Volume,
                                    holds |-> kind[i] = "gen"]]
  /\ fd' = [fd EXCEPT ![i] = Wired(i, @)]
  /\ UNCHANGED <<parent, kind, pipe, out, lacks>>

BecomeFails(i) ==
  /\ child[i].state = "forked" /\ kind[i] \in {"missing", "broken"}
  /\ child' = [child EXCEPT ![i].state = "exited"]
  /\ fd' = [fd EXCEPT ![i] = Closed]
  /\ UNCHANGED <<parent, kind, pipe, out, lacks>>

Reads(i) == Runs(i) /\ ~child[i].holds /\ kind[i] # "gen" /\ (kind[i] = "head" => child[i].left > 0)

AtEnd(i) == IF fd[i][0] = ReadEnd THEN pipe = 0 /\ Holders(WriteEnd) = {} ELSE child[i].left = 0

Read(i) ==
  /\ Reads(i) /\ (IF fd[i][0] = ReadEnd THEN pipe > 0 ELSE child[i].left > 0)
  /\ pipe' = IF fd[i][0] = ReadEnd THEN pipe - 1 ELSE pipe
  /\ child' = [child EXCEPT ![i].holds = TRUE]
  /\ UNCHANGED <<parent, kind, fd, out, lacks>>

Write(i) ==
  /\ Runs(i) /\ child[i].holds
  /\ IF fd[i][1] = WriteEnd THEN Holders(ReadEnd) # {} /\ pipe < PipeSize /\ pipe' = pipe + 1 /\ out' = out
     ELSE out' = out + 1 /\ pipe' = pipe
  /\ LET left == IF child[i].left > 0 THEN child[i].left - 1 ELSE 0
     IN  child' = [child EXCEPT ![i] = [@ EXCEPT !.left = left, !.holds = kind[i] = "gen" /\ left > 0]]
  /\ UNCHANGED <<parent, kind, fd, lacks>>

\* It is done, or it is killed by a write that nobody can read.
Done(i)   == ~child[i].holds /\ (Reads(i) => AtEnd(i))
Broken(i) == child[i].holds /\ fd[i][1] = WriteEnd /\ Holders(ReadEnd) = {}

Stop(i) ==
  /\ Runs(i) /\ (Done(i) \/ Broken(i))
  /\ child' = [child EXCEPT ![i].state = "exited"]
  /\ fd' = [fd EXCEPT ![i] = Closed]
  /\ UNCHANGED <<parent, kind, pipe, out, lacks>>

ChildStep(i) == Become(i) \/ BecomeFails(i) \/ Read(i) \/ Write(i) \/ Stop(i)

-----------------------------------------------------------------------------
\* A process may have seven descriptors, and the commands are of the kinds above.
ConstantsAssumption ==
  /\ 0 .. 6 \subseteq Fd
  /\ NONE \notin {Tty, In, Out, ReadEnd, WriteEnd}
  /\ Firsts \cup Seconds \subseteq {"gen", "copy", "head", "missing", "broken"}
  /\ PipeSize \in Nat /\ Volume \in Nat \ {0}

Init ==
  /\ parent = [pc |-> "start", status |-> 0, in |-> -1, out |-> -1, fds |-> <<-1, -1>>]
  /\ kind \in Firsts \X Seconds
  /\ child = [i \in {1, 2} |-> [state |-> "none", left |-> 0, holds |-> FALSE]]
  /\ fd = [p \in 0 .. 2 |-> IF p = 0 THEN [d \in Fd |-> IF d < 3 THEN Tty ELSE NONE] ELSE Closed]
  /\ pipe = 0 /\ out = Volume
  /\ lacks \in SUBSET {In, Out}

Next == ParentStep \/ \E i \in {1, 2} : ChildStep(i)

Spec == Init /\ [][Next]_vars

\* Every process goes on when it can.
FairSpec == Spec /\ WF_vars(ParentStep) /\ \A i \in {1, 2} : WF_vars(ChildStep(i))

-----------------------------------------------------------------------------
(* Properties *)

\* The second command reads to the end of its input, or there is no more than the pipe holds.
Modest == kind[2] = "copy" \/ kind[1] \in {"missing", "broken", "head"} \/ Volume =< PipeSize

\* When it is over without a failure, what the first command wrote has gone through the
\* second into file2, the status is that of the second, and no descriptor of the pipe is
\* left: neither in the parent, where all are closed, nor in a child that still runs.
Sent == IF kind[1] \in {"gen", "copy"} THEN Volume ELSE IF kind[1] = "head" THEN 1 ELSE 0
Kept == CASE kind[2] = "copy" -> Sent [] kind[2] = "gen" -> Volume
          [] kind[2] = "head" -> (IF Sent > 0 THEN 1 ELSE 0) [] OTHER -> 0
PairIsRun ==
  At("end") => parent.status = Code(2) /\ out = Kept /\ Holders(WriteEnd) = {}

\* pipex comes to its end although it waits for the first command before the second and
\* keeps the read end of the pipe open meanwhile, unless the first one writes more than
\* the pipe holds and the second does not read it.
EveryPairEnds == Modest ~> At("gone")
=============================================================================
