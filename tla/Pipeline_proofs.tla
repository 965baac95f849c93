-------------------------- MODULE Pipeline_proofs --------------------------
(* Proofs about Pipeline, for lines of any length with any redirections, and    *)
(* about Pipex, for any two commands.                                           *)
EXTENDS Pipeline, SequenceTheorems, WellFoundedInduction, TLAPS

USE DEF Shell

-----------------------------------------------------------------------------
(* Numbers and files.                                                          *)

\* Min() of a set of numbers is one of them.
LEMMA MinIn ==
  ASSUME NEW S \in SUBSET Nat, S # {}
  PROVE  Min(S) \in S
<1>1. PICK x \in S : \A y \in S : ~(<<y, x>> \in OpToRel(<, Nat))
  BY NatLessThanWellFounded, WFMin
<1>2. \A y \in S : ~(y < x)
  <2> SUFFICES ASSUME NEW y \in S PROVE ~(y < x)
    OBVIOUS
  <2>1. x \in Nat /\ y \in Nat /\ ~(<<y, x>> \in OpToRel(<, Nat))
    BY <1>1
  <2> QED BY <2>1, Zenon DEF OpToRel
<1>3. \A y \in S : x =< y
  BY <1>2
<1> QED BY <1>3 DEF Min

\* Max() of a set is the one that none exceeds.
LEMMA MaxIs ==
  ASSUME NEW S \in SUBSET Int, NEW m \in S, \A y \in S : y <= m
  PROVE  Max(S) = m
<1>1. m \in S /\ \A y \in S : m >= y
  OBVIOUS
<1>2. ASSUME NEW x \in S, \A y \in S : x >= y PROVE x = m
  BY <1>1, <1>2
<1> QED BY <1>1, <1>2 DEF Max

\* The files a descriptor can be open on are different ones.
LEMMA FilesDiffer ==
  /\ \A i \in Cmd : /\ ReadEnd(i) # Tty /\ WriteEnd(i) # Tty /\ WriteEnd(i) # Heredoc
                    /\ \A n : WriteEnd(i) # File(n)
                    /\ \A k \in Cmd : WriteEnd(i) # ReadEnd(k)
                    /\ \A k \in Cmd : WriteEnd(i) = WriteEnd(k) => i = k
  BY DEF Tty, Heredoc, File, ReadEnd, WriteEnd

\* Commands are numbered from one.
LEMMA CmdNat == Cmd \subseteq Nat \ {0} /\ \A line \in Lines : DOMAIN line \subseteq Cmd
<1>1. \A line \in Lines : DOMAIN line = 1 .. Len(line) /\ Len(line) \in Nat
  BY LinesAssumption
<1> QED BY <1>1 DEF Cmd

\* Nine numbers do not use up ten.
LEMMA OneIsLeft ==
  ASSUME NEW a, NEW b, NEW c, NEW d, NEW e, NEW f
  PROVE  \E n \in 0 .. 9 : n \notin {0, 1, 2, a, b, c, d, e, f}
  OBVIOUS

-----------------------------------------------------------------------------
(* What the calls make of a table.                                              *)

Cells == [Fd -> Opens \cup {NONE}]

\* A number of a table is set, or none is.
LEMMA PutAt ==
  ASSUME NEW t \in Cells, NEW d, NEW file \in Opens \cup {NONE}
  PROVE  /\ Put(t, d, file) \in Cells
         /\ \A e \in Fd : Put(t, d, file)[e] = IF e = d THEN file ELSE t[e]
  BY DEF Put, Cells

\* close()
LEMMA CloseAt ==
  ASSUME NEW t \in Cells, NEW d
  PROVE  /\ Close(t, d) \in Cells
         /\ \A e \in Fd : Close(t, d)[e] = IF e = d THEN NONE ELSE t[e]
  BY PutAt DEF Close

\* dup2()
LEMMA Dup2At ==
  ASSUME NEW t \in Cells, NEW a, NEW b
  PROVE  /\ Dup2(t, a, b) \in Cells
         /\ \A e \in Fd : Dup2(t, a, b)[e] = IF e = b /\ IsOpen(t, a) THEN t[a] ELSE t[e]
<1>1. IsOpen(t, a) => t[a] \in Opens \cup {NONE}
  BY DEF IsOpen, Cells
<1> QED BY <1>1, PutAt DEF Dup2

\* dup2() and close()
LEMMA MoveAt ==
  ASSUME NEW t \in Cells, NEW a, NEW b
  PROVE  /\ Move(t, a, b) \in Cells
         /\ \A e \in Fd : Move(t, a, b)[e] =
              IF e = a THEN NONE ELSE IF e = b /\ IsOpen(t, a) THEN t[a] ELSE t[e]
  BY Dup2At, CloseAt DEF Move

\* assign_and_close()
LEMMA AssignedAt ==
  ASSUME NEW t \in Cells, NEW old, NEW new
  PROVE  /\ Assigned(t, old, new) \in Cells
         /\ \A e \in Fd : Assigned(t, old, new)[e] =
              IF new > -1 /\ old > 1 /\ e = old THEN NONE ELSE t[e]
  BY CloseAt DEF Assigned

\* open() and dup() give a number that is not used, when there is one.
LEMMA LowestIn ==
  ASSUME NEW t \in Cells, NEW n \in Fd, t[n] = NONE
  PROVE  Lowest(t) \in Fd /\ t[Lowest(t)] = NONE
<1>1. Unused(t) \in SUBSET Nat /\ Unused(t) # {}
  BY FdAssumption DEF Unused
<1>2. Min(Unused(t)) \in Unused(t)
  BY <1>1, MinIn
<1> QED BY <1>1, <1>2 DEF Lowest, Unused

\* Descriptors are numbers.
LEMMA FdNat == Fd \subseteq Nat /\ Fd \subseteq Int
  BY FdAssumption

\* open() and dup() give a number or -1.
LEMMA LowestType == \A t \in Cells : Lowest(t) \in Int
<1> SUFFICES ASSUME NEW t \in Cells PROVE Lowest(t) \in Int
  OBVIOUS
<1>1. CASE Unused(t) = {}
  BY <1>1 DEF Lowest
<1>2. CASE Unused(t) # {}
  <2>1. PICK n \in Fd : t[n] = NONE
    BY <1>2 DEF Unused
  <2>2. Lowest(t) \in Fd
    BY <2>1, LowestIn
  <2> QED BY <2>2, FdNat
<1> QED BY <1>1, <1>2

-----------------------------------------------------------------------------
(* The inductive invariant.                                                    *)

Places == {"prompt", "pipe", "originals", "wire", "start", "restore", "next", "wait", "gone"}

TypeOK ==
  /\ sh \in [pc : Places, line : Lines \cup {<<>>}, i : Nat, prev : Int, fds : Int \X Int,
             redirs : Seq(Redirection), in : Int, out : Int, tin : Int, tout : Int,
             oin : Int, oout : Int, last : Nat, status : Nat]
  /\ proc \in [Cmd -> [state : {"none", "runs", "exited"}, kind : Kinds, left : Nat, holds : BOOLEAN]]
  /\ fd \in [{Shell} \cup Cmd -> Cells]
  /\ absent \in SUBSET Files
  /\ marred \in BOOLEAN

-----------------------------------------------------------------------------
(* Where the shell is in the line.                                            *)

LineOK ==
  /\ sh.pc # "prompt" => sh.line \in Lines /\ sh.i \in DOMAIN sh.line
  /\ sh.pc = "prompt" => sh.i = 1 /\ sh.prev = -1 /\ sh.last = 0
  /\ sh.pc = "originals" => ~IsLast
  /\ sh.pc = "wait" => IsLast
  /\ sh.pc \in {"restore", "next"} => Command.kind # "exit"
  /\ sh.pc \in {"start", "restore"} \/ (sh.pc = "next" /\ ~marred) => Command.kind # "none"

\* A command runs from its start, and is waited for before the next line.
ChildrenOK ==
  \A i \in Cmd : proc[i].state # "none" =>
    /\ sh.pc # "prompt" /\ i <= sh.i
    /\ i = sh.i => sh.pc \in {"restore", "next", "wait"}

\* The status is the last command's as soon as that has started: its process has not
\* been waited for, or it is its exit code.
StatusOK ==
  /\ sh.pc \in {"pipe", "originals", "wire", "start"} \/ (sh.pc # "gone" /\ ~IsLast) => sh.last = 0
  /\ sh.pc \in {"restore", "next", "wait"} /\ IsLast /\ Command.kind # "none" =>
       IF Command.kind = "builtin" THEN sh.last = 0 /\ sh.status = 0
       ELSE /\ sh.last = sh.i
            /\ proc[sh.i].kind = Command.kind \/ proc[sh.i].state = "none"
            /\ proc[sh.i].state = "none" => sh.status = ExitCode(Command.kind)

-----------------------------------------------------------------------------
(* The table of the shell.                                                     *)

Std == {0, 1, 2}
Numbers(s) == \A d \in Fd : fd[Shell][d] # NONE => d \in s     \* what is open is of s

\* The numbers the shell counts on in a turn: its own, the pipe before the command,
\* the pipe behind it and the copies of its input and output.
Ends   == IF IsLast THEN {} ELSE {sh.fds[1], sh.fds[2]}
Copies == {sh.oin, sh.oout}
Kept   == Std \cup {sh.prev} \cup Ends \cup Copies

PrevOK ==
  /\ sh.prev = -1 <=> sh.i = 1
  /\ sh.i # 1 => sh.prev \in Fd \ Std
EndsOK ==
  ~IsLast => /\ sh.fds[1] \in Fd \ (Std \cup {sh.prev})
             /\ sh.fds[2] \in Fd \ (Std \cup {sh.prev, sh.fds[1]})
CopiesOK ==
  /\ sh.oin \in Fd \ (Std \cup {sh.prev} \cup Ends)
  /\ sh.oout \in Fd \ (Std \cup {sh.prev} \cup Ends \cup {sh.oin})
RedirsOK ==
  /\ sh.in \in (Fd \ Kept) \cup {0}
  /\ sh.out \in (Fd \ Kept) \cup {1}

IsTty(s) == \A d \in s \cap Fd : fd[Shell][d] = Tty
AtPrev == sh.i # 1 => fd[Shell][sh.prev] = ReadEnd(sh.i - 1)
AtRead == ~IsLast => fd[Shell][sh.fds[1]] = ReadEnd(sh.i)
AtWrite == ~IsLast => fd[Shell][sh.fds[2]] = WriteEnd(sh.i)

\* What the table is where: before the pipe, before the copies, while files are opened,
\* when the command may start, and when what was made for it is closed.
AtPipe == PrevOK /\ IsTty(Std) /\ AtPrev /\ Numbers(Std \cup {sh.prev})
AtOriginals ==
  /\ PrevOK /\ EndsOK /\ IsTty(Std) /\ AtPrev /\ AtRead /\ AtWrite
  /\ Numbers(Std \cup {sh.prev} \cup Ends)
AtWire ==
  /\ PrevOK /\ EndsOK /\ CopiesOK /\ RedirsOK /\ IsTty(Std \cup Copies) /\ AtPrev /\ AtRead /\ AtWrite
  /\ Numbers(Kept \cup {sh.in, sh.out})
  /\ sh.tin \in (Fd \ Kept) \cup {0, -1} /\ sh.tout \in (Fd \ Kept) \cup {1, -1}
  /\ \A d \in {sh.in, sh.out} \ {0, 1} : \A k \in Cmd : fd[Shell][d] # WriteEnd(k)
OnlyOwn == \A d \in Fd, k \in Cmd : fd[Shell][d] = WriteEnd(k) => k = sh.i
AtStart ==
  PrevOK /\ EndsOK /\ CopiesOK /\ RedirsOK /\ IsTty({2} \cup Copies) /\ AtRead /\ Numbers(Kept) /\ OnlyOwn
AtNext ==
  PrevOK /\ EndsOK /\ IsTty(Std) /\ AtRead /\ Numbers(Std \cup {sh.prev} \cup Ends) /\ OnlyOwn

TableOK ==
  /\ sh.pc \in {"prompt", "wait"} => fd[Shell] = NewTable
  /\ sh.pc = "gone" => fd[Shell] = Closed
  /\ sh.pc = "pipe" => AtPipe
  /\ sh.pc = "originals" => AtOriginals
  /\ sh.pc = "wire" => AtWire
  /\ sh.pc \in {"start", "restore"} => AtStart
  /\ sh.pc = "next" => AtNext

-----------------------------------------------------------------------------
(* The redirections.                                                           *)

\* The redirections of the command that have been done.
Turn == Len(Command.redirs) - Len(sh.redirs)
Done(types) == {j \in Opened(sh.i, types) : j <= Turn}

\* d is open on the last file they name.
IsOn(d, types) ==
  fd[Shell][d] # NONE /\ fd[Shell][d] = Target(Command.redirs[Max(Done(types))])

WiringOK ==
  sh.pc = "wire" =>
    /\ sh.redirs = SubSeq(Command.redirs, Turn + 1, Len(Command.redirs))
    /\ Turn \in 0 .. Len(Command.redirs)
    /\ OneWay(Command.redirs) =>
         /\ IF Done({"<", "<<"}) = {} THEN sh.in = 0
            ELSE sh.in # 0 /\ IsOn(sh.in, {"<", "<<"})
         /\ IF Done({">"}) = {} THEN sh.out = 1
            ELSE sh.out # 1 /\ IsOn(sh.out, {">"})
         /\ (\A j \in DOMAIN Command.redirs : Command.redirs[j].type # ">") => sh.tout = 1 /\ sh.out = 1
         /\ (\A j \in DOMAIN Command.redirs : Command.redirs[j].type = ">") => sh.tin = 0 /\ sh.in = 0

WiredOK ==
  /\ sh.pc = "start" /\ OneWay(Command.redirs) =>
       fd[Shell][0] = Input(sh.i) /\ fd[Shell][1] = Output(sh.i)
  /\ \A i \in Cmd : proc[i].state = "runs" /\ OneWay(sh.line[i].redirs) =>
       fd[i][0] = Input(i) /\ fd[i][1] = Output(i)

OwnEnds == \A i \in Cmd, k \in Cmd, d \in Fd : fd[i][d] = WriteEnd(k) => k = i

IInv ==
  /\ TypeOK /\ LineOK /\ ChildrenOK /\ StatusOK
  /\ ~marred => TableOK /\ WiringOK /\ WiredOK /\ OwnEnds

-----------------------------------------------------------------------------
(* Types.                                                                       *)

\* The command of this turn is one of the line.
LEMMA CommandType ==
  ASSUME TypeOK, LineOK, sh.pc # "prompt"
  PROVE  /\ sh.line \in Seq(Commands) /\ sh.i \in DOMAIN sh.line /\ sh.i \in Cmd
         /\ Command.kind \in Kinds /\ Command.redirs \in Seq(Redirection)
<1>1. sh.line \in Lines /\ sh.i \in DOMAIN sh.line
  BY DEF LineOK
<1>2. sh.line \in Seq(Commands) /\ sh.i \in Cmd
  BY <1>1, LinesAssumption, CmdNat
<1>3. Command \in Commands
  BY <1>1, <1>2 DEF Command
<1> QED BY <1>1, <1>2, <1>3 DEF Commands

\* A redirection names something that can be opened.
LEMMA TargetType == \A r \in Redirection : Target(r) \in Opens
  BY DEF Redirection, Target, Opens

\* open() and heredoc() give a number.
LEMMA NewFdType ==
  ASSUME TypeOK, NEW r PROVE NewFd(r) \in Int
<1>1. fd[Shell] \in Cells
  BY DEF TypeOK
<1> QED BY <1>1, LowestType DEF NewFd

\* What create_original_fds() and a turn of wire_files() come to.
CopyIn  == Copied(fd[Shell], 0)
WithIn  == Put(fd[Shell], CopyIn, fd[Shell][0])
CopyOut == Copied(WithIn, 1)

LEMMA OriginalsIs ==
  ASSUME Originals
  PROVE  /\ sh.pc = "originals" \/ (sh.pc = "pipe" /\ IsLast)
         /\ sh' = [sh EXCEPT !.pc = "wire", !.redirs = Command.redirs, !.oin = CopyIn, !.oout = CopyOut,
                             !.in = 0, !.out = 1, !.tin = 0, !.tout = 1]
         /\ fd' = [fd EXCEPT ![Shell] = Put(WithIn, CopyOut, WithIn[1])]
         /\ UNCHANGED <<proc, pipe, absent, marred>>
  BY DEF Originals, CopyIn, WithIn, CopyOut

First    == Head(sh.redirs)
FirstFd  == NewFd(First)
FirstIn  == IF First.type = ">" THEN sh.tin ELSE IF First.type = "<<" /\ FirstFd = -1 THEN 0 ELSE FirstFd
FirstOut == IF First.type = ">" THEN FirstFd ELSE sh.tout

LEMMA WireFileIs ==
  ASSUME WireFile
  PROVE  /\ sh.pc = "wire" /\ sh.redirs # <<>>
         /\ sh' = [sh EXCEPT !.redirs = Tail(sh.redirs), !.tin = FirstIn, !.tout = FirstOut,
                             !.in = IF FirstIn > -1 THEN FirstIn ELSE sh.in,
                             !.out = IF FirstOut > -1 THEN FirstOut ELSE sh.out]
         /\ fd' = [fd EXCEPT ![Shell] = Assigned(Assigned(Put(fd[Shell], FirstFd, Target(First)),
                                                         sh.in, FirstIn), sh.out, FirstOut)]
         /\ UNCHANGED <<proc, pipe, absent, marred>>
<1>1. PICK r \in {Head(sh.redirs)}, d \in {NewFd(Head(sh.redirs))} :
        \E tin  \in {IF r.type = ">" THEN sh.tin ELSE IF r.type = "<<" /\ d = -1 THEN 0 ELSE d} :
        \E tout \in {IF r.type = ">" THEN d ELSE sh.tout} :
          /\ sh' = [sh EXCEPT !.redirs = Tail(@), !.tin = tin, !.tout = tout,
                              !.in = IF tin > -1 THEN tin ELSE @, !.out = IF tout > -1 THEN tout ELSE @]
          /\ fd' = [fd EXCEPT ![Shell] = Assigned(Assigned(Put(@, d, Target(r)), sh.in, tin), sh.out, tout)]
  BY Zenon DEF WireFile
<1>2. r = First /\ d = FirstFd
  BY DEF First, FirstFd
<1>3. PICK tin \in {IF r.type = ">" THEN sh.tin ELSE IF r.type = "<<" /\ d = -1 THEN 0 ELSE d} :
        \E tout \in {IF r.type = ">" THEN d ELSE sh.tout} :
          /\ sh' = [sh EXCEPT !.redirs = Tail(@), !.tin = tin, !.tout = tout,
                              !.in = IF tin > -1 THEN tin ELSE @, !.out = IF tout > -1 THEN tout ELSE @]
          /\ fd' = [fd EXCEPT ![Shell] = Assigned(Assigned(Put(@, d, Target(r)), sh.in, tin), sh.out, tout)]
  BY <1>1, Zenon
<1>4. tin = FirstIn
  BY <1>2 DEF FirstIn
<1>5. PICK tout \in {IF r.type = ">" THEN d ELSE sh.tout} :
          /\ sh' = [sh EXCEPT !.redirs = Tail(@), !.tin = tin, !.tout = tout,
                              !.in = IF tin > -1 THEN tin ELSE @, !.out = IF tout > -1 THEN tout ELSE @]
          /\ fd' = [fd EXCEPT ![Shell] = Assigned(Assigned(Put(@, d, Target(r)), sh.in, tin), sh.out, tout)]
  BY <1>3, Zenon
<1>6. tout = FirstOut
  BY <1>2 DEF FirstOut
<1>7. sh.pc = "wire" /\ sh.redirs # <<>> /\ UNCHANGED <<proc, pipe, absent, marred>>
  BY DEF WireFile
<1> QED BY <1>2, <1>4, <1>5, <1>6, <1>7, Zenon

Shells == [pc : Places, line : Lines \cup {<<>>}, i : Nat, prev : Int, fds : Int \X Int,
           redirs : Seq(Redirection), in : Int, out : Int, tin : Int, tout : Int,
           oin : Int, oout : Int, last : Nat, status : Nat]

\* What is set in the shell keeps its type.
LEMMA ShellsKept ==
  /\ \A s \in Shells : \A p \in Places : [s EXCEPT !.pc = p] \in Shells
  /\ \A s \in Shells : \A q \in Seq(Redirection), a, b \in Int :
       [s EXCEPT !.redirs = q, !.oin = a, !.oout = b] \in Shells
  /\ \A s \in Shells : \A q \in Seq(Redirection), a, b \in Int :
       [s EXCEPT !.redirs = q, !.tin = a, !.tout = b] \in Shells
  /\ \A s \in Shells : \A a, b \in Int : [s EXCEPT !.in = a, !.out = b] \in Shells
  /\ \A s \in Shells : \A a, b \in Int : [s EXCEPT !.in = a, !.out = b, !.tin = a, !.tout = b] \in Shells
  /\ \A s \in Shells : \A a \in Int, n \in Nat : [s EXCEPT !.prev = a, !.i = n] \in Shells
  /\ \A s \in Shells : \A n \in Nat : [s EXCEPT !.status = n] \in Shells
<1>1. \A s \in Shells : \A p \in Places : [s EXCEPT !.pc = p] \in Shells
  BY DEF Shells
<1>2. \A s \in Shells : \A q \in Seq(Redirection), a, b \in Int :
       [s EXCEPT !.redirs = q, !.oin = a, !.oout = b] \in Shells
  BY DEF Shells
<1>3. \A s \in Shells : \A q \in Seq(Redirection), a, b \in Int :
       [s EXCEPT !.redirs = q, !.tin = a, !.tout = b] \in Shells
  BY DEF Shells
<1>4. \A s \in Shells : \A a, b \in Int : [s EXCEPT !.in = a, !.out = b] \in Shells
  BY DEF Shells
<1>5. \A s \in Shells : \A a, b \in Int : [s EXCEPT !.in = a, !.out = b, !.tin = a, !.tout = b] \in Shells
  BY DEF Shells
<1>6. \A s \in Shells : \A a \in Int, n \in Nat : [s EXCEPT !.prev = a, !.i = n] \in Shells
  BY DEF Shells
<1>7. \A s \in Shells : \A n \in Nat : [s EXCEPT !.status = n] \in Shells
  BY DEF Shells
<1> QED BY <1>1, <1>2, <1>3, <1>4, <1>5, <1>6, <1>7

\* A new line has the types.
LEMMA NewLineType == NewLine \in Shells
  BY DEF NewLine, Places, Shells

\* A shell that has just started has the types.
LEMMA TypeInit == Init => TypeOK
<1> SUFFICES ASSUME Init PROVE TypeOK
  OBVIOUS
<1>1. NewTable \in Cells /\ Closed \in Cells
  BY DEF NewTable, Closed, Cells, Opens
<1>2. fd \in [{Shell} \cup Cmd -> Cells]
  BY <1>1 DEF Init
<1> QED BY <1>2, NewLineType DEF Init, TypeOK, NoProcess, Kinds, Shells

\* Every step keeps the types.
LEMMA TypeStep ==
  ASSUME TypeOK, LineOK, [Next]_vars
  PROVE  TypeOK'
<1> DEFINE Procs == [Cmd -> [state : {"none", "runs", "exited"}, kind : Kinds, left : Nat, holds : BOOLEAN]]
           Tables == [{Shell} \cup Cmd -> Cells]
<1>0. /\ sh \in Shells /\ proc \in Procs /\ fd \in Tables /\ fd[Shell] \in Cells
      /\ absent \in SUBSET Files /\ marred \in BOOLEAN
  BY DEF TypeOK, Shells
<1>a. ASSUME NEW t \in Cells PROVE [fd EXCEPT ![Shell] = t] \in Tables
  BY <1>0
<1>b. Closed \in Cells
  BY DEF Closed, Cells
<1>c. ASSUME Quit PROVE TypeOK'
  <2>1. sh' \in Shells
    BY <1>0, <1>c DEF Quit, Goto, Places, Shells
  <2>2. fd' \in Tables
    BY <1>a, <1>b, <1>c DEF Quit, Goto
  <2> QED BY <1>0, <1>c, <2>1, <2>2 DEF TypeOK, Quit, Shells
<1>1. CASE Pipe
  <2>1. PICK r, w \in Unused(fd[Shell]) :
          /\ sh' = [sh EXCEPT !.pc = "originals", !.fds = <<r, w>>]
          /\ fd' = [fd EXCEPT ![Shell] = [@ EXCEPT ![r] = ReadEnd(sh.i), ![w] = WriteEnd(sh.i)]]
    BY <1>1 DEF Pipe
  <2>2. r \in Fd /\ w \in Fd /\ r \in Int /\ w \in Int
    BY FdNat DEF Unused
  <2>3. sh.i \in Cmd
    BY <1>1, CommandType DEF Pipe
  <2>4. sh' \in Shells
    BY <1>0, <2>1, <2>2 DEF Places, Shells
  <2>5. ReadEnd(sh.i) \in Opens /\ WriteEnd(sh.i) \in Opens
    BY <2>3 DEF Opens
  <2>6. fd' \in Tables
    BY <1>0, <2>1, <2>2, <2>5 DEF Cells
  <2> QED BY <1>0, <1>1, <2>4, <2>6 DEF TypeOK, Pipe, Shells
<1>2. CASE PipeFails
  BY <1>2, <1>c DEF PipeFails
<1>3. CASE Originals
  <2>1. 0 \in Fd /\ 1 \in Fd
    BY FdAssumption
  <2>2. fd[Shell][0] \in Opens \cup {NONE} /\ WithIn \in Cells
    BY <1>0, <2>1, PutAt DEF Cells, WithIn
  <2>3. WithIn[1] \in Opens \cup {NONE}
    BY <2>1, <2>2 DEF Cells
  <2>4. Put(WithIn, CopyOut, WithIn[1]) \in Cells
    BY <2>2, <2>3, PutAt
  <2>5. CopyIn \in Int /\ CopyOut \in Int
    BY <1>0, <2>2, LowestType DEF Copied, CopyIn, CopyOut
  <2>6. Command.redirs \in Seq(Redirection)
    BY <1>3, CommandType DEF Originals
  <2>7. /\ sh' = [[[[sh EXCEPT !.pc = "wire"] EXCEPT !.redirs = Command.redirs, !.oin = CopyIn, !.oout = CopyOut]
                      EXCEPT !.in = 0, !.out = 1] EXCEPT !.tin = 0, !.tout = 1]
        /\ fd' = [fd EXCEPT ![Shell] = Put(WithIn, CopyOut, WithIn[1])]
        /\ UNCHANGED <<proc, absent, marred>>
    BY <1>3, OriginalsIs
  <2>8. [sh EXCEPT !.pc = "wire"] \in Shells
    BY <1>0, ShellsKept DEF Places
  <2>9. [[sh EXCEPT !.pc = "wire"] EXCEPT !.redirs = Command.redirs, !.oin = CopyIn, !.oout = CopyOut] \in Shells
    BY <2>5, <2>6, <2>8, ShellsKept
  <2>10. PICK s \in Shells :
           s = [[sh EXCEPT !.pc = "wire"] EXCEPT !.redirs = Command.redirs, !.oin = CopyIn, !.oout = CopyOut]
    BY <2>9
  <2>12. sh' \in Shells
    <3>1. PICK a \in Int, b \in Int : a = 0 /\ b = 1
      OBVIOUS
    <3>2. sh' = [s EXCEPT !.in = a, !.out = b, !.tin = a, !.tout = b]
      BY <2>7, <2>10, <3>1
    <3> QED BY <3>2, ShellsKept
  <2>11. fd' \in Tables
    BY <1>a, <2>4, <2>7
  <2> QED BY <1>0, <2>7, <2>11, <2>12 DEF TypeOK, Shells
<1>4. CASE WireFile
  <2>1. /\ sh.redirs # <<>>
        /\ sh' = [[sh EXCEPT !.redirs = Tail(sh.redirs), !.tin = FirstIn, !.tout = FirstOut]
                     EXCEPT !.in = IF FirstIn > -1 THEN FirstIn ELSE sh.in,
                            !.out = IF FirstOut > -1 THEN FirstOut ELSE sh.out]
        /\ fd' = [fd EXCEPT ![Shell] = Assigned(Assigned(Put(fd[Shell], FirstFd, Target(First)),
                                                        sh.in, FirstIn), sh.out, FirstOut)]
        /\ UNCHANGED <<proc, absent, marred>>
    BY <1>4, WireFileIs
  <2>2. First \in Redirection /\ Tail(sh.redirs) \in Seq(Redirection)
    BY <1>0, <2>1 DEF First, Shells
  <2>3. FirstFd \in Int /\ sh.tin \in Int /\ sh.tout \in Int /\ sh.in \in Int /\ sh.out \in Int
    BY <1>0, NewFdType DEF FirstFd, Shells
  <2>4. FirstIn \in Int /\ FirstOut \in Int
    BY <2>3 DEF FirstIn, FirstOut
  <2>5. [sh EXCEPT !.redirs = Tail(sh.redirs), !.tin = FirstIn, !.tout = FirstOut] \in Shells
    BY <1>0, <2>2, <2>4, ShellsKept
  <2>6. sh' \in Shells
    BY <2>1, <2>3, <2>4, <2>5, ShellsKept
  <2>7. Put(fd[Shell], FirstFd, Target(First)) \in Cells
    BY <1>0, <2>2, TargetType, PutAt
  <2>8. Assigned(Assigned(Put(fd[Shell], FirstFd, Target(First)), sh.in, FirstIn), sh.out, FirstOut) \in Cells
    BY <2>7, AssignedAt
  <2>9. fd' \in Tables
    BY <1>a, <2>1, <2>8
  <2> QED BY <1>0, <2>1, <2>6, <2>9 DEF TypeOK, Shells
<1>5. CASE Handle
  <2>1. HandleIn(fd[Shell]) \in Cells
    BY <1>0, MoveAt DEF HandleIn
  <2>2. HandleOut(HandleIn(fd[Shell])) \in Cells
    BY <2>1, MoveAt DEF HandleOut
  <2>3. fd' \in Tables
    BY <1>5, <1>a, <2>2 DEF Handle, Goto
  <2>4. sh' \in Shells
    BY <1>0, <1>5 DEF Handle, Goto, Places, Shells
  <2> QED BY <1>0, <1>5, <2>3, <2>4 DEF TypeOK, Handle, Shells
<1>6. CASE Builtin
  BY <1>0, <1>6 DEF Builtin, TypeOK, Places, Shells
<1>7. CASE Exit
  BY <1>7, <1>c DEF Exit
<1>8. CASE Fork
  <2>1. sh.i \in Cmd /\ Command.kind \in Kinds
    BY <1>8, CommandType DEF Fork
  <2>2. sh' \in Shells
    BY <1>0, <1>8 DEF Fork, Places, Shells
  <2>3. fd' \in Tables
    BY <1>0, <1>8 DEF Fork
  <2>4. [state |-> "runs", kind |-> Command.kind, left |-> IF Command.kind \in {"gen", "copy"} THEN Volume ELSE 1,
         holds |-> Command.kind \in {"gen", "missing"}]
          \in [state : {"none", "runs", "exited"}, kind : Kinds, left : Nat, holds : BOOLEAN]
    BY <2>1, SizeAssumption
  <2>5. proc' \in Procs
    BY <1>0, <1>8, <2>4 DEF Fork
  <2> QED BY <1>0, <1>8, <2>2, <2>3, <2>5 DEF TypeOK, Fork, Shells
<1>9. CASE ForkFails
  BY <1>9, <1>c DEF ForkFails
<1>10. CASE Restored
  <2>1. PICK t \in {IF Command.kind = "builtin" THEN fd[Shell] ELSE CloseEnds(fd[Shell])} : Goto("next", Restore(t))
    BY <1>10 DEF Restored
  <2>2. t \in Cells
    BY <1>0, <2>1, CloseAt DEF CloseEnds
  <2>3. Dup2(Dup2(t, sh.oout, 1), sh.oin, 0) \in Cells
    BY <2>2, Dup2At
  <2>4. Restore(t) \in Cells
    BY <2>3, CloseAt DEF Restore
  <2>5. fd' \in Tables
    BY <1>a, <2>1, <2>4 DEF Goto
  <2>6. sh' \in Shells
    BY <1>0, <2>1 DEF Goto, Places, Shells
  <2> QED BY <1>0, <1>10, <2>5, <2>6 DEF TypeOK, Restored, Shells
<1>11. CASE NextCommand
  <2>1. Close(ClosePipe(fd[Shell]), sh.prev) \in Cells
    BY <1>0, CloseAt DEF ClosePipe
  <2>2. fd' \in Tables
    BY <1>0, <1>11, <1>a, <2>1 DEF NextCommand
  <2>3. sh.fds[1] \in Int /\ sh.i + 1 \in Nat
    BY <1>0 DEF Shells
  <2>4. [sh EXCEPT !.prev = sh.fds[1], !.i = sh.i + 1] \in Shells
    BY <1>0, <2>3, ShellsKept
  <2>5. sh' \in Shells
    <3>1. CASE IsLast
      BY <1>0, <1>11, <3>1, ShellsKept DEF NextCommand, Places
    <3>2. CASE ~IsLast
      <4>1. sh' = [[sh EXCEPT !.prev = sh.fds[1], !.i = sh.i + 1] EXCEPT !.pc = "pipe"]
        BY <1>11, <3>2 DEF NextCommand
      <4> QED BY <2>4, <4>1, ShellsKept DEF Places
    <3> QED BY <3>1, <3>2
  <2> QED BY <1>0, <1>11, <2>2, <2>5 DEF TypeOK, NextCommand, Shells
<1>12. CASE WaitEnds
  <2>1. sh.status \in Nat
    BY <1>0 DEF Shells
  <2>2. sh' = [NewLine EXCEPT !.status = sh.status]
    BY <1>12 DEF WaitEnds
  <2>3. sh' \in Shells
    BY <2>1, <2>2, NewLineType, ShellsKept
  <2> QED BY <1>0, <1>12, <2>3 DEF TypeOK, WaitEnds, Shells
<1>13. ASSUME NEW i \in Cmd, Wait(i) PROVE TypeOK'
  <2>1. StatusOf(i) \in Nat
    BY <1>0 DEF StatusOf, ExitCode, Shells
  <2>2. sh' \in Shells
    BY <1>0, <1>13, <2>1 DEF Wait, Shells
  <2>3. proc' \in Procs
    BY <1>0, <1>13 DEF Wait, NoProcess, Kinds
  <2> QED BY <1>0, <1>13, <2>2, <2>3 DEF TypeOK, Wait, Shells
<1>14. CASE ReadLine
  <2>1. PICK line \in Lines : sh' = [sh EXCEPT !.pc = "pipe", !.line = line]
    BY <1>14 DEF ReadLine
  <2> DEFINE there == [sh EXCEPT !.pc = "pipe"]
  <2>3. there \in Shells /\ line \in Lines \cup {<<>>}
    BY <1>0, <2>1, ShellsKept DEF Places
  <2>4. [there EXCEPT !.line = line] \in Shells
    <3> HIDE DEF there
    <3> QED BY <2>3 DEF Shells
  <2>5. sh' = [there EXCEPT !.line = line]
    BY <2>1
  <2>6. sh' \in Shells
    BY <2>4, <2>5
  <2>2. absent' \in SUBSET Files
    BY <1>14 DEF ReadLine
  <2> QED BY <1>0, <1>14, <2>2, <2>6 DEF TypeOK, ReadLine, Shells
<1>15. ASSUME NEW i \in Cmd, CmdStep(i) PROVE TypeOK'
  <2>1. proc' \in Procs
    <3>1. ASSUME proc' = [proc EXCEPT ![i].holds = TRUE] PROVE proc' \in Procs
      BY <1>0, <3>1
    <3>2. CASE Stop(i)
      BY <1>0, <3>2 DEF Stop
    <3>3. CASE Write(i)
      <4>1. PICK left, more :
              /\ left = (IF proc[i].left > 0 THEN proc[i].left - 1 ELSE 0)
              /\ more = (proc[i].kind = "gen" /\ left > 0)
              /\ proc' = [proc EXCEPT ![i] = [@ EXCEPT !.left = left, !.holds = more]]
        BY <3>3, Zenon DEF Write
      <4>2. proc[i].left \in Nat
        BY <1>0
      <4>3. left \in Nat /\ more \in BOOLEAN
        BY <4>1, <4>2
      <4>4. proc' = [proc EXCEPT ![i] = [@ EXCEPT !.left = left, !.holds = more]]
        BY <4>1
      <4> QED BY <1>0, <4>3, <4>4
    <3> QED BY <1>15, <3>1, <3>2, <3>3 DEF CmdStep, ReadPipe, ReadFile
  <2>2. fd' \in Tables
    BY <1>0, <1>15, <1>b DEF CmdStep, ReadPipe, ReadFile, Stop, Write
  <2>3. UNCHANGED <<sh, absent, marred>>
    BY <1>15 DEF CmdStep, ReadPipe, ReadFile, Stop, Write
  <2> QED BY <1>0, <2>1, <2>2, <2>3 DEF TypeOK, Shells
<1>16. CASE UNCHANGED vars
  BY <1>16, <1>0 DEF vars, TypeOK, Shells
<1> QED BY <1>1, <1>2, <1>3, <1>4, <1>5, <1>6, <1>7, <1>8, <1>9, <1>10, <1>11, <1>12, <1>13, <1>14, <1>15, <1>16
     DEF Next, ShellStep

-----------------------------------------------------------------------------
(* The turns, the children and the status: whatever the tables are.            *)

Control == LineOK /\ ChildrenOK /\ StatusOK

\* Control holds at first.
LEMMA ControlInit == Init => Control
<1> SUFFICES ASSUME Init PROVE Control
  OBVIOUS
<1>1. sh.pc = "prompt" /\ sh.i = 1 /\ sh.prev = -1 /\ sh.last = 0 /\ sh.line = <<>>
  BY DEF Init, NewLine
<1>2. \A i \in Cmd : proc[i].state = "none"
  BY DEF Init, NoProcess
<1> QED BY <1>1, <1>2 DEF Control, LineOK, ChildrenOK, StatusOK, IsLast

\* A step within the turn of a command, before it starts or after, decides nothing.
LEMMA WithinATurn ==
  ASSUME TypeOK, Control,
         sh'.line = sh.line, sh'.i = sh.i, sh'.last = sh.last, sh'.status = sh.status,
         UNCHANGED <<proc, marred>>, sh.pc # "prompt",
         \/ sh.pc \in {"pipe", "originals", "wire"} /\ sh'.pc \in {"originals", "wire"}
         \/ sh.pc = "restore" /\ sh'.pc = "next",
         sh'.pc = "originals" => ~IsLast
  PROVE  Control'
<1>1. LineOK'
  BY DEF Control, LineOK, IsLast, Command
<1>2. ChildrenOK'
  BY DEF Control, ChildrenOK
<1>3. StatusOK'
  BY DEF Control, StatusOK, IsLast, Command
<1> QED BY <1>1, <1>2, <1>3 DEF Control

\* Every step keeps Control.
LEMMA ControlStep ==
  ASSUME TypeOK, Control, [Next]_vars
  PROVE  Control'
<1>0. LineOK /\ ChildrenOK /\ StatusOK
  BY DEF Control
<1>t. sh \in Shells /\ \A i \in Cmd : proc[i].kind \in Kinds
  BY DEF TypeOK, Shells
<1>c. sh.pc # "prompt" => sh.line \in Seq(Commands) /\ sh.i \in DOMAIN sh.line /\ sh.i \in Cmd
  BY <1>0, CommandType
<1>d. sh.pc # "prompt" => DOMAIN sh.line = 1 .. Len(sh.line) /\ Len(sh.line) \in Nat /\ sh.i \in 1 .. Len(sh.line)
  BY <1>c
<1>q. ASSUME Quit, sh.pc \in {"pipe", "start"} PROVE Control'
  <2>1. sh'.pc = "gone" /\ sh'.line = sh.line /\ sh'.i = sh.i /\ sh'.last = sh.last /\ UNCHANGED <<proc, marred>>
    BY <1>q, <1>t DEF Quit, Goto, Shells
  <2>2. LineOK'
    BY <1>0, <1>q, <2>1 DEF LineOK
  <2>3. ChildrenOK'
    BY <1>0, <1>q, <2>1 DEF ChildrenOK
  <2>4. StatusOK'
    BY <2>1 DEF StatusOK
  <2> QED BY <2>2, <2>3, <2>4 DEF Control
<1>1. CASE Pipe
  <2>1. \E r, w : sh' = [sh EXCEPT !.pc = "originals", !.fds = <<r, w>>]
    BY <1>1 DEF Pipe
  <2>2. /\ sh'.pc = "originals" /\ sh'.line = sh.line /\ sh'.i = sh.i /\ sh'.last = sh.last
        /\ sh'.status = sh.status
    BY <2>1, <1>t DEF Shells
  <2>3. sh.pc = "pipe" /\ ~IsLast /\ UNCHANGED <<proc, marred>>
    BY <1>1 DEF Pipe
  <2> QED BY <2>2, <2>3, WithinATurn
<1>2. CASE PipeFails
  BY <1>2, <1>q DEF PipeFails
<1>3. CASE Originals
  <2>1. /\ sh'.pc = "wire" /\ sh'.line = sh.line /\ sh'.i = sh.i /\ sh'.last = sh.last
        /\ sh'.status = sh.status
    BY <1>3, <1>t, OriginalsIs DEF Shells
  <2> QED BY <1>3, <2>1, OriginalsIs, WithinATurn
<1>4. CASE WireFile
  <2>1. /\ sh'.pc = "wire" /\ sh'.line = sh.line /\ sh'.i = sh.i /\ sh'.last = sh.last
        /\ sh'.status = sh.status
    BY <1>4, <1>t, WireFileIs DEF Shells
  <2> QED BY <1>4, <2>1, WireFileIs, WithinATurn
<1>5. CASE Handle
  <2>1. /\ sh.pc = "wire" /\ sh'.pc = (IF Command.kind = "none" THEN "next" ELSE "start")
        /\ sh'.line = sh.line /\ sh'.i = sh.i /\ sh'.last = sh.last /\ sh'.status = sh.status
        /\ proc' = proc /\ marred' = (marred \/ Command.kind = "none")
    BY <1>5, <1>t DEF Handle, Goto, Shells
  <2>2. LineOK'
    BY <1>0, <2>1 DEF LineOK, Command
  <2>3. ChildrenOK'
    BY <1>0, <2>1 DEF ChildrenOK
  <2>4. StatusOK'
    BY <1>0, <2>1 DEF StatusOK, IsLast, Command
  <2> QED BY <2>2, <2>3, <2>4 DEF Control
<1>6. CASE Builtin
  <2>1. /\ sh.pc = "start" /\ sh'.pc = "restore" /\ Command.kind = "builtin"
        /\ sh'.line = sh.line /\ sh'.i = sh.i /\ sh'.last = sh.last /\ sh'.status = 0
        /\ UNCHANGED <<proc, marred>>
    BY <1>6, <1>t DEF Builtin, Shells
  <2>2. LineOK'
    BY <1>0, <2>1 DEF LineOK, Command
  <2>3. ChildrenOK'
    BY <1>0, <2>1 DEF ChildrenOK
  <2>4. StatusOK'
    BY <1>0, <2>1 DEF StatusOK, IsLast, Command
  <2> QED BY <2>2, <2>3, <2>4 DEF Control
<1>7. CASE Exit
  BY <1>7, <1>q DEF Exit
<1>8. CASE Fork
  <2>1. /\ sh.pc = "start" /\ sh'.pc = "restore" /\ Command.kind \notin {"builtin", "exit"}
        /\ sh'.line = sh.line /\ sh'.i = sh.i /\ sh'.last = (IF IsLast THEN sh.i ELSE sh.last)
        /\ marred' = marred
    BY <1>8, <1>t DEF Fork, Shells
  <2>2. /\ \A i \in Cmd : i # sh.i => proc'[i] = proc[i]
        /\ proc'[sh.i].state = "runs" /\ proc'[sh.i].kind = Command.kind
    <3>1. sh.i \in Cmd /\ DOMAIN proc = Cmd
      BY <1>c, <2>1 DEF TypeOK
    <3> QED BY <1>8, <3>1 DEF Fork
  <2>3. LineOK'
    BY <1>0, <2>1 DEF LineOK, Command
  <2>4. ChildrenOK'
    BY <1>0, <1>c, <2>1, <2>2 DEF ChildrenOK
  <2>5. StatusOK'
    BY <1>0, <1>c, <2>1, <2>2 DEF StatusOK, IsLast, Command
  <2> QED BY <2>3, <2>4, <2>5 DEF Control
<1>9. CASE ForkFails
  BY <1>9, <1>q DEF ForkFails
<1>10. CASE Restored
  <2>1. /\ sh'.pc = "next" /\ sh'.line = sh.line /\ sh'.i = sh.i /\ sh'.last = sh.last
        /\ sh'.status = sh.status
    BY <1>10, <1>t DEF Restored, Goto, Shells
  <2>2. sh.pc = "restore" /\ UNCHANGED <<proc, marred>>
    BY <1>10 DEF Restored
  <2> QED BY <2>1, <2>2, WithinATurn
<1>11. CASE NextCommand
  <2>1. sh.pc = "next" /\ UNCHANGED <<proc, marred>>
    BY <1>11 DEF NextCommand
  <2>2. CASE IsLast
    <3>1. /\ sh'.pc = "wait" /\ sh'.line = sh.line /\ sh'.i = sh.i /\ sh'.last = sh.last
          /\ sh'.status = sh.status
      BY <1>11, <1>t, <2>2 DEF NextCommand, Shells
    <3>2. LineOK'
      BY <1>0, <2>1, <2>2, <3>1 DEF LineOK, IsLast
    <3>3. ChildrenOK'
      BY <1>0, <2>1, <3>1 DEF ChildrenOK
    <3>4. StatusOK'
      BY <1>0, <2>1, <2>2, <3>1 DEF StatusOK, IsLast, Command
    <3> QED BY <3>2, <3>3, <3>4 DEF Control
  <2>3. CASE ~IsLast
    <3>1. /\ sh'.pc = "pipe" /\ sh'.line = sh.line /\ sh'.i = sh.i + 1 /\ sh'.last = sh.last
      BY <1>11, <1>t, <2>3 DEF NextCommand, Shells
    <3>2. sh.i + 1 \in DOMAIN sh.line
      BY <1>d, <2>1, <2>3 DEF IsLast
    <3>3. LineOK'
      BY <1>0, <2>1, <3>1, <3>2 DEF LineOK
    <3>4. ChildrenOK'
      <4>1. Cmd \subseteq Nat /\ sh.i \in Nat
        BY <1>t, CmdNat DEF Shells
      <4> QED BY <1>0, <2>1, <3>1, <4>1 DEF ChildrenOK
    <3>5. StatusOK'
      BY <1>0, <2>1, <2>3, <3>1 DEF StatusOK
    <3> QED BY <3>3, <3>4, <3>5 DEF Control
  <2> QED BY <2>2, <2>3
<1>12. CASE WaitEnds
  <2>1. /\ sh'.pc = "prompt" /\ sh'.line = <<>> /\ sh'.i = 1 /\ sh'.prev = -1 /\ sh'.last = 0
        /\ UNCHANGED <<proc, marred>>
    BY <1>12 DEF WaitEnds, NewLine
  <2>2. \A i \in Cmd : proc[i].state = "none"
    BY <1>12 DEF WaitEnds, Children
  <2>3. LineOK'
    BY <2>1 DEF LineOK
  <2>4. ChildrenOK'
    BY <2>1, <2>2 DEF ChildrenOK
  <2>5. StatusOK'
    BY <2>1 DEF StatusOK, IsLast
  <2> QED BY <2>3, <2>4, <2>5 DEF Control
<1>13. ASSUME NEW i \in Cmd, Wait(i) PROVE Control'
  <2>1. /\ sh.pc = "wait" /\ sh'.pc = "wait" /\ sh'.line = sh.line /\ sh'.i = sh.i /\ sh'.last = sh.last
        /\ sh'.status = StatusOf(i) /\ marred' = marred /\ proc[i].state = "exited"
    BY <1>13, <1>t DEF Wait, Shells
  <2>2. /\ \A k \in Cmd : k # i => proc'[k] = proc[k]
        /\ proc'[i].state = "none"
    BY <1>13 DEF Wait, TypeOK, NoProcess
  <2>3. LineOK'
    BY <1>0, <2>1 DEF LineOK, IsLast
  <2>4. ChildrenOK'
    BY <1>0, <2>1, <2>2 DEF ChildrenOK
  <2>5. i # 0 /\ sh.i \in Cmd
    BY <1>c, <2>1, CmdNat
  <2>6. StatusOK'
    BY <1>0, <2>1, <2>2, <2>5 DEF StatusOK, StatusOf, IsLast, Command
  <2> QED BY <2>3, <2>4, <2>6 DEF Control
<1>14. CASE ReadLine
  <2>1. PICK line \in Lines : sh.pc = "prompt" /\ sh' = [sh EXCEPT !.pc = "pipe", !.line = line] /\ UNCHANGED <<proc, marred>>
    BY <1>14 DEF ReadLine
  <2>2. sh'.pc = "pipe" /\ sh'.line = line /\ sh'.i = 1 /\ sh'.last = 0
    BY <1>0, <1>t, <2>1 DEF LineOK, Shells
  <2>3. 1 \in DOMAIN line
    BY LinesAssumption
  <2>4. LineOK'
    BY <2>2, <2>3 DEF LineOK
  <2>5. ChildrenOK'
    BY <1>0, <2>1 DEF ChildrenOK
  <2>6. StatusOK'
    BY <2>2 DEF StatusOK
  <2> QED BY <2>4, <2>5, <2>6 DEF Control
<1>15. ASSUME NEW i \in Cmd, CmdStep(i) PROVE Control'
  <2>1. UNCHANGED <<sh, marred>>
    BY <1>15 DEF CmdStep, ReadPipe, ReadFile, Stop, Write
  <2>2. /\ \A k \in Cmd : proc'[k].state # "none" <=> proc[k].state # "none"
        /\ \A k \in Cmd : proc'[k].kind = proc[k].kind
    <3>1. CASE ReadPipe(i) \/ ReadFile(i)
      <4>1. proc' = [proc EXCEPT ![i].holds = TRUE]
        BY <3>1 DEF ReadPipe, ReadFile
      <4> QED BY <4>1 DEF TypeOK
    <3>2. CASE Stop(i)
      BY <3>2 DEF Stop, TypeOK
    <3>3. CASE Write(i)
      <4>1. \E left, more : proc' = [proc EXCEPT ![i] = [@ EXCEPT !.left = left, !.holds = more]]
        BY <3>3, Zenon DEF Write
      <4> QED BY <4>1 DEF TypeOK
    <3> QED BY <1>15, <3>1, <3>2, <3>3 DEF CmdStep
  <2>3. LineOK'
    BY <1>0, <2>1 DEF LineOK, IsLast, Command
  <2>4. ChildrenOK'
    BY <1>0, <2>1, <2>2 DEF ChildrenOK
  <2>5. StatusOK'
    BY <1>0, <1>c, <2>1, <2>2 DEF StatusOK, IsLast, Command
  <2> QED BY <2>3, <2>4, <2>5 DEF Control
<1>16. CASE UNCHANGED vars
  BY <1>16 DEF vars, Control, LineOK, ChildrenOK, StatusOK, IsLast, Command
<1> QED BY <1>1, <1>2, <1>3, <1>4, <1>5, <1>6, <1>7, <1>8, <1>9, <1>10, <1>11, <1>12, <1>13, <1>14, <1>15, <1>16
     DEF Next, ShellStep

-----------------------------------------------------------------------------
(* The table of the shell, step by step.                                       *)

\* What is open is a file, and the numbers a process has anyway.
LEMMA Distinct ==
  /\ 0 \in Fd /\ 1 \in Fd /\ 2 \in Fd /\ -1 \notin Fd /\ Fd \subseteq Int
  /\ Tty # NONE /\ Heredoc # NONE /\ \A i \in Cmd : ReadEnd(i) # NONE /\ WriteEnd(i) # NONE
  /\ \A r \in Redirection : Target(r) # NONE /\ \A k \in Cmd : Target(r) # WriteEnd(k)
<1>1. 0 \in Fd /\ 1 \in Fd /\ 2 \in Fd
  BY RoomAssumption
<1>2. -1 \notin Fd /\ Fd \subseteq Int
  BY FdNat
<1>3. Tty \in Opens /\ Heredoc \in Opens /\ \A i \in Cmd : ReadEnd(i) \in Opens /\ WriteEnd(i) \in Opens
  BY DEF Opens
<1>4. \A r \in Redirection : Target(r) # NONE
  BY TargetType, NoneAssumption
<1>5. \A r \in Redirection, k \in Cmd : Target(r) # WriteEnd(k)
  BY FilesDiffer DEF Target
<1> QED BY <1>1, <1>2, <1>3, <1>4, <1>5, NoneAssumption

\* The place of the shell in a line.
LEMMA PlaceType ==
  ASSUME TypeOK, Control, sh.pc # "prompt"
  PROVE  /\ sh.i \in Cmd /\ sh.i \in Nat /\ Len(sh.line) \in Nat /\ sh.i \in 1 .. Len(sh.line)
         /\ sh.i # 1 => sh.i - 1 \in Cmd
         /\ ~IsLast => sh.i + 1 \in Cmd /\ sh.i < Len(sh.line)
         /\ DOMAIN sh.line = 1 .. Len(sh.line) /\ Command.redirs \in Seq(Redirection)
<1>1. sh.line \in Seq(Commands) /\ sh.i \in DOMAIN sh.line /\ sh.line \in Lines /\ Command.redirs \in Seq(Redirection)
  BY CommandType DEF Control, LineOK
<1>2. DOMAIN sh.line = 1 .. Len(sh.line) /\ Len(sh.line) \in Nat /\ DOMAIN sh.line \subseteq Cmd
  BY <1>1, CmdNat
<1>3. sh.i # 1 => sh.i - 1 \in DOMAIN sh.line
  BY <1>1, <1>2
<1>4. ~IsLast => sh.i + 1 \in DOMAIN sh.line /\ sh.i < Len(sh.line)
  BY <1>1, <1>2 DEF IsLast
<1> QED BY <1>1, <1>2, <1>3, <1>4

\* TableOK holds at first.
LEMMA TableInit == Init => TableOK
  BY DEF Init, NewLine, TableOK

\* error() and exit(): everything is closed.
LEMMA TableQuit ==
  ASSUME TypeOK, Quit PROVE TableOK'
<1>1. sh'.pc = "gone" /\ fd'[Shell] = Closed
  BY DEF Quit, Goto, TypeOK
<1> QED BY <1>1 DEF TableOK

\* A line is typed: only the terminal is open.
LEMMA TableReadLine ==
  ASSUME TypeOK, Control, TableOK, ReadLine PROVE TableOK'
<1>1. /\ sh.pc = "prompt" /\ sh'.pc = "pipe" /\ sh'.i = sh.i /\ sh'.prev = sh.prev /\ fd' = fd
  BY DEF ReadLine, TypeOK
<1>2. sh'.i = 1 /\ sh'.prev = -1 /\ fd'[Shell] = NewTable
  BY <1>1 DEF Control, LineOK, TableOK
<1>3. PrevOK' /\ AtPrev'
  BY <1>2 DEF PrevOK, AtPrev
<1>4. IsTty(Std)' /\ Numbers(Std \cup {sh.prev})'
  BY <1>2 DEF IsTty, Numbers, Std, NewTable
<1> QED BY <1>1, <1>3, <1>4 DEF TableOK, AtPipe

\* pipe() gives two numbers nobody counts on.
LEMMA TablePipe ==
  ASSUME TypeOK, Control, TableOK, Pipe PROVE TableOK'
<1>0. PICK r, w \in Unused(fd[Shell]) :
        /\ r < w
        /\ sh' = [sh EXCEPT !.pc = "originals", !.fds = <<r, w>>]
        /\ fd' = [fd EXCEPT ![Shell] = [@ EXCEPT ![r] = ReadEnd(sh.i), ![w] = WriteEnd(sh.i)]]
  BY Zenon DEF Pipe
<1>a. r \in Fd /\ w \in Fd /\ fd[Shell][r] = NONE /\ fd[Shell][w] = NONE
  BY DEF Unused
<1>b. r # w
  BY <1>0, <1>a, FdNat
<1>1. /\ r \in Fd /\ w \in Fd /\ r # w /\ fd[Shell][r] = NONE /\ fd[Shell][w] = NONE
      /\ sh' = [sh EXCEPT !.pc = "originals", !.fds = <<r, w>>]
      /\ fd' = [fd EXCEPT ![Shell] = [@ EXCEPT ![r] = ReadEnd(sh.i), ![w] = WriteEnd(sh.i)]]
  BY <1>0, <1>a, <1>b
<1>2. /\ sh.pc = "pipe" /\ ~IsLast /\ sh'.pc = "originals" /\ sh'.line = sh.line /\ sh'.i = sh.i /\ sh'.prev = sh.prev
      /\ sh'.fds[1] = r /\ sh'.fds[2] = w
  BY <1>1 DEF Pipe, TypeOK
<1>3. \A e \in Fd : fd'[Shell][e] = IF e = w THEN WriteEnd(sh.i) ELSE IF e = r THEN ReadEnd(sh.i) ELSE fd[Shell][e]
  BY <1>1 DEF TypeOK, Cells
<1>4. AtPipe
  BY <1>2 DEF TableOK
<1>5. sh.i # 1 => fd[Shell][sh.prev] # NONE /\ sh.prev # r /\ sh.prev # w
  BY <1>1, <1>2, <1>4, Distinct, PlaceType DEF AtPipe, AtPrev
<1>6. sh.prev # r /\ sh.prev # w
  BY <1>1, <1>4, <1>5, Distinct DEF AtPipe, PrevOK
<1>7. r \notin Std /\ w \notin Std
  BY <1>1, <1>4, Distinct DEF AtPipe, IsTty
<1>8. PrevOK' /\ AtPrev'
  BY <1>2, <1>3, <1>4, <1>6 DEF AtPipe, PrevOK, AtPrev
<1>9. EndsOK' /\ AtRead' /\ AtWrite'
  BY <1>1, <1>2, <1>3, <1>6, <1>7 DEF EndsOK, AtRead, AtWrite
<1>10. IsTty(Std)'
  BY <1>3, <1>4, <1>7 DEF AtPipe, IsTty, Std
<1>11. Numbers(Std \cup {sh.prev} \cup Ends)'
  BY <1>2, <1>3, <1>4 DEF AtPipe, Numbers, Ends, IsLast, Std
<1> QED BY <1>2, <1>8, <1>9, <1>10, <1>11 DEF TableOK, AtOriginals

\* What the shell has before the copies is open.
LEMMA OpenBefore ==
  ASSUME TypeOK, Control, sh.pc # "prompt",
         PrevOK, IsTty(Std), AtPrev, AtRead, AtWrite
  PROVE  \A e \in (Std \cup {sh.prev} \cup Ends) \cap Fd : fd[Shell][e] # NONE
<1> SUFFICES ASSUME NEW e \in Fd, e \in Std \cup {sh.prev} \cup Ends PROVE fd[Shell][e] # NONE
  OBVIOUS
<1>1. CASE e \in Std
  BY <1>1, Distinct DEF IsTty
<1>2. CASE e = sh.prev
  <2>1. sh.i # 1
    BY <1>2, Distinct DEF PrevOK
  <2> QED BY <1>2, <2>1, Distinct, PlaceType DEF AtPrev
<1>3. CASE e \in Ends
  <2>1. ~IsLast
    BY <1>3 DEF Ends
  <2> QED BY <1>3, <2>1, Distinct, PlaceType DEF AtRead, AtWrite, Ends
<1> QED BY <1>1, <1>2, <1>3

\* dup() finds two more numbers, since nine do not use up ten.
LEMMA TableOriginals ==
  ASSUME TypeOK, Control, TableOK, Originals PROVE TableOK'
<1> DEFINE t == fd[Shell]
           Before == Std \cup {sh.prev} \cup Ends
<1>0. /\ sh.pc \in {"originals", "pipe"}
      /\ sh.pc = "pipe" => IsLast
      /\ sh'.pc = "wire" /\ sh'.line = sh.line /\ sh'.i = sh.i /\ sh'.prev = sh.prev /\ sh'.fds = sh.fds
      /\ sh'.oin = CopyIn /\ sh'.oout = CopyOut /\ sh'.in = 0 /\ sh'.out = 1 /\ sh'.tin = 0 /\ sh'.tout = 1
  <2>1. /\ sh.pc \in {"originals", "pipe"}
        /\ sh.pc = "pipe" => IsLast
    BY OriginalsIs
  <2>2. sh \in Shells
    BY DEF TypeOK, Shells
  <2>3. sh' = [sh EXCEPT !.pc = "wire", !.redirs = Command.redirs, !.oin = CopyIn, !.oout = CopyOut,
                         !.in = 0, !.out = 1, !.tin = 0, !.tout = 1]
    BY OriginalsIs
  <2>4. sh'.pc = "wire" /\ sh'.line = sh.line /\ sh'.i = sh.i /\ sh'.prev = sh.prev /\ sh'.fds = sh.fds
    BY <2>2, <2>3 DEF Shells
  <2>5. sh'.oin = CopyIn /\ sh'.oout = CopyOut
    BY <2>2, <2>3 DEF Shells
  <2>6. sh'.in = 0 /\ sh'.out = 1 /\ sh'.tin = 0 /\ sh'.tout = 1
    BY <2>2, <2>3 DEF Shells
  <2> QED BY <2>1, <2>4, <2>5, <2>6
<1>1. AtOriginals
  <2>1. CASE sh.pc = "originals"
    BY <2>1 DEF TableOK
  <2>2. CASE sh.pc = "pipe"
    <3>1. AtPipe /\ IsLast
      BY <1>0, <2>2 DEF TableOK
    <3>2. EndsOK /\ AtRead /\ AtWrite
      BY <3>1 DEF EndsOK, AtRead, AtWrite
    <3>3. Std \cup {sh.prev} \cup Ends = Std \cup {sh.prev}
      BY <3>1 DEF Ends
    <3> QED BY <3>1, <3>2, <3>3 DEF AtPipe, AtOriginals
  <2> QED BY <1>0, <2>1, <2>2
<1>2. t \in Cells /\ IsOpen(t, 0) /\ t[0] = Tty /\ t[1] = Tty /\ t[2] = Tty
  BY <1>1, Distinct DEF TypeOK, AtOriginals, IsTty, Std, IsOpen
<1>3. PICK n \in Fd : t[n] = NONE
  <2>1. PICK n \in 0 .. 9 : n \notin {0, 1, 2, sh.prev, sh.fds[1], sh.fds[2], 0, 0, 0}
    BY OneIsLeft
  <2>2. n \in Fd /\ n \notin Before
    BY <2>1, RoomAssumption DEF Std, Ends
  <2> QED BY <2>2, <1>1 DEF AtOriginals, Numbers
<1>4. CopyIn \in Fd /\ t[CopyIn] = NONE
  BY <1>2, <1>3, LowestIn DEF CopyIn, Copied
<1>5. WithIn \in Cells /\ \A e \in Fd : WithIn[e] = IF e = CopyIn THEN Tty ELSE t[e]
  BY <1>2, PutAt DEF WithIn, Opens
<1>6. IsOpen(WithIn, 1) /\ WithIn[1] = Tty
  BY <1>2, <1>5, Distinct DEF IsOpen
<1>7. PICK m \in Fd : WithIn[m] = NONE
  <2>1. PICK k \in 0 .. 9 : k \notin {0, 1, 2, sh.prev, sh.fds[1], sh.fds[2], CopyIn, 0, 0}
    BY OneIsLeft
  <2>2. k \in Fd /\ k \notin Before /\ k # CopyIn
    BY <2>1, RoomAssumption DEF Std, Ends
  <2>3. t[k] = NONE
    BY <2>2, <1>1 DEF AtOriginals, Numbers
  <2> QED BY <2>2, <2>3, <1>5
<1>8. CopyOut \in Fd /\ WithIn[CopyOut] = NONE
  BY <1>5, <1>6, <1>7, LowestIn DEF CopyOut, Copied
<1>9. fd'[Shell] = Put(WithIn, CopyOut, Tty)
  BY <1>6, OriginalsIs DEF TypeOK
<1>10. \A e \in Fd : fd'[Shell][e] = IF e \in {CopyIn, CopyOut} THEN Tty ELSE t[e]
  BY <1>5, <1>9, PutAt DEF Opens
<1>11. \A e \in Before \cap Fd : t[e] # NONE
  BY <1>0, <1>1, OpenBefore DEF AtOriginals
<1>12. CopyIn \notin Before /\ CopyOut \notin Before /\ CopyOut # CopyIn
  BY <1>4, <1>5, <1>8, <1>11, Distinct
<1> HIDE DEF t
<1>13. Before' = Before /\ Ends' = Ends /\ Copies' = {CopyIn, CopyOut} /\ IsLast' = IsLast
  BY <1>0 DEF Ends, Copies, IsLast
<1>14. PrevOK' /\ EndsOK'
  BY <1>0, <1>1 DEF AtOriginals, PrevOK, EndsOK, IsLast
<1>15. CopiesOK'
  BY <1>0, <1>4, <1>8, <1>12, <1>13 DEF CopiesOK
<1>16. RedirsOK'
  BY <1>0 DEF RedirsOK
<1>17. IsTty(Std \cup Copies)'
  BY <1>1, <1>10, <1>13 DEF AtOriginals, IsTty, t, Std
<1>18. AtPrev' /\ AtRead' /\ AtWrite'
  <2>1. \A e \in Before \cap Fd : fd'[Shell][e] = t[e]
    BY <1>10, <1>12
  <2> QED BY <1>0, <1>1, <2>1 DEF AtOriginals, AtPrev, AtRead, AtWrite, t, IsLast, PrevOK, EndsOK, Ends
<1>19. Numbers(Kept \cup {sh.in, sh.out})'
  <2>1. \A e \in Fd : t[e] # NONE => e \in Before
    BY <1>1 DEF AtOriginals, Numbers, t
  <2>2. \A e \in Fd : fd'[Shell][e] # NONE => e \in Before \cup {CopyIn, CopyOut}
    BY <1>10, <2>1
  <2> QED BY <1>13, <2>2 DEF Numbers, Kept
<1> QED BY <1>0, <1>14, <1>15, <1>16, <1>17, <1>18, <1>19 DEF TableOK, AtWire

\* A turn of wire_files() opens a number that is not used, or none.
LEMMA FirstIs ==
  ASSUME TypeOK, Control, AtWire, sh.pc = "wire", sh.redirs # <<>>
  PROVE  /\ First \in Redirection
         /\ FirstFd \in (Fd \ Kept) \cup {-1}
         /\ FirstFd # -1 => fd[Shell][FirstFd] = NONE
<1>1. First \in Redirection
  BY DEF TypeOK, First
<1>2. fd[Shell] \in Cells
  BY DEF TypeOK
<1>3. CASE FirstFd = -1
  BY <1>1, <1>3
<1>4. CASE FirstFd # -1
  <2>1. FirstFd = Lowest(fd[Shell]) /\ Unused(fd[Shell]) # {}
    BY <1>4 DEF FirstFd, NewFd, Lowest
  <2>2. PICK n \in Fd : fd[Shell][n] = NONE
    BY <2>1 DEF Unused
  <2>3. FirstFd \in Fd /\ fd[Shell][FirstFd] = NONE
    BY <1>2, <2>1, <2>2, LowestIn
  <2>4. \A e \in (Std \cup {sh.prev} \cup Ends) \cap Fd : fd[Shell][e] # NONE
    <3>1. IsTty(Std)
      BY DEF AtWire, IsTty
    <3> QED BY <3>1, OpenBefore DEF AtWire
  <2>5. \A e \in Copies \cap Fd : fd[Shell][e] # NONE
    BY Distinct DEF AtWire, IsTty
  <2> QED BY <1>1, <2>3, <2>4, <2>5 DEF Kept
<1> QED BY <1>3, <1>4

\* A turn of wire_files() touches no number the shell counts on.
LEMMA TableWireFile ==
  ASSUME TypeOK, Control, TableOK, WireFile PROVE TableOK'
<1> DEFINE t == fd[Shell]
           u == fd'[Shell]
           P == Put(t, FirstFd, Target(First))
           Q == Assigned(P, sh.in, FirstIn)
<1>0. /\ sh.pc = "wire" /\ sh.redirs # <<>>
      /\ sh'.pc = "wire" /\ sh'.line = sh.line /\ sh'.i = sh.i /\ sh'.prev = sh.prev /\ sh'.fds = sh.fds
      /\ sh'.oin = sh.oin /\ sh'.oout = sh.oout
      /\ sh'.tin = FirstIn /\ sh'.tout = FirstOut
      /\ sh'.in = (IF FirstIn > -1 THEN FirstIn ELSE sh.in)
      /\ sh'.out = (IF FirstOut > -1 THEN FirstOut ELSE sh.out)
      /\ u = Assigned(Q, sh.out, FirstOut)
  BY WireFileIs DEF TypeOK
<1>1. AtWire
  BY <1>0 DEF TableOK
<1>2. /\ First \in Redirection
      /\ FirstFd \in (Fd \ Kept) \cup {-1}
      /\ FirstFd # -1 => t[FirstFd] = NONE
  BY <1>0, <1>1, FirstIs
<1>3. t \in Cells /\ Target(First) \in Opens
  BY <1>2, TargetType DEF TypeOK
<1>4. P \in Cells /\ \A e \in Fd : P[e] = IF e = FirstFd THEN Target(First) ELSE t[e]
  BY <1>3, PutAt
<1>5. Q \in Cells /\ \A e \in Fd : Q[e] = IF FirstIn > -1 /\ sh.in > 1 /\ e = sh.in THEN NONE ELSE P[e]
  BY <1>4, AssignedAt
<1>6. \A e \in Fd : u[e] = IF FirstOut > -1 /\ sh.out > 1 /\ e = sh.out THEN NONE ELSE Q[e]
  BY <1>0, <1>5, AssignedAt
<1> HIDE DEF t, u, P, Q
<1>7. Kept' = Kept /\ Ends' = Ends /\ Copies' = Copies /\ IsLast' = IsLast
  BY <1>0 DEF Kept, Ends, Copies, IsLast
<1>8. /\ sh.in \in (Fd \ Kept) \cup {0} /\ sh.out \in (Fd \ Kept) \cup {1}
      /\ sh.tin \in (Fd \ Kept) \cup {0, -1} /\ sh.tout \in (Fd \ Kept) \cup {1, -1}
  BY <1>1 DEF AtWire, RedirsOK
<1>9. FirstIn \in (Fd \ Kept) \cup {0, -1} /\ FirstOut \in (Fd \ Kept) \cup {1, -1}
  BY <1>2, <1>8 DEF FirstIn, FirstOut
<1>10. \A e \in Kept \cap Fd : u[e] = t[e]
  <2> SUFFICES ASSUME NEW e \in Kept, e \in Fd PROVE u[e] = t[e]
    OBVIOUS
  <2>1. e # FirstFd
    BY <1>2, Distinct
  <2>2. ~(sh.in > 1 /\ e = sh.in) /\ ~(sh.out > 1 /\ e = sh.out)
    BY <1>8
  <2> QED BY <2>1, <2>2, <1>4, <1>5, <1>6
<1>11. PrevOK' /\ EndsOK' /\ CopiesOK'
  BY <1>0, <1>1, <1>7 DEF AtWire, PrevOK, EndsOK, CopiesOK
<1>12. RedirsOK'
  BY <1>0, <1>7, <1>8, <1>9 DEF RedirsOK
<1>13. IsTty(Std \cup Copies)'
  BY <1>1, <1>7, <1>10 DEF AtWire, IsTty, Kept, t, u
<1>14. AtPrev' /\ AtRead' /\ AtWrite'
  BY <1>0, <1>1, <1>7, <1>10 DEF AtWire, AtPrev, AtRead, AtWrite, PrevOK, EndsOK, Kept, Ends, t, u
<1>15. Numbers(Kept \cup {sh.in, sh.out})'
  <2> SUFFICES ASSUME NEW e \in Fd, u[e] # NONE, e \notin Kept PROVE e \in {sh'.in, sh'.out}
    BY <1>7 DEF Numbers, u
  <2>1. CASE e = FirstFd
    <3>1. e = FirstIn \/ e = FirstOut
      BY <2>1, Distinct DEF FirstIn, FirstOut
    <3>2. e > -1
      BY FdNat
    <3> QED BY <1>0, <3>1, <3>2
  <2>2. CASE e # FirstFd
    <3>1. t[e] # NONE
      BY <1>4, <1>5, <1>6, <2>2
    <3>2. e = sh.in \/ e = sh.out
      BY <1>1, <3>1 DEF AtWire, Numbers, t
    <3>3. e > 1
      BY FdNat DEF Kept, Std
    <3>4. CASE e = sh.in
      <4>1. ~(FirstIn > -1)
        BY <1>5, <1>6, <3>3, <3>4
      <4> QED BY <1>0, <3>4, <4>1
    <3>5. CASE e = sh.out
      <4>1. ~(FirstOut > -1)
        BY <1>6, <3>3, <3>5
      <4> QED BY <1>0, <3>5, <4>1
    <3> QED BY <3>2, <3>4, <3>5
  <2> QED BY <2>1, <2>2
<1>16. sh'.tin \in (Fd \ Kept') \cup {0, -1} /\ sh'.tout \in (Fd \ Kept') \cup {1, -1}
  BY <1>0, <1>7, <1>9
<1>17. \A d \in {sh'.in, sh'.out} \ {0, 1} : \A k \in Cmd : u[d] # WriteEnd(k)
  <2> SUFFICES ASSUME NEW d \in {sh'.in, sh'.out} \ {0, 1}, NEW k \in Cmd, u[d] = WriteEnd(k) PROVE FALSE
    OBVIOUS
  <2>1. d \in Fd \ Kept
    BY <1>7, <1>12 DEF RedirsOK
  <2>2. WriteEnd(k) # NONE /\ Target(First) # WriteEnd(k)
    BY <1>2, Distinct
  <2>3. t[d] = WriteEnd(k)
    BY <1>4, <1>5, <1>6, <2>1, <2>2
  <2>4. d \in {sh.in, sh.out}
    BY <1>1, <2>1, <2>2, <2>3 DEF AtWire, Numbers, t
  <2> QED BY <1>1, <2>3, <2>4 DEF AtWire, t
<1> QED BY <1>0, <1>11, <1>12, <1>13, <1>14, <1>15, <1>16, <1>17 DEF TableOK, AtWire, u

\* What handle_input_output() makes of the table: for the input, ...
LEMMA HandledIn ==
  ASSUME TypeOK, Control, sh.pc = "wire", AtWire, NEW t, t = fd[Shell], NEW v, v = HandleIn(t)
  PROVE  /\ v \in Cells
         /\ \A e \in Fd \ {0, sh.prev, sh.in} : v[e] = t[e]
         /\ \A e \in Fd \ {0} : v[e] \in {t[e], NONE}
         /\ sh.in # 0 => v[sh.in] = NONE
         /\ IF sh.in # 0 THEN t[sh.in] # NONE => v[0] = t[sh.in]
            ELSE IF sh.i # 1 THEN v[0] = ReadEnd(sh.i - 1)
            ELSE v[0] = Tty
         /\ \A k \in Cmd : v[0] # WriteEnd(k)
<1>0. t \in Cells /\ t[0] = Tty /\ 0 \in Fd
  BY Distinct DEF TypeOK, AtWire, IsTty, Std
<1>1. \A k \in Cmd : Tty # WriteEnd(k) /\ \A m \in Cmd : ReadEnd(m) # WriteEnd(k)
  BY FilesDiffer
<1>2. CASE sh.in # 0
  <2>1. sh.in \in Fd /\ sh.in \notin Std /\ v = Move(t, sh.in, 0)
    BY <1>2 DEF AtWire, RedirsOK, HandleIn, Kept
  <2>2. v \in Cells /\ \A e \in Fd : v[e] =
              IF e = sh.in THEN NONE ELSE IF e = 0 /\ IsOpen(t, sh.in) THEN t[sh.in] ELSE t[e]
    BY <1>0, <2>1, MoveAt
  <2>3. \A k \in Cmd : t[sh.in] # WriteEnd(k)
    BY <1>2, <2>1 DEF AtWire, Std
  <2>4. IsOpen(t, sh.in) <=> t[sh.in] # NONE
    BY <2>1 DEF IsOpen
  <2> QED BY <1>0, <1>1, <1>2, <2>1, <2>2, <2>3, <2>4
<1>3. CASE sh.in = 0 /\ sh.i # 1
  <2>1. sh.prev \in Fd /\ sh.prev # 0 /\ sh.prev # -1 /\ t[sh.prev] = ReadEnd(sh.i - 1)
    BY <1>3, Distinct DEF AtWire, PrevOK, AtPrev, Std
  <2>2. v = Move(t, sh.prev, 0)
    BY <1>3, <2>1 DEF HandleIn
  <2>3. v \in Cells /\ \A e \in Fd : v[e] =
              IF e = sh.prev THEN NONE ELSE IF e = 0 /\ IsOpen(t, sh.prev) THEN t[sh.prev] ELSE t[e]
    BY <1>0, <2>2, MoveAt
  <2>4. sh.i - 1 \in Cmd /\ ReadEnd(sh.i - 1) # NONE
    BY <1>3, PlaceType, Distinct
  <2>5. IsOpen(t, sh.prev)
    BY <2>1, <2>4 DEF IsOpen
  <2> QED BY <1>0, <1>1, <1>3, <2>1, <2>3, <2>4, <2>5
<1>4. CASE sh.in = 0 /\ sh.i = 1
  <2>1. v = t
    BY <1>4 DEF HandleIn, AtWire, PrevOK
  <2> QED BY <1>0, <1>1, <1>4, <2>1
<1> QED BY <1>2, <1>3, <1>4

\* ... then for the output.
LEMMA HandledOut ==
  ASSUME TypeOK, Control, sh.pc = "wire", AtWire, NEW v \in Cells, NEW u, u = HandleOut(v),
         v[1] = Tty, ~IsLast => v[sh.fds[2]] = WriteEnd(sh.i),
         \A e \in Fd \ {0} : v[e] \in {fd[Shell][e], NONE}
  PROVE  /\ u \in Cells
         /\ \A e \in Fd \ {1, OutFd, sh.out} : u[e] = v[e]
         /\ \A e \in Fd \ {1} : u[e] \in {v[e], NONE}
         /\ sh.out # 1 => u[sh.out] = NONE
         /\ IF sh.out # 1 THEN v[sh.out] # NONE => u[1] = v[sh.out]
            ELSE IF ~IsLast THEN u[1] = WriteEnd(sh.i)
            ELSE u[1] = Tty
         /\ \A k \in Cmd : u[1] = WriteEnd(k) => k = sh.i
<1>0. 1 \in Fd /\ \A k \in Cmd : Tty # WriteEnd(k) /\ WriteEnd(k) # NONE /\ (WriteEnd(sh.i) = WriteEnd(k) => k = sh.i)
  BY Distinct, FilesDiffer, PlaceType
<1>1. CASE sh.out # 1
  <2>1. sh.out \in Fd /\ sh.out \notin Std /\ u = Move(v, sh.out, 1)
    BY <1>1 DEF AtWire, RedirsOK, HandleOut, Kept
  <2>2. u \in Cells /\ \A e \in Fd : u[e] =
              IF e = sh.out THEN NONE ELSE IF e = 1 /\ IsOpen(v, sh.out) THEN v[sh.out] ELSE v[e]
    BY <2>1, MoveAt
  <2>3. \A k \in Cmd : fd[Shell][sh.out] # WriteEnd(k)
    BY <1>1, <2>1 DEF AtWire, Std
  <2>4. \A k \in Cmd : v[sh.out] # WriteEnd(k)
    BY <1>0, <2>1, <2>3 DEF Std
  <2>5. IsOpen(v, sh.out) <=> v[sh.out] # NONE
    BY <2>1 DEF IsOpen
  <2> QED BY <1>0, <1>1, <2>1, <2>2, <2>4, <2>5
<1>2. CASE sh.out = 1 /\ ~IsLast
  <2>1. OutFd = sh.fds[2] /\ OutFd \in Fd /\ OutFd # 1 /\ v[OutFd] = WriteEnd(sh.i)
    BY <1>2 DEF AtWire, EndsOK, OutFd, Std
  <2>2. u = Move(v, OutFd, 1)
    BY <1>2, <2>1 DEF HandleOut
  <2>3. u \in Cells /\ \A e \in Fd : u[e] =
              IF e = OutFd THEN NONE ELSE IF e = 1 /\ IsOpen(v, OutFd) THEN v[OutFd] ELSE v[e]
    BY <2>2, MoveAt
  <2>4. IsOpen(v, OutFd)
    BY <1>0, <2>1, PlaceType DEF IsOpen
  <2> QED BY <1>0, <1>2, <2>1, <2>3, <2>4
<1>3. CASE sh.out = 1 /\ IsLast
  <2>1. u = v
    BY <1>3 DEF HandleOut, OutFd
  <2> QED BY <1>0, <1>3, <2>1
<1> QED BY <1>1, <1>2, <1>3

\* The command finds its input and output at 0 and 1, and nothing else that is open is new.
LEMMA Handled ==
  ASSUME TypeOK, Control, sh.pc = "wire", AtWire, NEW t, t = fd[Shell], NEW u, u = HandleOut(HandleIn(t))
  PROVE  /\ \A e \in (Copies \cup {2, sh.fds[1]}) \cap Fd : ~(IsLast /\ e \notin Copies \cup {2}) => u[e] = t[e]
         /\ \A e \in Fd \ {0, 1} : u[e] \in {t[e], NONE}
         /\ \A e \in {sh.in, sh.out} \ {0, 1} : u[e] = NONE
         /\ IF sh.in # 0 THEN t[sh.in] # NONE => u[0] = t[sh.in]
            ELSE IF sh.i # 1 THEN u[0] = ReadEnd(sh.i - 1)
            ELSE u[0] = Tty
         /\ IF sh.out # 1 THEN t[sh.out] # NONE /\ sh.in = 0 => u[1] = t[sh.out]
            ELSE IF ~IsLast THEN u[1] = WriteEnd(sh.i)
            ELSE u[1] = Tty
         /\ \A k \in Cmd : u[0] # WriteEnd(k) /\ (u[1] = WriteEnd(k) => k = sh.i)
<1> DEFINE v == HandleIn(t)
<1>1. /\ v \in Cells
      /\ \A e \in Fd \ {0, sh.prev, sh.in} : v[e] = t[e]
      /\ \A e \in Fd \ {0} : v[e] \in {t[e], NONE}
      /\ sh.in # 0 => v[sh.in] = NONE
      /\ IF sh.in # 0 THEN t[sh.in] # NONE => v[0] = t[sh.in]
         ELSE IF sh.i # 1 THEN v[0] = ReadEnd(sh.i - 1)
         ELSE v[0] = Tty
      /\ \A k \in Cmd : v[0] # WriteEnd(k)
  BY HandledIn
<1> HIDE DEF v
<1>2. /\ PrevOK /\ EndsOK /\ CopiesOK /\ RedirsOK /\ AtRead /\ AtWrite /\ t[1] = Tty
      /\ sh.in \in (Fd \ Kept) \cup {0} /\ sh.out \in (Fd \ Kept) \cup {1}
  BY Distinct DEF AtWire, RedirsOK, IsTty, Std
<1>3. 1 \notin {0, sh.prev, sh.in}
  BY <1>2 DEF PrevOK, Kept, Std
<1>4. v[1] = Tty
  BY <1>1, <1>2, <1>3, Distinct
<1>5. ~IsLast => sh.fds[2] \in Fd \ {0, sh.prev, sh.in}
  BY <1>2 DEF EndsOK, Kept, Ends, Std
<1>6. ~IsLast => v[sh.fds[2]] = WriteEnd(sh.i)
  BY <1>1, <1>2, <1>5 DEF AtWrite
<1>7. u = HandleOut(v)
  BY DEF v
<1>8. /\ \A e \in Fd \ {1, OutFd, sh.out} : u[e] = v[e]
      /\ \A e \in Fd \ {1} : u[e] \in {v[e], NONE}
      /\ sh.out # 1 => u[sh.out] = NONE
      /\ IF sh.out # 1 THEN v[sh.out] # NONE => u[1] = v[sh.out]
         ELSE IF ~IsLast THEN u[1] = WriteEnd(sh.i)
         ELSE u[1] = Tty
      /\ \A k \in Cmd : u[1] = WriteEnd(k) => k = sh.i
  BY <1>1, <1>4, <1>6, <1>7, HandledOut
<1>9. 0 \notin {1, OutFd, sh.out} /\ (sh.out # 1 => sh.out \in Fd \ {0, sh.prev})
  BY <1>2 DEF OutFd, EndsOK, Kept, Std
<1>10. \A e \in (Copies \cup {2, sh.fds[1]}) \cap Fd : ~(IsLast /\ e \notin Copies \cup {2}) =>
          e \notin {0, 1, sh.prev, sh.in, sh.out, OutFd}
  BY <1>2 DEF PrevOK, EndsOK, CopiesOK, Kept, Std, Ends, Copies, OutFd
<1>11. u[0] = v[0]
  BY <1>8, <1>9, Distinct
<1>12. sh.out # 1 /\ sh.in = 0 => v[sh.out] = t[sh.out]
  BY <1>1, <1>9
<1>13. \A e \in {sh.in, sh.out} \ {0, 1} : u[e] = NONE
  BY <1>1, <1>2, <1>8
<1> QED BY <1>1, <1>8, <1>10, <1>11, <1>12, <1>13

\* handle_input_output() closes what was opened for redirections.
LEMMA TableHandle ==
  ASSUME TypeOK, Control, TableOK, Handle, ~marred' PROVE TableOK'
<1> DEFINE t == fd[Shell]
           u == fd'[Shell]
<1>0. /\ sh.pc = "wire" /\ sh'.pc = "start" /\ sh'.line = sh.line /\ sh'.i = sh.i /\ sh'.prev = sh.prev
      /\ sh'.fds = sh.fds /\ sh'.oin = sh.oin /\ sh'.oout = sh.oout /\ sh'.in = sh.in /\ sh'.out = sh.out
      /\ u = HandleOut(HandleIn(t))
  BY DEF Handle, Goto, TypeOK
<1>1. AtWire
  BY <1>0 DEF TableOK
<1> HIDE DEF t, u
<1>2. /\ \A e \in (Copies \cup {2, sh.fds[1]}) \cap Fd : ~(IsLast /\ e \notin Copies \cup {2}) => u[e] = t[e]
      /\ \A e \in Fd \ {0, 1} : u[e] \in {t[e], NONE}
      /\ \A e \in {sh.in, sh.out} \ {0, 1} : u[e] = NONE
      /\ \A k \in Cmd : u[0] # WriteEnd(k) /\ (u[1] = WriteEnd(k) => k = sh.i)
  BY <1>0, <1>1, Handled DEF t
<1>3. Kept' = Kept /\ Ends' = Ends /\ Copies' = Copies /\ IsLast' = IsLast
  BY <1>0 DEF Kept, Ends, Copies, IsLast
<1>4. PrevOK' /\ EndsOK' /\ CopiesOK' /\ RedirsOK'
  BY <1>0, <1>1, <1>3 DEF AtWire, PrevOK, EndsOK, CopiesOK, RedirsOK
<1>5. IsTty({2} \cup Copies)'
  BY <1>1, <1>2, <1>3 DEF AtWire, IsTty, Std, t, u
<1>6. AtRead'
  BY <1>0, <1>1, <1>2, <1>3 DEF AtWire, AtRead, EndsOK, t, u
<1>7. Numbers(Kept)'
  <2> SUFFICES ASSUME NEW e \in Fd, u[e] # NONE, e \notin Kept PROVE FALSE
    BY <1>3 DEF Numbers, u
  <2>1. e \notin {0, 1}
    BY DEF Kept, Std
  <2>2. t[e] # NONE
    BY <1>2, <2>1
  <2>3. e \in {sh.in, sh.out}
    BY <1>1, <2>2 DEF AtWire, Numbers, t
  <2> QED BY <1>2, <2>1, <2>3
<1>8. OnlyOwn'
  <2> SUFFICES ASSUME NEW e \in Fd, NEW k \in Cmd, u[e] = WriteEnd(k) PROVE k = sh.i
    BY <1>0 DEF OnlyOwn, u
  <2>1. CASE e \in {0, 1}
    BY <1>2, <2>1
  <2>2. CASE e \notin {0, 1}
    <3>1. t[e] = WriteEnd(k) /\ t[e] # NONE
      BY <1>2, <2>2, Distinct
    <3>2. e \in Kept
      <4>1. e \in Kept \cup {sh.in, sh.out}
        BY <1>1, <3>1 DEF AtWire, Numbers, t
      <4> QED BY <1>1, <2>2, <3>1, <4>1 DEF AtWire, t
    <3>3. /\ Tty # WriteEnd(k) /\ (WriteEnd(sh.i) = WriteEnd(k) => k = sh.i)
          /\ sh.i # 1 => ReadEnd(sh.i - 1) # WriteEnd(k)
          /\ ReadEnd(sh.i) # WriteEnd(k)
      BY <1>0, FilesDiffer, PlaceType
    <3>4. e \notin Std /\ e \notin Copies
      BY <1>1, <3>1, <3>3 DEF AtWire, IsTty, t
    <3>5. e # sh.prev
      <4>1. sh.prev \in Fd => sh.i # 1
        BY <1>1, Distinct DEF AtWire, PrevOK
      <4> QED BY <1>1, <3>1, <3>3, <4>1 DEF AtWire, AtPrev, t
    <3>6. e \in Ends /\ ~IsLast
      BY <3>2, <3>4, <3>5 DEF Kept, Ends
    <3> QED BY <1>1, <3>1, <3>3, <3>6 DEF AtWire, AtRead, AtWrite, Ends, t
  <2> QED BY <2>1, <2>2
<1> QED BY <1>0, <1>4, <1>5, <1>6, <1>7, <1>8 DEF TableOK, AtStart

\* The command starts: the table stays what it is.
LEMMA TableStart ==
  ASSUME TypeOK, Control, TableOK, Builtin \/ Fork PROVE TableOK'
<1>0. /\ sh.pc = "start" /\ sh'.pc = "restore" /\ sh'.line = sh.line /\ sh'.i = sh.i /\ sh'.prev = sh.prev
      /\ sh'.fds = sh.fds /\ sh'.oin = sh.oin /\ sh'.oout = sh.oout /\ sh'.in = sh.in /\ sh'.out = sh.out
  BY DEF Builtin, Fork, TypeOK
<1>1. fd'[Shell] = fd[Shell]
  <2>1. sh.i # 0
    BY <1>0, PlaceType, CmdNat
  <2> QED BY <2>1 DEF Builtin, Fork, TypeOK
<1>2. AtStart
  BY <1>0 DEF TableOK
<1>3. Kept' = Kept /\ Ends' = Ends /\ Copies' = Copies /\ IsLast' = IsLast
  BY <1>0 DEF Kept, Ends, Copies, IsLast
<1>4. PrevOK' /\ EndsOK' /\ CopiesOK' /\ RedirsOK'
  BY <1>0, <1>2, <1>3 DEF AtStart, PrevOK, EndsOK, CopiesOK, RedirsOK
<1>5. IsTty({2} \cup Copies)' /\ AtRead' /\ Numbers(Kept)' /\ OnlyOwn'
  BY <1>0, <1>1, <1>2, <1>3 DEF AtStart, IsTty, AtRead, Numbers, OnlyOwn
<1> QED BY <1>0, <1>4, <1>5 DEF TableOK, AtStart

\* What is closed after the start was made for the command.
LEMMA TableRestored ==
  ASSUME TypeOK, Control, TableOK, Restored PROVE TableOK'
<1> DEFINE t == fd[Shell]
           u == fd'[Shell]
           c == IF Command.kind = "builtin" THEN t ELSE CloseEnds(t)
           a == Dup2(c, sh.oout, 1)
           b == Dup2(a, sh.oin, 0)
           d == Close(Close(b, sh.oout), sh.oin)
           v == IF sh.out # 1 THEN Close(d, sh.out) ELSE d
<1>0. /\ sh.pc = "restore" /\ sh'.pc = "next" /\ sh'.line = sh.line /\ sh'.i = sh.i /\ sh'.prev = sh.prev
      /\ sh'.fds = sh.fds
      /\ u = Restore(c)
  BY DEF Restored, Goto, TypeOK
<1>1. u = IF sh.in # 0 THEN Close(v, sh.in) ELSE v
  BY <1>0 DEF Restore
<1>2. AtStart
  BY <1>0 DEF TableOK
<1>3. /\ sh.oin \in Fd \ (Std \cup {sh.prev, OutFd, sh.oout}) /\ sh.oout \in Fd \ (Std \cup {sh.prev, OutFd})
      /\ t[sh.oin] = Tty /\ t[sh.oout] = Tty /\ t[2] = Tty /\ Tty # NONE
  BY <1>2, Distinct DEF AtStart, CopiesOK, IsTty, Copies, OutFd, Ends, Std
<1>4. t \in Cells
  BY DEF TypeOK
<1>5. c \in Cells /\ \A e \in Fd : c[e] = t[e] \/ (c[e] = NONE /\ e \in {sh.prev, OutFd})
  BY <1>4, CloseAt DEF CloseEnds
<1> HIDE DEF c, t, u
<1>6. a \in Cells /\ \A e \in Fd : a[e] = IF e = 1 THEN Tty ELSE c[e]
  BY <1>3, <1>5, Dup2At DEF IsOpen
<1> HIDE DEF a
<1>7. b \in Cells /\ \A e \in Fd : b[e] = IF e \in {0, 1} THEN Tty ELSE c[e]
  <2>1. a[sh.oin] = Tty /\ IsOpen(a, sh.oin)
    BY <1>3, <1>5, <1>6 DEF IsOpen, Std
  <2> QED BY <1>6, <2>1, Dup2At
<1> HIDE DEF b
<1>8. d \in Cells /\ \A e \in Fd : d[e] = IF e \in {sh.oin, sh.oout} THEN NONE ELSE b[e]
  BY <1>7, CloseAt
<1> HIDE DEF d
<1>9. v \in Cells /\ \A e \in Fd : v[e] = IF sh.out # 1 /\ e = sh.out THEN NONE ELSE d[e]
  BY <1>8, CloseAt
<1> HIDE DEF v
<1>10. \A e \in Fd : u[e] = IF sh.in # 0 /\ e = sh.in THEN NONE ELSE v[e]
  BY <1>1, <1>9, CloseAt
<1>11. /\ sh.in # 0 => sh.in \in Fd \ Kept
       /\ sh.out # 1 => sh.out \in Fd \ Kept
  BY <1>2 DEF AtStart, RedirsOK
<1>12. u[0] = Tty /\ u[1] = Tty
  BY <1>3, <1>7, <1>8, <1>9, <1>10, <1>11, Distinct DEF Std, Kept
<1>13. u[2] = Tty
  <2>1. c[2] = Tty
    <3>1. 2 # sh.prev /\ 2 # OutFd
      BY <1>2 DEF AtStart, PrevOK, EndsOK, OutFd, Std
    <3> QED BY <1>3, <1>5, <3>1, Distinct
  <2> QED BY <2>1, <1>3, <1>7, <1>8, <1>9, <1>10, <1>11, Distinct DEF Std, Kept
<1>14. \A e \in Fd \ {0, 1} : u[e] \in {t[e], NONE}
  BY <1>5, <1>7, <1>8, <1>9, <1>10
<1>15. Ends' = Ends /\ IsLast' = IsLast
  BY <1>0 DEF Ends, IsLast
<1>16. PrevOK' /\ EndsOK'
  BY <1>0, <1>2, <1>15 DEF AtStart, PrevOK, EndsOK
<1>17. IsTty(Std)'
  BY <1>12, <1>13 DEF IsTty, Std, u
<1>18. AtRead'
  <2> SUFFICES ASSUME ~IsLast PROVE u[sh.fds[1]] = ReadEnd(sh.i)
    BY <1>0, <1>15 DEF AtRead, u
  <2>1. sh.fds[1] \in Fd /\ sh.fds[1] \notin {0, 1, sh.prev, OutFd, sh.oin, sh.oout}
    BY <1>2 DEF AtStart, EndsOK, CopiesOK, Ends, Std, OutFd
  <2>2. (sh.in # 0 => sh.in # sh.fds[1]) /\ (sh.out # 1 => sh.out # sh.fds[1])
    BY <1>11 DEF Kept, Ends
  <2>3. u[sh.fds[1]] = t[sh.fds[1]]
    BY <2>1, <2>2, <1>5, <1>7, <1>8, <1>9, <1>10
  <2> QED BY <2>3, <1>2 DEF AtStart, AtRead, t
<1>19. Numbers(Std \cup {sh.prev} \cup Ends)'
  <2> SUFFICES ASSUME NEW e \in Fd, u[e] # NONE PROVE e \in Std \cup {sh.prev} \cup Ends
    BY <1>0, <1>15 DEF Numbers, u
  <2>1. CASE e \in {0, 1}
    BY <2>1 DEF Std
  <2>2. CASE e \notin {0, 1}
    <3>1. t[e] # NONE
      BY <1>14, <2>2
    <3>2. e \in Kept
      BY <1>2, <3>1 DEF AtStart, Numbers, t
    <3>3. e \notin {sh.oin, sh.oout}
      BY <1>8, <1>9, <1>10
    <3> QED BY <3>2, <3>3 DEF Kept, Copies
  <2> QED BY <2>1, <2>2
<1>20. OnlyOwn'
  <2> SUFFICES ASSUME NEW e \in Fd, NEW k \in Cmd, u[e] = WriteEnd(k) PROVE k = sh.i
    BY <1>0 DEF OnlyOwn, u
  <2>1. e \notin {0, 1} /\ WriteEnd(k) # NONE
    BY <1>12, FilesDiffer, Distinct
  <2>2. t[e] = WriteEnd(k)
    BY <1>14, <2>1
  <2> QED BY <1>2, <2>2 DEF AtStart, OnlyOwn, t
<1> QED BY <1>0, <1>16, <1>17, <1>18, <1>19, <1>20 DEF TableOK, AtNext

\* At the end of the turn the pipe before the command goes too.
LEMMA TableNextCommand ==
  ASSUME TypeOK, Control, TableOK, NextCommand PROVE TableOK'
<1> DEFINE t == fd[Shell]
           u == fd'[Shell]
           c == ClosePipe(t)
<1>0. sh.pc = "next" /\ u = Close(c, sh.prev)
  BY DEF NextCommand, TypeOK
<1>1. AtNext
  BY <1>0 DEF TableOK
<1>2. t \in Cells
  BY DEF TypeOK
<1> HIDE DEF t, u
<1>3. CASE IsLast
  <2>1. sh'.pc = "wait" /\ u = Close(t, sh.prev)
    BY <1>0, <1>3 DEF NextCommand, TypeOK, ClosePipe
  <2>2. u \in Cells /\ \A e \in Fd : u[e] = IF e = sh.prev THEN NONE ELSE t[e]
    BY <1>2, <2>1, CloseAt
  <2>3. \A e \in Fd : e \in Std => u[e] = Tty
    BY <1>1, <2>2 DEF AtNext, IsTty, PrevOK, t, Std
  <2>4. \A e \in Fd : e \notin Std => u[e] = NONE
    BY <1>1, <1>3, <2>2 DEF AtNext, Numbers, Ends, t
  <2>5. u = NewTable
    BY <2>2, <2>3, <2>4 DEF Cells, NewTable, Std
  <2> QED BY <2>1, <2>5 DEF TableOK, u
<1>4. CASE ~IsLast
  <2>1. sh'.pc = "pipe" /\ sh'.line = sh.line /\ sh'.i = sh.i + 1 /\ sh'.prev = sh.fds[1]
    BY <1>4 DEF NextCommand, TypeOK
  <2>2. c \in Cells /\ \A e \in Fd : c[e] = IF e = sh.fds[2] THEN NONE ELSE t[e]
    BY <1>2, <1>4, CloseAt DEF ClosePipe
  <2> HIDE DEF c
  <2>3. \A e \in Fd : u[e] = IF e \in {sh.prev, sh.fds[2]} THEN NONE ELSE t[e]
    BY <1>0, <2>2, CloseAt
  <2>4. /\ sh.fds[1] \in Fd \ (Std \cup {sh.prev}) /\ sh.fds[2] \in Fd \ (Std \cup {sh.prev, sh.fds[1]})
        /\ t[sh.fds[1]] = ReadEnd(sh.i) /\ sh.i \in Nat /\ sh.i # 0
    BY <1>0, <1>1, <1>4, PlaceType DEF AtNext, EndsOK, AtRead, t
  <2>5. PrevOK'
    BY <2>1, <2>4, Distinct DEF PrevOK
  <2>6. IsTty(Std)'
    <3>1. \A e \in Fd \cap Std : e \notin {sh.prev, sh.fds[2]}
      BY <1>1, <2>4 DEF AtNext, PrevOK, Std
    <3> QED BY <1>1, <2>3, <3>1 DEF AtNext, IsTty, t, u
  <2>7. AtPrev'
    BY <2>1, <2>3, <2>4 DEF AtPrev, u
  <2>8. Numbers(Std \cup {sh.prev})'
    <3> SUFFICES ASSUME NEW e \in Fd, u[e] # NONE PROVE e \in Std \cup {sh.fds[1]}
      BY <2>1 DEF Numbers, u
    <3>1. t[e] # NONE /\ e \notin {sh.prev, sh.fds[2]}
      BY <2>3
    <3> QED BY <1>1, <3>1 DEF AtNext, Numbers, Ends, t
  <2> QED BY <2>1, <2>5, <2>6, <2>7, <2>8 DEF TableOK, AtPipe
<1> QED BY <1>3, <1>4

\* The commands do not touch the table of the shell.
LEMMA TableStays ==
  ASSUME TypeOK, Control, TableOK, WaitEnds \/ (\E i \in Cmd : Wait(i) \/ CmdStep(i)) \/ UNCHANGED vars
  PROVE  TableOK'
<1>1. CASE WaitEnds
  <2>1. sh.pc = "wait" /\ sh'.pc = "prompt" /\ fd' = fd
    BY <1>1 DEF WaitEnds, NewLine
  <2> QED BY <2>1 DEF TableOK
<1>2. ASSUME NEW i \in Cmd, Wait(i) PROVE TableOK'
  <2>1. sh.pc = "wait" /\ sh'.pc = "wait" /\ fd' = fd
    BY <1>2 DEF Wait, TypeOK
  <2> QED BY <2>1 DEF TableOK
<1>3. ASSUME sh' = sh, fd'[Shell] = fd[Shell] PROVE TableOK'
  BY <1>3 DEF TableOK, AtPipe, AtOriginals, AtWire, AtStart, AtNext, PrevOK, EndsOK, CopiesOK, RedirsOK, IsTty,
              AtPrev, AtRead, AtWrite, Numbers, OnlyOwn, Kept, Ends, Copies, IsLast
<1>4. ASSUME NEW i \in Cmd, CmdStep(i) PROVE TableOK'
  <2>1. i # Shell
    BY CmdNat
  <2>2. sh' = sh /\ fd'[Shell] = fd[Shell]
    BY <1>4, <2>1 DEF CmdStep, ReadPipe, ReadFile, Stop, Write, TypeOK
  <2> QED BY <1>3, <2>2
<1>5. CASE UNCHANGED vars
  BY <1>3, <1>5 DEF vars
<1> QED BY <1>1, <1>2, <1>4, <1>5

\* A shell that has run a line without a word stays marked.
LEMMA NeverUnmarred ==
  ASSUME TypeOK, [Next]_vars, ~marred' PROVE ~marred
<1>1. CASE Handle
  BY <1>1 DEF Handle, TypeOK
<1>2. CASE ~Handle
  BY <1>2 DEF Next, ShellStep, CmdStep, vars, Pipe, PipeFails, Originals, WireFile, Builtin, Exit, Fork,
              ForkFails, Restored, NextCommand, WaitEnds, Wait, ReadLine, Quit, ReadPipe, ReadFile, Stop, Write
<1> QED BY <1>1, <1>2

\* Every step keeps TableOK.
LEMMA TableStep ==
  ASSUME TypeOK, Control, ~marred => TableOK, [Next]_vars, ~marred' PROVE TableOK'
<1>1. TableOK
  BY NeverUnmarred
<1> QED BY <1>1, TableQuit, TableReadLine, TablePipe, TableOriginals, TableWireFile, TableHandle, TableStart,
           TableRestored, TableNextCommand, TableStays
        DEF Next, ShellStep, PipeFails, Exit, ForkFails

-----------------------------------------------------------------------------
(* The redirections, one by one.                                               *)

\* Done() without Opened().
LEMMA DoneIs ==
  ASSUME NEW types
  PROVE  Done(types) = {j \in DOMAIN Command.redirs :
                          /\ Command.redirs[j].type \in types /\ Found(Command.redirs[j]) /\ j <= Turn}
  BY DEF Done, Opened, Command

\* At first nothing is redirected.
LEMMA WiringOriginals ==
  ASSUME TypeOK, Control, Originals PROVE WiringOK'
<1>0. /\ sh.pc # "prompt" /\ sh'.line = sh.line /\ sh'.i = sh.i /\ sh'.redirs = Command.redirs
      /\ sh'.in = 0 /\ sh'.out = 1 /\ sh'.tin = 0 /\ sh'.tout = 1
  BY OriginalsIs DEF TypeOK
<1>1. Command' = Command
  BY <1>0 DEF Command
<1>2. Command.redirs \in Seq(Redirection)
  BY <1>0, PlaceType
<1>3. Turn' = 0
  BY <1>0, <1>1, <1>2 DEF Turn
<1>4. SubSeq(Command.redirs, 1, Len(Command.redirs)) = Command.redirs
  BY <1>2, SubSeqFull
<1>5. Done({"<", "<<"})' = {} /\ Done({">"})' = {}
  <2>1. \A j \in DOMAIN Command.redirs : ~(j <= 0)
    BY <1>2
  <2> QED BY <1>0, <1>1, <1>3, <2>1 DEF Done, Opened, Command
<1> QED BY <1>0, <1>1, <1>2, <1>3, <1>4, <1>5 DEF WiringOK

\* With files open for one way only, one more can be opened.
LEMMA RoomFor ==
  ASSUME TypeOK, AtWire, NEW d, sh.in \in {0, d}, sh.out \in {1, d}
  PROVE  Unused(fd[Shell]) # {}
<1>1. PICK n \in 0 .. 9 : n \notin {0, 1, 2, sh.prev, sh.fds[1], sh.fds[2], sh.oin, sh.oout, d}
  BY OneIsLeft
<1>2. n \in Fd /\ n \notin Kept \cup {sh.in, sh.out}
  BY <1>1, RoomAssumption DEF Kept, Std, Ends, Copies
<1> QED BY <1>2 DEF AtWire, Numbers, Unused

\* A step further in the list.
LEMMA TurnStep ==
  ASSUME TypeOK, Control, AtWire, WiringOK, WireFile
  PROVE  /\ Command' = Command /\ absent' = absent
         /\ Turn \in Nat /\ Turn' = Turn + 1 /\ Turn' \in DOMAIN Command.redirs
         /\ First = Command.redirs[Turn']
         /\ sh'.redirs = SubSeq(Command.redirs, Turn' + 1, Len(Command.redirs))
<1>0. /\ sh.pc = "wire" /\ sh.redirs # <<>> /\ sh'.line = sh.line /\ sh'.i = sh.i /\ sh'.redirs = Tail(sh.redirs)
      /\ absent' = absent
  BY WireFileIs DEF TypeOK
<1>1. Command' = Command
  BY <1>0 DEF Command
<1>2. Command.redirs \in Seq(Redirection) /\ sh.redirs \in Seq(Redirection)
  BY <1>0, PlaceType DEF TypeOK
<1>3. /\ sh.redirs = SubSeq(Command.redirs, Turn + 1, Len(Command.redirs))
      /\ Turn \in 0 .. Len(Command.redirs)
  BY <1>0 DEF WiringOK
<1>4. Len(sh.redirs) \in Nat \ {0} /\ Len(Tail(sh.redirs)) = Len(sh.redirs) - 1 /\ Len(Command.redirs) \in Nat
  BY <1>0, <1>2
<1>5. Turn' = Turn + 1 /\ Turn < Len(Command.redirs)
  <2>1. Turn = Len(Command.redirs) - Len(sh.redirs)
    BY DEF Turn
  <2>2. Turn' = Len(Command.redirs) - Len(Tail(sh.redirs))
    BY <1>0, <1>1 DEF Turn
  <2>3. PICK a \in Nat, b \in Nat \ {0} : a = Len(Command.redirs) /\ b = Len(sh.redirs)
    BY <1>4
  <2>4. Turn = a - b /\ Turn' = a - (b - 1)
    BY <1>4, <2>1, <2>2, <2>3
  <2>5. a - (b - 1) = (a - b) + 1 /\ a - b < a
    OBVIOUS
  <2> QED BY <2>3, <2>4, <2>5
<1>6. Turn + 1 \in 1 .. Len(Command.redirs) /\ Len(Command.redirs) \in Turn + 1 .. Len(Command.redirs)
  BY <1>3, <1>4, <1>5
<1>7. /\ First = Command.redirs[Turn + 1]
      /\ Tail(sh.redirs) = SubSeq(Command.redirs, Turn + 2, Len(Command.redirs))
  <2> DEFINE C == Command.redirs
             m == Turn + 1
  <2>1. C \in Seq(Redirection) /\ m \in 1 .. Len(C) /\ Len(C) \in m .. Len(C) /\ sh.redirs = SubSeq(C, m, Len(C))
    BY <1>2, <1>3, <1>6
  <2>2. m + 1 = Turn + 2
    BY <1>3, <1>4
  <2> HIDE DEF C, m
  <2>3. Head(sh.redirs) = C[m] /\ Tail(sh.redirs) = SubSeq(C, m + 1, Len(C))
    BY <2>1, HeadTailOfSubSeq
  <2> QED BY <2>2, <2>3 DEF First, C, m
<1>8. DOMAIN Command.redirs = 1 .. Len(Command.redirs)
  BY <1>2
<1>9. Turn \in Nat /\ Turn' + 1 = Turn + 2
  BY <1>3, <1>4, <1>5
<1>10. sh'.redirs = SubSeq(Command.redirs, Turn' + 1, Len(Command.redirs))
  BY <1>0, <1>7, <1>9
<1>11. Turn' \in DOMAIN Command.redirs /\ First = Command.redirs[Turn']
  BY <1>5, <1>6, <1>7, <1>8
<1> QED BY <1>0, <1>1, <1>5, <1>9, <1>10, <1>11

\* ... is one more that counts, when its file is there.
LEMMA DoneStep ==
  ASSUME TypeOK, Control, AtWire, WiringOK, WireFile, NEW types
  PROVE  /\ Done(types)' = IF First.type \in types /\ Found(First) THEN Done(types) \cup {Turn'} ELSE Done(types)
         /\ First.type \in types /\ Found(First) => Max(Done(types)') = Turn'
         /\ Done(types) \subseteq DOMAIN Command.redirs
<1>0. /\ Command' = Command /\ absent' = absent
      /\ Turn \in Nat /\ Turn' = Turn + 1 /\ Turn' \in DOMAIN Command.redirs
      /\ First = Command.redirs[Turn']
  BY TurnStep
<1>1. sh'.line = sh.line /\ sh'.i = sh.i /\ DOMAIN Command.redirs \subseteq Nat
  <2>1. sh.pc = "wire" /\ sh'.line = sh.line /\ sh'.i = sh.i
    BY WireFileIs DEF TypeOK
  <2> QED BY <2>1, PlaceType
<1>2. Done(types) = {j \in DOMAIN Command.redirs :
                       /\ Command.redirs[j].type \in types /\ Found(Command.redirs[j]) /\ j <= Turn}
  BY DoneIs
<1>3. Done(types)' = {j \in DOMAIN Command.redirs :
                       /\ Command.redirs[j].type \in types /\ Found(Command.redirs[j]) /\ j <= Turn'}
  BY <1>0, <1>1 DEF Done, Opened, Command, Found
<1> DEFINE T == Turn'
<1>4. T = Turn + 1 /\ T \in DOMAIN Command.redirs /\ First = Command.redirs[T] /\ Turn \in Nat
  BY <1>0
<1> HIDE DEF T
<1>5. \A j \in DOMAIN Command.redirs : j <= T <=> j <= Turn \/ j = T
  BY <1>1, <1>4
<1>6. Done(types)' = IF First.type \in types /\ Found(First) THEN Done(types) \cup {T} ELSE Done(types)
  BY <1>2, <1>3, <1>4, <1>5 DEF T
<1>7. ASSUME First.type \in types, Found(First) PROVE Max(Done(types)') = T
  <2>1. T \in Done(types)'
    BY <1>6, <1>7
  <2>2. Done(types)' \in SUBSET Int
    BY <1>1, <1>3
  <2>3. \A j \in Done(types)' : j <= T
    BY <1>3 DEF T
  <2> HIDE <1>6
  <2> QED BY <2>1, <2>2, <2>3, MaxIs
<1> QED BY <1>2, <1>6, <1>7 DEF T

\* A list of one way: the last file that could be opened is what the shell has for it.
LEMMA WiringWireFile ==
  ASSUME TypeOK, Control, TableOK, WiringOK, WireFile PROVE WiringOK'
<1> DEFINE t == fd[Shell]
           u == fd'[Shell]
           C == Command.redirs
           P == Put(t, FirstFd, Target(First))
           Q == Assigned(P, sh.in, FirstIn)
           T == Turn'
           Ins == {"<", "<<"}
           Outs == {">"}
           AllIn  == \A j \in DOMAIN C : C[j].type # ">"
           AllOut == \A j \in DOMAIN C : C[j].type = ">"
<1>0. /\ sh.pc = "wire" /\ sh.redirs # <<>> /\ sh'.pc = "wire"
      /\ sh'.tin = FirstIn /\ sh'.tout = FirstOut
      /\ sh'.in = (IF FirstIn > -1 THEN FirstIn ELSE sh.in)
      /\ sh'.out = (IF FirstOut > -1 THEN FirstOut ELSE sh.out)
      /\ u = Assigned(Q, sh.out, FirstOut)
  BY WireFileIs DEF TypeOK
<1>1. AtWire
  BY <1>0 DEF TableOK
<1>2. /\ First \in Redirection
      /\ FirstFd \in (Fd \ Kept) \cup {-1}
      /\ FirstFd # -1 => t[FirstFd] = NONE
  BY <1>0, <1>1, FirstIs
<1>3. /\ Command' = Command /\ absent' = absent
      /\ Turn \in Nat /\ T = Turn + 1 /\ T \in DOMAIN C /\ First = C[T]
      /\ sh'.redirs = SubSeq(C, T + 1, Len(C))
  BY <1>1, TurnStep
<1>4. /\ t \in Cells /\ Target(First) \in Opens /\ Target(First) # NONE
  BY <1>2, TargetType, Distinct DEF TypeOK
<1>5. P \in Cells /\ \A e \in Fd : P[e] = IF e = FirstFd THEN Target(First) ELSE t[e]
  BY <1>4, PutAt
<1>6. Q \in Cells /\ \A e \in Fd : Q[e] = IF FirstIn > -1 /\ sh.in > 1 /\ e = sh.in THEN NONE ELSE P[e]
  BY <1>5, AssignedAt
<1>7. \A e \in Fd : u[e] = IF FirstOut > -1 /\ sh.out > 1 /\ e = sh.out THEN NONE ELSE Q[e]
  BY <1>0, <1>6, AssignedAt
<1> HIDE DEF t, u, P, Q
<1>8. T \in 0 .. Len(C)
  <2>1. C \in Seq(Redirection)
    BY <1>0, PlaceType
  <2> QED BY <1>3, <2>1
<1>9. /\ sh.in \in (Fd \ Kept) \cup {0} /\ sh.out \in (Fd \ Kept) \cup {1}
      /\ \A d \in Fd \ Kept : d > 1 /\ d > -1
  BY <1>1, FdNat DEF AtWire, RedirsOK, Kept, Std
<1>10. /\ Done(Ins)' = IF First.type \in Ins /\ Found(First) THEN Done(Ins) \cup {T} ELSE Done(Ins)
       /\ First.type \in Ins /\ Found(First) => Max(Done(Ins)') = T
       /\ Done(Ins) \subseteq DOMAIN C
  BY <1>0, <1>1, DoneStep
<1>11. /\ Done(Outs)' = IF First.type \in Outs /\ Found(First) THEN Done(Outs) \cup {T} ELSE Done(Outs)
       /\ First.type \in Outs /\ Found(First) => Max(Done(Outs)') = T
       /\ Done(Outs) \subseteq DOMAIN C
  BY <1>0, <1>1, DoneStep
<1>12. Found(First) /\ (sh.in = 0 \/ sh.out = 1) => FirstFd \in Fd \ Kept
  <2> SUFFICES ASSUME Found(First), sh.in = 0 \/ sh.out = 1 PROVE FirstFd # -1
    BY <1>2
  <2>1. Unused(t) # {}
    <3>1. CASE sh.in = 0
      BY <1>1, <1>9, <3>1, RoomFor DEF t
    <3>2. CASE sh.out = 1
      BY <1>1, <1>9, <3>2, RoomFor DEF t
    <3> QED BY <3>1, <3>2
  <2>2. FirstFd = Lowest(t)
    BY DEF FirstFd, NewFd, t
  <2>3. PICK n \in Fd : t[n] = NONE
    BY <2>1 DEF Unused
  <2>4. FirstFd \in Fd
    BY <1>4, <2>2, <2>3, LowestIn
  <2> QED BY <2>4, Distinct
<1>13. ~Found(First) => FirstFd = -1 /\ First.type # "<<"
  BY DEF FirstFd, NewFd, Found
<1>14. OneWay(C) => AllIn \/ AllOut
  <2> SUFFICES ASSUME OneWay(C) PROVE AllIn \/ AllOut
    OBVIOUS
  <2>1. \A j \in DOMAIN C : C[j] \in Range(C)
    BY DEF Range
  <2>2. \A j \in DOMAIN C : (C[j].type = ">") = (First.type = ">")
    BY <1>3, <2>1 DEF OneWay
  <2> QED BY <2>2
<1> HIDE DEF C, T
<1>15. Command.redirs = C /\ (Command.redirs)' = C
  BY <1>3 DEF C
<1> DEFINE On(d, types) == t[d] # NONE /\ t[d] = Target(C[Max(Done(types))])
           NowOn(d, types) == u[d] # NONE /\ u[d] = Target(C[Max(Done(types)')])
<1>16. ASSUME OneWay(C)
       PROVE  /\ IF Done(Ins) = {} THEN sh.in = 0 ELSE sh.in # 0 /\ On(sh.in, Ins)
              /\ IF Done(Outs) = {} THEN sh.out = 1 ELSE sh.out # 1 /\ On(sh.out, Outs)
              /\ AllIn => sh.tout = 1 /\ sh.out = 1
              /\ AllOut => sh.tin = 0 /\ sh.in = 0
  BY <1>0, <1>15, <1>16 DEF WiringOK, IsOn, t
<1> DEFINE Wired ==
              /\ IF Done(Ins)' = {} THEN sh'.in = 0 ELSE sh'.in # 0 /\ NowOn(sh'.in, Ins)
              /\ IF Done(Outs)' = {} THEN sh'.out = 1 ELSE sh'.out # 1 /\ NowOn(sh'.out, Outs)
              /\ AllIn => sh'.tout = 1 /\ sh'.out = 1
              /\ AllOut => sh'.tin = 0 /\ sh'.in = 0
<1>17. ASSUME OneWay(C), AllIn PROVE Wired
  <2>1. First.type \in Ins /\ First.type \notin Outs /\ First.type # ">"
    <3>1. First.type \in {"<", "<<", ">"}
      BY <1>2 DEF Redirection
    <3> QED BY <1>3, <1>17, <3>1
  <2>2. sh.tout = 1 /\ sh.out = 1 /\ FirstOut = 1 /\ sh'.out = 1 /\ sh'.tout = 1
    BY <1>0, <1>16, <1>17, <2>1 DEF FirstOut
  <2>3. Done(Outs)' = Done(Outs) /\ Done(Outs) = {}
    BY <1>11, <1>16, <1>17, <2>1, <2>2
  <2>4. \A e \in Fd : u[e] = Q[e]
    BY <1>7, <2>2
  <2>5. AllOut => sh'.tin = 0 /\ sh'.in = 0
    BY <1>3, <1>17, <2>1
  <2>6. CASE Found(First)
    <3>1. FirstFd \in Fd \ Kept /\ FirstFd > 1 /\ FirstFd > -1 /\ FirstIn = FirstFd
      BY <1>9, <1>12, <2>1, <2>2, <2>6, Distinct DEF FirstIn
    <3>2. sh'.in = FirstFd /\ sh'.in # 0
      BY <1>0, <3>1
    <3>3. sh.in # FirstFd
      <4> SUFFICES ASSUME sh.in = FirstFd PROVE FALSE
        OBVIOUS
      <4>1. sh.in # 0 /\ t[sh.in] = NONE
        BY <1>2, <3>1
      <4> QED BY <1>16, <1>17, <4>1
    <3>4. u[FirstFd] = Target(First)
      BY <1>5, <1>6, <2>4, <3>1, <3>3
    <3>5. Done(Ins)' # {} /\ Max(Done(Ins)') = T
      BY <1>10, <2>1, <2>6
    <3> QED BY <1>3, <1>4, <2>2, <2>3, <2>5, <3>2, <3>4, <3>5
  <2>7. CASE ~Found(First)
    <3>1. FirstFd = -1 /\ FirstIn = -1 /\ sh'.in = sh.in
      BY <1>0, <1>13, <2>1, <2>7 DEF FirstIn
    <3>2. \A e \in Fd : u[e] = t[e]
      <4>1. ~(FirstIn > -1) /\ FirstFd \notin Fd
        BY <3>1, Distinct
      <4>2. \A e \in Fd : P[e] = t[e]
        BY <1>5, <4>1
      <4>3. \A e \in Fd : Q[e] = P[e]
        BY <1>6, <4>1
      <4> QED BY <2>4, <4>2, <4>3
    <3>3. Done(Ins)' = Done(Ins)
      BY <1>10, <2>7
    <3>4. sh.in # 0 => sh.in \in Fd
      BY <1>9
    <3> QED BY <1>16, <1>17, <2>2, <2>3, <2>5, <3>1, <3>2, <3>3, <3>4
  <2> QED BY <2>6, <2>7
<1>18. ASSUME OneWay(C), AllOut PROVE Wired
  <2>1. First.type \in Outs /\ First.type \notin Ins /\ First.type = ">"
    BY <1>3, <1>18
  <2>2. sh.tin = 0 /\ sh.in = 0 /\ FirstIn = 0 /\ sh'.in = 0 /\ sh'.tin = 0
    BY <1>0, <1>16, <1>18, <2>1 DEF FirstIn
  <2>3. Done(Ins)' = Done(Ins) /\ Done(Ins) = {}
    BY <1>10, <1>16, <1>18, <2>1, <2>2
  <2>4. \A e \in Fd : Q[e] = P[e]
    BY <1>6, <2>2
  <2>5. AllIn => sh'.tout = 1 /\ sh'.out = 1
    BY <1>3, <1>18, <2>1
  <2>6. FirstOut = FirstFd
    BY <2>1 DEF FirstOut
  <2>7. CASE Found(First)
    <3>1. FirstFd \in Fd \ Kept /\ FirstFd > 1 /\ FirstFd > -1
      BY <1>9, <1>12, <2>2, <2>7, Distinct
    <3>2. sh'.out = FirstFd /\ sh'.out # 1
      BY <1>0, <2>6, <3>1
    <3>3. sh.out # FirstFd
      <4> SUFFICES ASSUME sh.out = FirstFd PROVE FALSE
        OBVIOUS
      <4>1. sh.out # 1 /\ t[sh.out] = NONE
        BY <1>2, <3>1
      <4> QED BY <1>16, <1>18, <4>1
    <3>4. u[FirstFd] = Target(First)
      BY <1>5, <1>7, <2>4, <3>1, <3>3
    <3>5. Done(Outs)' # {} /\ Max(Done(Outs)') = T
      BY <1>11, <2>1, <2>7
    <3> QED BY <1>3, <1>4, <2>2, <2>3, <2>5, <3>2, <3>4, <3>5
  <2>8. CASE ~Found(First)
    <3>1. FirstFd = -1 /\ FirstOut = -1 /\ sh'.out = sh.out
      BY <1>0, <1>13, <2>6, <2>8
    <3>2. \A e \in Fd : u[e] = t[e]
      <4>1. ~(FirstOut > -1) /\ FirstFd \notin Fd
        BY <3>1, Distinct
      <4>2. \A e \in Fd : P[e] = t[e]
        BY <1>5, <4>1
      <4>3. \A e \in Fd : u[e] = Q[e]
        BY <1>7, <4>1
      <4> QED BY <2>4, <4>2, <4>3
    <3>3. Done(Outs)' = Done(Outs)
      BY <1>11, <2>8
    <3>4. sh.out # 1 => sh.out \in Fd
      BY <1>9
    <3> QED BY <1>16, <1>18, <2>2, <2>3, <2>5, <3>1, <3>2, <3>3, <3>4
  <2> QED BY <2>7, <2>8
<1>19. OneWay(C) => Wired
  BY <1>14, <1>17, <1>18
<1> QED BY <1>0, <1>3, <1>8, <1>15, <1>19 DEF WiringOK, IsOn, u, T, C

\* Every step keeps WiringOK.
LEMMA WiringStep ==
  ASSUME TypeOK, Control, TableOK, WiringOK, [Next]_vars PROVE WiringOK'
<1>1. CASE Originals
  BY <1>1, WiringOriginals
<1>2. CASE WireFile
  BY <1>2, WiringWireFile
<1>3. CASE Handle
  <2>1. sh'.pc # "wire"
    BY <1>3 DEF Handle, Goto, TypeOK
  <2> QED BY <2>1 DEF WiringOK
<1>4. CASE Pipe
  <2>1. \E r, w : sh' = [sh EXCEPT !.pc = "originals", !.fds = <<r, w>>]
    BY <1>4 DEF Pipe
  <2>2. sh'.pc # "wire"
    BY <2>1 DEF TypeOK
  <2> QED BY <2>2 DEF WiringOK
<1>5. CASE PipeFails \/ Exit \/ ForkFails \/ Builtin \/ Fork \/ Restored \/ NextCommand \/ ReadLine \/ WaitEnds
  <2>1. sh'.pc # "wire"
    BY <1>5 DEF TypeOK, PipeFails, Exit, ForkFails, Builtin, Fork, Restored, NextCommand, ReadLine, WaitEnds,
                Quit, Goto, NewLine
  <2> QED BY <2>1 DEF WiringOK
<1>6. ASSUME NEW i \in Cmd, Wait(i) PROVE WiringOK'
  <2>1. sh'.pc # "wire"
    BY <1>6 DEF Wait, TypeOK
  <2> QED BY <2>1 DEF WiringOK
<1>7. ASSUME sh' = sh, absent' = absent, fd'[Shell] = fd[Shell] PROVE WiringOK'
  <2>1. \A types : Done(types)' = Done(types)
    BY <1>7 DEF Done, Opened, Found, Turn, Command
  <2> QED BY <1>7, <2>1 DEF WiringOK, IsOn, Turn, Command
<1>8. ASSUME NEW i \in Cmd, CmdStep(i) PROVE WiringOK'
  <2>1. i # Shell
    BY CmdNat
  <2>2. sh' = sh /\ absent' = absent /\ fd'[Shell] = fd[Shell]
    BY <1>8, <2>1 DEF CmdStep, ReadPipe, ReadFile, Stop, Write, TypeOK
  <2> QED BY <1>7, <2>2
<1>9. CASE UNCHANGED vars
  BY <1>7, <1>9 DEF vars
<1> QED BY <1>1, <1>2, <1>3, <1>4, <1>5, <1>6, <1>8, <1>9 DEF Next, ShellStep

-----------------------------------------------------------------------------
(* What the commands have.                                                     *)

\* When the redirections are done the command gets what it asked for.
LEMMA WiredHandle ==
  ASSUME TypeOK, Control, TableOK, WiringOK, Handle, OneWay(Command.redirs)
  PROVE  fd'[Shell][0] = Input(sh.i) /\ fd'[Shell][1] = Output(sh.i)
<1> DEFINE t == fd[Shell]
           u == fd'[Shell]
           C == Command.redirs
<1>0. sh.pc = "wire" /\ sh.redirs = <<>> /\ u = HandleOut(HandleIn(t))
  BY DEF Handle, Goto, TypeOK
<1>1. AtWire
  BY <1>0 DEF TableOK
<1>2. C \in Seq(Redirection) /\ Turn = Len(C) /\ Len(C) \in Nat /\ DOMAIN C = 1 .. Len(C)
  BY <1>0, PlaceType DEF Turn
<1>3. \A types : Done(types) = Opened(sh.i, types)
  <2>1. \A j \in DOMAIN C : j <= Turn
    BY <1>2
  <2> QED BY <2>1 DEF Done, Opened, Command
<1> DEFINE Ins == {"<", "<<"}
           Outs == {">"}
<1> HIDE DEF t, u
<1>4. /\ IF sh.in # 0 THEN t[sh.in] # NONE => u[0] = t[sh.in]
         ELSE IF sh.i # 1 THEN u[0] = ReadEnd(sh.i - 1)
         ELSE u[0] = Tty
      /\ IF sh.out # 1 THEN t[sh.out] # NONE /\ sh.in = 0 => u[1] = t[sh.out]
         ELSE IF ~IsLast THEN u[1] = WriteEnd(sh.i)
         ELSE u[1] = Tty
  BY <1>0, <1>1, Handled DEF t
<1>5. /\ IF Opened(sh.i, Ins) = {} THEN sh.in = 0
         ELSE sh.in # 0 /\ t[sh.in] # NONE /\ t[sh.in] = Given(sh.i, Ins)
      /\ IF Opened(sh.i, Outs) = {} THEN sh.out = 1
         ELSE sh.out # 1 /\ t[sh.out] # NONE /\ t[sh.out] = Given(sh.i, Outs)
      /\ (\A j \in DOMAIN C : C[j].type # ">") => sh.out = 1
      /\ (\A j \in DOMAIN C : C[j].type = ">") => sh.in = 0
  BY <1>0, <1>3 DEF WiringOK, IsOn, Given, t, Command
<1>6. sh.in = 0 \/ sh.out = 1
  <2>1. \A j \in DOMAIN C : C[j] \in Range(C)
    BY DEF Range
  <2>2. \A j, k \in DOMAIN C : (C[j].type = ">") = (C[k].type = ">")
    BY <2>1 DEF OneWay
  <2>3. (\A j \in DOMAIN C : C[j].type # ">") \/ (\A j \in DOMAIN C : C[j].type = ">")
    BY <2>2
  <2> QED BY <1>5, <2>3
<1>7. /\ sh.i \in Nat /\ sh.i # 0 /\ (~IsLast <=> sh.i < Len(sh.line))
  BY <1>0, PlaceType DEF IsLast
<1>8. u[0] = Input(sh.i)
  BY <1>4, <1>5, <1>7 DEF Input
<1>9. u[1] = Output(sh.i)
  BY <1>4, <1>5, <1>6, <1>7 DEF Output
<1> QED BY <1>8, <1>9 DEF u

\* What a command asks for is a matter of the line and the files.
LEMMA WiredStays ==
  ASSUME sh'.line = sh.line, absent' = absent
  PROVE  \A i : /\ Input(i)' = Input(i) /\ Output(i)' = Output(i)
                /\ OneWay(sh.line[i].redirs)' = OneWay(sh.line[i].redirs)
  BY DEF Input, Output, Given, Opened, Found, OneWay

StartWired ==
  sh.pc = "start" /\ OneWay(Command.redirs) =>
    fd[Shell][0] = Input(sh.i) /\ fd[Shell][1] = Output(sh.i)
ChildrenWired ==
  \A i \in Cmd : proc[i].state = "runs" /\ OneWay(sh.line[i].redirs) =>
    fd[i][0] = Input(i) /\ fd[i][1] = Output(i)

\* The steps of the shell that start no command leave the commands alone.
LEMMA ChildrenAlone ==
  ASSUME ChildrenWired, OwnEnds, sh'.line = sh.line, absent' = absent,
         \A i \in Cmd : fd'[i] = fd[i] /\ (proc'[i].state = "runs" => proc[i].state = "runs")
  PROVE  ChildrenWired' /\ OwnEnds'
<1>1. \A i : /\ Input(i)' = Input(i) /\ Output(i)' = Output(i)
             /\ OneWay(sh.line[i].redirs)' = OneWay(sh.line[i].redirs)
  BY WiredStays
<1>2. ChildrenWired'
  BY <1>1 DEF ChildrenWired
<1> QED BY <1>2 DEF OwnEnds

\* Every step keeps what the commands have, and their own ends.
LEMMA WiredStep ==
  ASSUME TypeOK, Control, TableOK, WiringOK, WiredOK, OwnEnds, [Next]_vars
  PROVE  WiredOK' /\ OwnEnds'
<1> SUFFICES StartWired' /\ ChildrenWired' /\ OwnEnds'
  BY DEF WiredOK, StartWired, ChildrenWired
<1>0. StartWired /\ ChildrenWired
  BY DEF WiredOK, StartWired, ChildrenWired
<1>t. fd \in [{Shell} \cup Cmd -> Cells] /\ Shell \notin Cmd
  BY CmdNat DEF TypeOK
<1>1. ASSUME UNCHANGED <<proc, absent>>, sh'.line = sh.line, sh'.pc # "start",
             \E t : fd' = [fd EXCEPT ![Shell] = t]
      PROVE  StartWired' /\ ChildrenWired' /\ OwnEnds'
  <2>1. \A i \in Cmd : fd'[i] = fd[i]
    BY <1>1, <1>t
  <2> QED BY <1>0, <1>1, <2>1, ChildrenAlone DEF StartWired
<1>2. CASE Pipe
  <2>1. PICK r, w : /\ sh' = [sh EXCEPT !.pc = "originals", !.fds = <<r, w>>]
                    /\ fd' = [fd EXCEPT ![Shell] = [@ EXCEPT ![r] = ReadEnd(sh.i), ![w] = WriteEnd(sh.i)]]
    BY <1>2, Zenon DEF Pipe
  <2>2. sh'.line = sh.line /\ sh'.pc # "start"
    BY <2>1 DEF TypeOK
  <2>3. \A i \in Cmd : fd'[i] = fd[i]
    BY <2>1, <1>t
  <2>4. UNCHANGED <<proc, absent>>
    BY <1>2 DEF Pipe
  <2> QED BY <1>0, <2>2, <2>3, <2>4, ChildrenAlone DEF StartWired
<1>3. CASE Quit
  <2>1. UNCHANGED <<proc, absent>> /\ sh'.line = sh.line /\ sh'.pc # "start" /\ fd' = [fd EXCEPT ![Shell] = Closed]
    BY <1>3 DEF Quit, Goto, TypeOK
  <2> QED BY <1>1, <2>1
<1>4. CASE Originals
  <2>1. /\ UNCHANGED <<proc, absent>> /\ sh'.line = sh.line /\ sh'.pc # "start"
        /\ \E t : fd' = [fd EXCEPT ![Shell] = t]
    BY <1>4, OriginalsIs DEF TypeOK
  <2> QED BY <1>1, <2>1
<1>5. CASE WireFile
  <2>1. /\ UNCHANGED <<proc, absent>> /\ sh'.line = sh.line /\ sh'.pc # "start"
        /\ \E t : fd' = [fd EXCEPT ![Shell] = t]
    BY <1>5, WireFileIs DEF TypeOK
  <2> QED BY <1>1, <2>1
<1>6. CASE Handle
  <2>1. /\ UNCHANGED <<proc, absent>> /\ sh'.line = sh.line /\ sh'.i = sh.i
        /\ fd' = [fd EXCEPT ![Shell] = HandleOut(HandleIn(fd[Shell]))]
    BY <1>6 DEF Handle, Goto, TypeOK
  <2>2. \A i \in Cmd : fd'[i] = fd[i]
    BY <2>1, <1>t
  <2>3. ChildrenWired' /\ OwnEnds'
    BY <1>0, <2>1, <2>2, ChildrenAlone
  <2>4. /\ Input(sh.i)' = Input(sh.i) /\ Output(sh.i)' = Output(sh.i)
        /\ Command' = Command /\ OneWay(Command.redirs)' = OneWay(Command.redirs)
    BY <2>1 DEF Input, Output, Given, Opened, Found, OneWay, Command
  <2>5. StartWired'
    BY <1>6, <2>1, <2>4, WiredHandle DEF StartWired
  <2> QED BY <2>3, <2>5
<1>7. CASE Builtin
  <2>1. UNCHANGED <<proc, absent, fd>> /\ sh'.line = sh.line /\ sh'.pc # "start"
    BY <1>7 DEF Builtin, TypeOK
  <2> QED BY <1>0, <2>1, ChildrenAlone DEF StartWired
<1>8. CASE Fork
  <2>1. /\ sh.pc = "start" /\ sh'.pc = "restore" /\ sh'.line = sh.line /\ absent' = absent
        /\ fd' = [fd EXCEPT ![sh.i] = fd[Shell]] /\ sh.i \in Cmd
    BY <1>8, PlaceType DEF Fork, TypeOK
  <2>2. \A i \in Cmd : i # sh.i => proc'[i] = proc[i] /\ fd'[i] = fd[i]
    BY <1>8, <2>1, <1>t DEF Fork, TypeOK
  <2>3. fd'[sh.i] = fd[Shell]
    BY <2>1, <1>t
  <2>4. \A i : /\ Input(i)' = Input(i) /\ Output(i)' = Output(i)
               /\ OneWay(sh.line[i].redirs)' = OneWay(sh.line[i].redirs)
    BY <2>1, WiredStays
  <2>5. ChildrenWired'
    <3> SUFFICES ASSUME NEW i \in Cmd, proc'[i].state = "runs", OneWay(sh.line[i].redirs)
                 PROVE  fd'[i][0] = Input(i) /\ fd'[i][1] = Output(i)
      BY <2>1, <2>4 DEF ChildrenWired
    <3>1. CASE i = sh.i
      BY <1>0, <2>1, <2>3, <3>1 DEF StartWired, Command
    <3>2. CASE i # sh.i
      BY <1>0, <2>2, <3>2 DEF ChildrenWired
    <3> QED BY <3>1, <3>2
  <2>6. OwnEnds'
    <3>1. OnlyOwn
      BY <2>1 DEF TableOK, AtStart
    <3> QED BY <2>2, <2>3, <3>1 DEF OwnEnds, OnlyOwn
  <2> QED BY <2>1, <2>5, <2>6 DEF StartWired
<1>9. CASE Restored
  <2>1. /\ UNCHANGED <<proc, absent>> /\ sh'.line = sh.line /\ sh'.pc # "start"
        /\ \E t : fd' = [fd EXCEPT ![Shell] = t]
    BY <1>9 DEF Restored, Goto, TypeOK
  <2> QED BY <1>1, <2>1
<1>10. CASE NextCommand
  <2>1. /\ UNCHANGED <<proc, absent>> /\ sh'.line = sh.line /\ sh'.pc # "start"
        /\ \E t : fd' = [fd EXCEPT ![Shell] = t]
    BY <1>10 DEF NextCommand, TypeOK
  <2> QED BY <1>1, <2>1
<1>11. ASSUME \A i \in Cmd : proc'[i].state = "none", sh'.pc # "start", fd' = fd
       PROVE  StartWired' /\ ChildrenWired' /\ OwnEnds'
  BY <1>11 DEF StartWired, ChildrenWired, OwnEnds
<1>12. CASE WaitEnds
  <2>1. sh'.pc # "start" /\ fd' = fd /\ proc' = proc /\ \A i \in Cmd : proc[i].state = "none"
    BY <1>12 DEF WaitEnds, NewLine, Children
  <2> QED BY <1>11, <2>1
<1>13. CASE ReadLine
  <2>1. sh.pc = "prompt" /\ sh'.pc # "start" /\ fd' = fd /\ proc' = proc
    BY <1>13 DEF ReadLine, TypeOK
  <2>2. \A i \in Cmd : proc[i].state = "none"
    BY <2>1 DEF Control, ChildrenOK
  <2> QED BY <1>11, <2>1, <2>2
<1>14. ASSUME NEW i \in Cmd, Wait(i) PROVE StartWired' /\ ChildrenWired' /\ OwnEnds'
  <2>1. sh'.line = sh.line /\ absent' = absent /\ fd' = fd /\ sh'.pc # "start"
    BY <1>14 DEF Wait, TypeOK
  <2>2. \A k \in Cmd : proc'[k].state = "runs" => proc[k].state = "runs"
    BY <1>14 DEF Wait, TypeOK, NoProcess
  <2> QED BY <1>0, <2>1, <2>2, ChildrenAlone DEF StartWired
<1>15. ASSUME NEW i \in Cmd, CmdStep(i) PROVE StartWired' /\ ChildrenWired' /\ OwnEnds'
  <2>1. sh' = sh /\ absent' = absent
    BY <1>15 DEF CmdStep, ReadPipe, ReadFile, Stop, Write
  <2>2. CASE Stop(i)
    <3>1. \A k \in Cmd : k # i => proc'[k] = proc[k] /\ fd'[k] = fd[k]
      BY <2>2, <1>t DEF Stop, TypeOK
    <3>2. proc'[i].state # "runs" /\ fd'[i] = Closed /\ fd'[Shell] = fd[Shell]
      BY <2>2, <1>t DEF Stop, TypeOK
    <3>3. \A k : /\ Input(k)' = Input(k) /\ Output(k)' = Output(k)
                 /\ OneWay(sh.line[k].redirs)' = OneWay(sh.line[k].redirs)
      BY <2>1, WiredStays
    <3>4. ChildrenWired'
      BY <1>0, <2>1, <3>1, <3>2, <3>3 DEF ChildrenWired
    <3>5. OwnEnds'
      <4> SUFFICES ASSUME NEW k \in Cmd, NEW m \in Cmd, NEW d \in Fd, fd'[k][d] = WriteEnd(m) PROVE m = k
        BY DEF OwnEnds
      <4>1. Closed[d] = NONE /\ WriteEnd(m) # NONE
        BY Distinct DEF Closed
      <4>2. k # i
        BY <3>2, <4>1
      <4> QED BY <3>1, <4>2 DEF OwnEnds
    <3>6. StartWired'
      <4>1. Input(sh.i)' = Input(sh.i) /\ Output(sh.i)' = Output(sh.i) /\ Command' = Command
        BY <2>1 DEF Input, Output, Given, Opened, Found, Command
      <4> QED BY <1>0, <2>1, <3>2, <4>1 DEF StartWired
    <3> QED BY <3>4, <3>5, <3>6
  <2>3. CASE ReadPipe(i) \/ ReadFile(i) \/ Write(i)
    <3>1. fd' = fd
      BY <2>3 DEF ReadPipe, ReadFile, Write
    <3>2. \A k \in Cmd : proc'[k].state = "runs" => proc[k].state = "runs"
      <4>1. CASE ReadPipe(i) \/ ReadFile(i)
        <5>1. proc' = [proc EXCEPT ![i].holds = TRUE]
          BY <4>1 DEF ReadPipe, ReadFile
        <5> QED BY <5>1 DEF TypeOK
      <4>2. CASE Write(i)
        <5>1. \E left, more : proc' = [proc EXCEPT ![i] = [@ EXCEPT !.left = left, !.holds = more]]
          BY <4>2, Zenon DEF Write
        <5> QED BY <5>1 DEF TypeOK
      <4> QED BY <2>3, <4>1, <4>2
    <3>3. StartWired'
      <4>1. Input(sh.i)' = Input(sh.i) /\ Output(sh.i)' = Output(sh.i) /\ Command' = Command
        BY <2>1 DEF Input, Output, Given, Opened, Found, Command
      <4> QED BY <1>0, <2>1, <3>1, <4>1 DEF StartWired
    <3> QED BY <1>0, <2>1, <3>1, <3>2, <3>3, ChildrenAlone
  <2> QED BY <1>15, <2>2, <2>3 DEF CmdStep
<1>16. CASE UNCHANGED vars
  <2>1. sh' = sh /\ absent' = absent /\ fd' = fd /\ proc' = proc
    BY <1>16 DEF vars
  <2>2. Input(sh.i)' = Input(sh.i) /\ Output(sh.i)' = Output(sh.i) /\ Command' = Command
    BY <2>1 DEF Input, Output, Given, Opened, Found, Command
  <2>3. StartWired'
    BY <1>0, <2>1, <2>2 DEF StartWired
  <2> QED BY <1>0, <2>1, <2>3, ChildrenAlone
<1> QED BY <1>2, <1>3, <1>4, <1>5, <1>6, <1>7, <1>8, <1>9, <1>10, <1>12, <1>13, <1>14, <1>15, <1>16
     DEF Next, ShellStep, PipeFails, Exit, ForkFails

-----------------------------------------------------------------------------
(* The theorems.                                                               *)

\* The invariant is inductive.
LEMMA Inductive == Spec => []IInv
<1>1. Init => IInv
  <2> SUFFICES ASSUME Init PROVE IInv
    OBVIOUS
  <2>1. TypeOK /\ Control /\ TableOK
    BY TypeInit, ControlInit, TableInit
  <2>2. sh.pc = "prompt" /\ \A i \in Cmd : proc[i].state = "none"
    BY DEF Init, NewLine, NoProcess
  <2>3. \A i \in Cmd : fd[i] = Closed
    BY CmdNat DEF Init
  <2>4. WiringOK /\ WiredOK /\ OwnEnds
    BY <2>2, <2>3, Distinct DEF WiringOK, WiredOK, OwnEnds, Closed
  <2> QED BY <2>1, <2>4 DEF IInv, Control
<1>2. IInv /\ [Next]_vars => IInv'
  <2> SUFFICES ASSUME IInv, [Next]_vars PROVE IInv'
    OBVIOUS
  <2>1. TypeOK /\ Control /\ (~marred => TableOK /\ WiringOK /\ WiredOK /\ OwnEnds)
    BY DEF IInv, Control
  <2>2. TypeOK'
    BY <2>1, TypeStep DEF Control
  <2>3. Control'
    BY <2>1, ControlStep
  <2>4. ASSUME ~marred' PROVE (TableOK /\ WiringOK /\ WiredOK /\ OwnEnds)'
    <3>1. TableOK /\ WiringOK /\ WiredOK /\ OwnEnds
      BY <2>1, <2>4, NeverUnmarred
    <3>2. TableOK'
      BY <2>1, <2>4, <3>1, TableStep
    <3>3. WiringOK'
      BY <2>1, <3>1, WiringStep
    <3>4. WiredOK' /\ OwnEnds'
      BY <2>1, <3>1, WiredStep
    <3> QED BY <3>2, <3>3, <3>4
  <2> QED BY <2>2, <2>3, <2>4 DEF IInv, Control
<1> QED BY <1>1, <1>2, PTL DEF Spec

\* The variables of command_processor() and executor() keep their types.
THEOREM Typed == Spec => []TypeOK
<1>1. IInv => TypeOK
  BY DEF IInv
<1> QED BY <1>1, Inductive, PTL

\* executor(): whichever files were missing, whatever the shell did with its own
\* descriptors for the commands before, a command has at 0 and 1 what its
\* redirections say, else the pipes beside it, else the terminal.
THEOREM CommandsAreWired == Spec => []WiredAsAsked
<1>1. IInv => WiredAsAsked
  BY DEF IInv, WiredOK, WiredAsAsked
<1> QED BY <1>1, Inductive, PTL

\* close_and_original_fd() and what follows it: the shell that waits, or asks for a line,
\* has the terminal at its own three descriptors and nothing else open.
THEOREM NothingStaysOpen == Spec => []DescriptorsRestored
<1>1. IInv => DescriptorsRestored
  BY DEF IInv, TableOK, DescriptorsRestored
<1> QED BY <1>1, Inductive, PTL

\* Nobody keeps a write end that would hide the end of a command's input, and when all
\* children have been waited for the status is the last command's.
THEOREM LinesAreRun == Spec => []LineIsRun
<1>1. IInv => EndIsSeen
  <2> SUFFICES ASSUME IInv, ~marred, NEW i \in Cmd, NEW p \in {Shell} \cup Cmd, NEW d \in Fd, fd[p][d] = WriteEnd(i)
               PROVE  p \in (IF sh.pc \in {"wait", "prompt"} THEN {i} ELSE {i, Shell})
    BY DEF EndIsSeen, Holders
  <2>1. p \in Cmd => p = i
    BY DEF IInv, OwnEnds
  <2>2. ASSUME p = Shell, sh.pc \in {"wait", "prompt"} PROVE FALSE
    <3>1. fd[Shell] = NewTable
      BY <2>2 DEF IInv, TableOK
    <3>2. NewTable[d] \in {Tty, NONE}
      BY DEF NewTable
    <3> QED BY <2>2, <3>1, <3>2, FilesDiffer, Distinct
  <2> QED BY <2>1, <2>2
<1>2. IInv => StatusIsLast
  <2> SUFFICES ASSUME IInv, sh.pc = "wait", Children = {}, Last(sh.line).kind # "none"
               PROVE  sh.status = ExitCode(Last(sh.line).kind)
    BY DEF StatusIsLast
  <2>1. IsLast /\ sh.i \in Cmd
    BY PlaceType DEF IInv, Control, LineOK
  <2>2. Last(sh.line) = Command
    BY <2>1 DEF Last, IsLast, Command
  <2>3. proc[sh.i].state = "none"
    BY <2>1 DEF Children
  <2> QED BY <2>1, <2>2, <2>3 DEF IInv, StatusOK, ExitCode
<1>3. IInv => LineIsRun
  BY <1>1, <1>2 DEF LineIsRun
<1> QED BY <1>3, Inductive, PTL

-----------------------------------------------------------------------------
(* pipex: the tables.                                                          *)

CONSTANTS Firsts, Seconds
VARIABLES parent, kind, child, tables, units, out, lacks

Px == INSTANCE Pipex WITH fd <- tables, pipe <- units

\* A table with the files of its first seven numbers.
Table(a, b, c, e, f, g, h) ==
  [d \in Fd |-> IF d = 0 THEN a ELSE IF d = 1 THEN b ELSE IF d = 2 THEN c ELSE IF d = 3 THEN e
                ELSE IF d = 4 THEN f ELSE IF d = 5 THEN g ELSE IF d = 6 THEN h ELSE NONE]

\* The tables of the parent and of the children, in the order in which they come.
Fresh   == Table(Px!Tty, Px!Tty, Px!Tty, NONE, NONE, NONE, NONE)
WithOut == Table(Px!Tty, Px!Tty, Px!Tty, Px!Out, NONE, NONE, NONE)
WithBoth == Table(Px!Tty, Px!Tty, Px!Tty, Px!Out, Px!In, NONE, NONE)
WithEnds == Table(Px!Tty, Px!Tty, Px!Tty, Px!Out, Px!In, Px!ReadEnd, Px!WriteEnd)
NoWriter == Table(Px!Tty, Px!Tty, Px!Tty, Px!Out, NONE, Px!ReadEnd, NONE)
OfFirst  == Table(Px!In, Px!WriteEnd, Px!Tty, Px!Out, NONE, NONE, NONE)
OfSecond == Table(Px!ReadEnd, Px!Out, Px!Tty, NONE, NONE, NONE, NONE)

\* The numbers are there, and no file is NONE.
Room == 0 .. 6 \subseteq Fd /\ Fd \subseteq Nat /\ NONE \notin {Px!Tty, Px!In, Px!Out, Px!ReadEnd, Px!WriteEnd}

\* What a number of a table is open on.
LEMMA TableAt ==
  ASSUME Room, NEW a, NEW b, NEW c, NEW e, NEW f, NEW g, NEW h, NEW t, t = Table(a, b, c, e, f, g, h)
  PROVE  /\ t[0] = a /\ t[1] = b /\ t[2] = c /\ t[3] = e /\ t[4] = f /\ t[5] = g /\ t[6] = h
         /\ DOMAIN t = Fd /\ \A d \in Fd : d > 6 => t[d] = NONE
<1>1. 0 \in Fd /\ 1 \in Fd /\ 2 \in Fd /\ 3 \in Fd /\ 4 \in Fd /\ 5 \in Fd /\ 6 \in Fd /\ Fd \subseteq Nat
  BY DEF Room
<1> QED BY <1>1 DEF Table

\* A number of a table is opened or closed.
LEMMA PutIs ==
  ASSUME Room, NEW a, NEW b, NEW c, NEW e, NEW f, NEW g, NEW h, NEW x
  PROVE  LET t == Table(a, b, c, e, f, g, h)
         IN  /\ Px!Put(t, 0, x) = Table(x, b, c, e, f, g, h) /\ Px!Put(t, 1, x) = Table(a, x, c, e, f, g, h)
             /\ Px!Put(t, 3, x) = Table(a, b, c, x, f, g, h) /\ Px!Put(t, 4, x) = Table(a, b, c, e, x, g, h)
             /\ Px!Put(t, 5, x) = Table(a, b, c, e, f, x, h) /\ Px!Put(t, 6, x) = Table(a, b, c, e, f, g, x)
<1>1. PICK t : t = Table(a, b, c, e, f, g, h)
  OBVIOUS
<1>2. 0 \in Fd /\ 1 \in Fd /\ 3 \in Fd /\ 4 \in Fd /\ 5 \in Fd /\ 6 \in Fd
  BY DEF Room
<1>3. \A n \in {0, 1, 3, 4, 5, 6} : Px!Put(t, n, x) = [d \in Fd |-> IF d = n THEN x ELSE t[d]]
  BY <1>1, <1>2 DEF Px!Put, Table
<1>4. \A d \in Fd : t[d] = IF d = 0 THEN a ELSE IF d = 1 THEN b ELSE IF d = 2 THEN c ELSE IF d = 3 THEN e
                           ELSE IF d = 4 THEN f ELSE IF d = 5 THEN g ELSE IF d = 6 THEN h ELSE NONE
  BY <1>1 DEF Table
<1>5. Px!Put(t, 0, x) = Table(x, b, c, e, f, g, h)
  BY <1>3, <1>4 DEF Table
<1>6. Px!Put(t, 1, x) = Table(a, x, c, e, f, g, h)
  BY <1>3, <1>4 DEF Table
<1>7. Px!Put(t, 3, x) = Table(a, b, c, x, f, g, h)
  BY <1>3, <1>4 DEF Table
<1>8. Px!Put(t, 4, x) = Table(a, b, c, e, x, g, h)
  BY <1>3, <1>4 DEF Table
<1>9. Px!Put(t, 5, x) = Table(a, b, c, e, f, x, h)
  BY <1>3, <1>4 DEF Table
<1>10. Px!Put(t, 6, x) = Table(a, b, c, e, f, g, x)
  BY <1>3, <1>4 DEF Table
<1> QED BY <1>1, <1>5, <1>6, <1>7, <1>8, <1>9, <1>10

\* The new file is given the lowest number.
LEMMA LowestIs ==
  ASSUME Room, NEW t, DOMAIN t = Fd, NEW n \in 0 .. 6, t[n] = NONE, \A d \in 0 .. n - 1 : t[d] # NONE
  PROVE  Px!Lowest(t) = n
<1>1. n \in Fd /\ n \in Px!Unused(t) /\ \A d \in Px!Unused(t) : d \in Nat /\ d >= n
  <2>1. n \in Nat /\ n \in Fd /\ \A d \in Fd : d \in Nat
    BY DEF Room
  <2>2. ASSUME NEW d \in Px!Unused(t) PROVE d >= n
    <3>1. d \in Nat /\ t[d] = NONE
      BY <2>1 DEF Px!Unused
    <3> QED BY <2>1, <3>1
  <2>3. n \in Px!Unused(t)
    BY <2>1 DEF Px!Unused
  <2> QED BY <2>1, <2>2, <2>3 DEF Px!Unused
<1>2. Px!Min(Px!Unused(t)) = n
  <2>1. ASSUME NEW x \in Px!Unused(t), \A y \in Px!Unused(t) : x =< y PROVE x = n
    BY <1>1, <2>1
  <2>2. n \in Px!Unused(t) /\ \A y \in Px!Unused(t) : n =< y
    BY <1>1
  <2> QED BY <2>1, <2>2 DEF Px!Min
<1> QED BY <1>1, <1>2 DEF Px!Lowest

\* open() of file2.
LEMMA Opened2 == Room => Px!Lowest(Fresh) = 3 /\ Px!Put(Fresh, 3, Px!Out) = WithOut
<1> SUFFICES ASSUME Room PROVE Px!Lowest(Fresh) = 3 /\ Px!Put(Fresh, 3, Px!Out) = WithOut
  OBVIOUS
<1>1. PICK t : t = Fresh
  OBVIOUS
<1>2. /\ t[0] = Px!Tty /\ t[1] = Px!Tty /\ t[2] = Px!Tty /\ t[3] = NONE /\ DOMAIN t = Fd
  BY <1>1, TableAt DEF Fresh
<1>3. Px!Lowest(t) = 3
  BY <1>2, LowestIs DEF Room
<1>4. Px!Put(t, 3, Px!Out) = WithOut
  BY <1>1, PutIs DEF Fresh, WithOut
<1> QED BY <1>1, <1>3, <1>4

\* open() of file1.
LEMMA Opened1 == Room => Px!Lowest(WithOut) = 4 /\ Px!Put(WithOut, 4, Px!In) = WithBoth
<1> SUFFICES ASSUME Room PROVE Px!Lowest(WithOut) = 4 /\ Px!Put(WithOut, 4, Px!In) = WithBoth
  OBVIOUS
<1>1. PICK t : t = WithOut
  OBVIOUS
<1>2. t[0] = Px!Tty /\ t[1] = Px!Tty /\ t[2] = Px!Tty /\ t[3] = Px!Out /\ t[4] = NONE /\ DOMAIN t = Fd
  BY <1>1, TableAt DEF WithOut
<1>3. Px!Lowest(t) = 4
  BY <1>2, LowestIs DEF Room
<1>4. Px!Put(t, 4, Px!In) = WithBoth
  BY <1>1, PutIs DEF WithBoth, WithOut
<1> QED BY <1>1, <1>3, <1>4

\* pipe() gives the next two numbers.
LEMMA NextTwo ==
  ASSUME Room, NEW r \in Px!Unused(WithBoth), NEW w \in Px!Unused(WithBoth),
         r < w, \A d \in Px!Unused(WithBoth) : d < w => d = r
  PROVE  r = 5 /\ w = 6 /\ [WithBoth EXCEPT ![r] = Px!ReadEnd, ![w] = Px!WriteEnd] = WithEnds
<1>1. PICK t : t = WithBoth
  OBVIOUS
<1>2. /\ t[0] = Px!Tty /\ t[1] = Px!Tty /\ t[2] = Px!Tty /\ t[3] = Px!Out /\ t[4] = Px!In /\ t[5] = NONE /\ t[6] = NONE
      /\ DOMAIN t = Fd
  BY <1>1, TableAt DEF WithBoth
<1>3. r \in Nat /\ w \in Nat /\ r > 4 /\ w > 4
  BY <1>1, <1>2 DEF Px!Unused, Room
<1>4. 5 \in Px!Unused(t) /\ 6 \in Px!Unused(t)
  BY <1>2 DEF Px!Unused, Room
<1>5. r = 5 /\ w = 6
  BY <1>1, <1>3, <1>4
<1>6. [t EXCEPT ![5] = Px!ReadEnd, ![6] = Px!WriteEnd] = WithEnds
  <2>1. [t EXCEPT ![5] = Px!ReadEnd, ![6] = Px!WriteEnd] = Px!Put(Px!Put(t, 5, Px!ReadEnd), 6, Px!WriteEnd)
    BY DEF Px!Put, Room
  <2> QED BY <1>1, <2>1, PutIs DEF WithBoth, WithEnds
<1> QED BY <1>1, <1>5, <1>6

\* The parent closes the write end and file1.
LEMMA ClosedBetween == Room => Px!Close(Px!Close(WithEnds, 6), 4) = NoWriter
BY PutIs DEF Px!Close, WithEnds, NoWriter

\* dup2() of a number that is open.
LEMMA Dup2Is ==
  ASSUME Room, NEW a, NEW b, NEW c, NEW e, NEW f, NEW g, NEW h
  PROVE  LET t == Table(a, b, c, e, f, g, h)
         IN  /\ e # NONE => Px!Dup2(t, 3, 1) = Px!Put(t, 1, e)
             /\ f # NONE => Px!Dup2(t, 4, 0) = Px!Put(t, 0, f)
             /\ g # NONE => Px!Dup2(t, 5, 0) = Px!Put(t, 0, g)
             /\ h # NONE => Px!Dup2(t, 6, 1) = Px!Put(t, 1, h)
<1>1. PICK t : t = Table(a, b, c, e, f, g, h)
  OBVIOUS
<1>2. t[3] = e /\ t[4] = f /\ t[5] = g /\ t[6] = h
  BY <1>1, TableAt
<1>3. 3 \in Fd /\ 4 \in Fd /\ 5 \in Fd /\ 6 \in Fd
  BY DEF Room
<1> QED BY <1>1, <1>2, <1>3 DEF Px!Dup2, Px!IsOpen

\* The first child has file1 and the write end, and no other number of the pipe.
LEMMA FirstWired ==
  Room /\ parent.in = 4 /\ parent.fds[1] = 5 /\ parent.fds[2] = 6 => Px!Wired(1, WithEnds) = OfFirst
<1> SUFFICES ASSUME Room, parent.in = 4, parent.fds[1] = 5, parent.fds[2] = 6 PROVE Px!Wired(1, WithEnds) = OfFirst
  OBVIOUS
<1>1. NONE # Px!In /\ NONE # Px!WriteEnd
  BY DEF Room
<1>2. Px!Dup2(WithEnds, 4, 0) = Table(Px!In, Px!Tty, Px!Tty, Px!Out, Px!In, Px!ReadEnd, Px!WriteEnd)
  BY <1>1, Dup2Is, PutIs DEF WithEnds
<1>3. Px!Dup2(Px!Dup2(WithEnds, 4, 0), 6, 1) = Table(Px!In, Px!WriteEnd, Px!Tty, Px!Out, Px!In, Px!ReadEnd, Px!WriteEnd)
  BY <1>1, <1>2, Dup2Is, PutIs
<1>4. Px!Close(Px!Close(Px!Close(Px!Dup2(Px!Dup2(WithEnds, 4, 0), 6, 1), 5), 6), 4) = OfFirst
  BY <1>3, PutIs DEF Px!Close, OfFirst
<1> QED BY <1>4 DEF Px!Wired

\* The second child has the read end and file2.
LEMMA SecondWired ==
  Room /\ parent.out = 3 /\ parent.fds[1] = 5 /\ parent.fds[2] = 6 => Px!Wired(2, NoWriter) = OfSecond
<1> SUFFICES ASSUME Room, parent.out = 3, parent.fds[1] = 5, parent.fds[2] = 6 PROVE Px!Wired(2, NoWriter) = OfSecond
  OBVIOUS
<1>1. NONE # Px!Out /\ NONE # Px!ReadEnd
  BY DEF Room
<1>2. Px!Dup2(NoWriter, 3, 1) = Table(Px!Tty, Px!Out, Px!Tty, Px!Out, NONE, Px!ReadEnd, NONE)
  BY <1>1, Dup2Is, PutIs DEF NoWriter
<1>3. Px!Dup2(Px!Dup2(NoWriter, 3, 1), 5, 0) = Table(Px!ReadEnd, Px!Out, Px!Tty, Px!Out, NONE, Px!ReadEnd, NONE)
  BY <1>1, <1>2, Dup2Is, PutIs
<1>4. Px!Close(Px!Close(Px!Close(Px!Dup2(Px!Dup2(NoWriter, 3, 1), 5, 0), 6), 5), 3) = OfSecond
  BY <1>3, PutIs DEF Px!Close, OfSecond
<1> QED BY <1>4 DEF Px!Wired

-----------------------------------------------------------------------------
(* pipex: the invariant.                                                       *)

Phases == {"start", "in", "pipe", "fork1", "between", "fork2", "wait1", "wait2", "end"}
Fields == {"pc", "status", "in", "out", "fds"}

\* Which numbers the parent keeps, what its table is, and which children there are.
ParentOK ==
  /\ DOMAIN parent = Fields /\ parent.pc \in Phases
  /\ DOMAIN tables = 0 .. 2
  /\ parent.pc # "start" => parent.out = 3
  /\ parent.pc \notin {"start", "in"} => parent.in = 4
  /\ parent.pc \notin {"start", "in", "pipe"} => parent.fds = <<5, 6>>
  /\ tables[0] = CASE parent.pc = "start" -> Fresh [] parent.pc = "in" -> WithOut [] parent.pc = "pipe" -> WithBoth
                   [] parent.pc \in {"fork1", "between"} -> WithEnds [] OTHER -> NoWriter
OrderOK ==
  /\ child[1].state = "none" <=> parent.pc \in {"start", "in", "pipe", "fork1"}
  /\ child[2].state = "none" <=> parent.pc \in {"start", "in", "pipe", "fork1", "between", "fork2"}
  /\ parent.pc \in {"wait2", "end"} => child[1].state = "exited"
  /\ parent.pc = "end" => child[2].state = "exited" /\ parent.status = Px!Code(2)

\* The tables of the children.
TwoChildrenOK ==
  /\ DOMAIN child = {1, 2}
  /\ \A i \in {1, 2} : DOMAIN child[i] = {"state", "left", "holds"} /\ child[i].left \in Nat /\ child[i].holds \in BOOLEAN
                      /\ child[i].state \in {"none", "forked", "runs", "exited"}
  /\ tables[1] = CASE child[1].state = "forked" -> WithEnds [] child[1].state = "runs" -> OfFirst [] OTHER -> Px!Closed
  /\ tables[2] = CASE child[2].state = "forked" -> NoWriter [] child[2].state = "runs" -> OfSecond [] OTHER -> Px!Closed

\* What the first child has written, which is never more than it sends.
Put1 == CASE child[1].state = "runs" -> Px!Sent - child[1].left [] child[1].state = "exited" -> Px!Sent [] OTHER -> 0
Running(i) == child[i].state = "runs" => kind[i] \in {"gen", "copy", "head"}
FirstOK ==
  /\ Running(1)
  /\ child[1].state = "runs" => /\ child[1].left =< Px!Sent
                                /\ child[1].holds => child[1].left > 0
                                /\ kind[1] = "gen" /\ child[1].left > 0 => child[1].holds

\* What it has written is in the pipe, or the second child has it or has written it.
AtHand == IF child[2].holds THEN 1 ELSE 0
SecondOK ==
  /\ Running(2) /\ units \in Nat /\ out \in Nat
  /\ child[2].state \in {"none", "forked"} => units = Put1 /\ (parent.pc # "start" => out = 0)
  /\ child[2].state = "runs" /\ kind[2] = "gen" => /\ child[2].left =< Volume /\ out = Volume - child[2].left
                                                   /\ child[2].left > 0 => child[2].holds
                                                   /\ child[2].holds => child[2].left > 0
  /\ child[2].state = "runs" /\ kind[2] # "gen" => units + out + AtHand = Put1
  /\ child[2].state = "runs" /\ kind[2] = "head" => IF child[2].left = 0 THEN out = 1 /\ ~child[2].holds ELSE child[2].left = 1 /\ out = 0
  /\ child[2].state = "exited" => out = Px!Kept

TwoCommands == kind \in Firsts \X Seconds
PairOK == ParentOK /\ OrderOK /\ TwoChildrenOK /\ FirstOK /\ SecondOK
PairInv == TwoCommands /\ (parent.pc # "gone" => PairOK)

-----------------------------------------------------------------------------
(* pipex: each step keeps it.                                                  *)

\* The constants are as assumed.
Sizes == Volume \in Nat \ {0} /\ PipeSize \in Nat /\ Firsts \cup Seconds \subseteq {"gen", "copy", "head", "missing", "broken"}

\* What two commands may be, and what the first sends.
LEMMA CommandsAre ==
  ASSUME Sizes, TwoCommands
  PROVE  /\ kind[1] \in {"gen", "copy", "head", "missing", "broken"} /\ kind[2] \in {"gen", "copy", "head", "missing", "broken"}
         /\ Px!Sent \in Nat /\ (kind[1] \in {"gen", "copy"} => Px!Sent = Volume) /\ (kind[1] = "head" => Px!Sent = 1)
         /\ kind[1] \in {"missing", "broken"} => Px!Sent = 0
<1>1. kind[1] \in Firsts /\ kind[2] \in Seconds
  BY DEF TwoCommands
<1> QED BY <1>1 DEF Sizes, Px!Sent

\* The children and what they do are as they were.
Unmoved == UNCHANGED <<kind, child, units, out>> /\ tables'[1] = tables[1] /\ tables'[2] = tables[2]

\* A step of the parent alone leaves the children as they are.
LEMMA ParentAlone ==
  ASSUME TwoChildrenOK, FirstOK, SecondOK, Unmoved, parent.pc # "start"
  PROVE  TwoChildrenOK' /\ FirstOK' /\ SecondOK'
BY DEF Unmoved, TwoChildrenOK, FirstOK, SecondOK, Running, Put1, AtHand, Px!Sent, Px!Kept, Px!Closed

\* What an assignment to the table of the parent changes.
LEMMA OwnTable ==
  ASSUME DOMAIN tables = 0 .. 2, NEW t, tables' = [tables EXCEPT ![0] = t]
  PROVE  DOMAIN tables' = 0 .. 2 /\ tables'[0] = t /\ tables'[1] = tables[1] /\ tables'[2] = tables[2]
OBVIOUS

\* open() of file2, which is empty then.
LEMMA KeptOpenOut ==
  ASSUME Room, PairOK, Px!OpenOut PROVE PairOK'
<1>1. parent.pc = "start" /\ tables[0] = Fresh /\ DOMAIN tables = 0 .. 2
  BY DEF PairOK, ParentOK, Px!OpenOut, Px!At
<1>2. Px!Lowest(tables[0]) = 3 /\ Px!Put(tables[0], 3, Px!Out) = WithOut
  BY <1>1, Opened2
<1>3. parent' = [parent EXCEPT !.pc = "in", !.out = 3]
  BY <1>2 DEF Px!OpenOut
<1>11. tables' = [tables EXCEPT ![0] = WithOut] /\ UNCHANGED <<kind, child, units>> /\ out' = 0
  BY <1>2 DEF Px!OpenOut
<1>4. DOMAIN tables' = 0 .. 2 /\ tables'[0] = WithOut /\ tables'[1] = tables[1] /\ tables'[2] = tables[2]
  BY <1>1, <1>11, OwnTable
<1>5. child[1].state = "none" /\ child[2].state = "none"
  BY <1>1 DEF PairOK, OrderOK
<1>6. ParentOK'
  <2>1. DOMAIN parent = Fields
    BY DEF PairOK, ParentOK
  <2>2. DOMAIN parent' = Fields /\ parent'.pc = "in" /\ parent'.out = 3
    BY <1>3, <2>1 DEF Fields
  <2> QED BY <1>4, <2>2 DEF ParentOK, Phases
<1>7. OrderOK'
  BY <1>1, <1>3, <1>11, <1>5 DEF PairOK, ParentOK, Fields, OrderOK
<1>8. TwoChildrenOK'
  BY <1>11, <1>4 DEF PairOK, TwoChildrenOK, Px!Closed
<1>9. FirstOK'
  BY <1>11 DEF PairOK, FirstOK, Running, Px!Sent
<1>10. SecondOK'
  BY <1>3, <1>5, <1>11 DEF PairOK, SecondOK, Running, Put1
<1> QED BY <1>6, <1>7, <1>8, <1>9, <1>10 DEF PairOK

\* open() of file1.
LEMMA KeptOpenIn ==
  ASSUME Room, PairOK, Px!OpenIn PROVE PairOK'
<1>1. parent.pc = "in" /\ tables[0] = WithOut /\ DOMAIN tables = 0 .. 2 /\ DOMAIN parent = Fields /\ parent.out = 3
  BY DEF PairOK, ParentOK, Px!OpenIn, Px!At
<1>2. Px!Lowest(tables[0]) = 4 /\ Px!Put(tables[0], 4, Px!In) = WithBoth
  BY <1>1, Opened1
<1>3. parent' = [parent EXCEPT !.pc = "pipe", !.in = 4]
  BY <1>2 DEF Px!OpenIn
<1>4. tables' = [tables EXCEPT ![0] = WithBoth] /\ UNCHANGED <<kind, child, units, out>>
  BY <1>2 DEF Px!OpenIn
<1>5. DOMAIN tables' = 0 .. 2 /\ tables'[0] = WithBoth /\ tables'[1] = tables[1] /\ tables'[2] = tables[2]
  BY <1>1, <1>4, OwnTable
<1>6. DOMAIN parent' = Fields /\ parent'.pc = "pipe" /\ parent'.in = 4 /\ parent'.out = 3
  BY <1>1, <1>3 DEF Fields
<1>7. ParentOK'
  BY <1>5, <1>6 DEF ParentOK, Phases
<1>8. OrderOK'
  BY <1>1, <1>4, <1>6 DEF PairOK, OrderOK
<1>9. TwoChildrenOK' /\ FirstOK' /\ SecondOK'
  BY <1>1, <1>4, <1>5, ParentAlone DEF PairOK, Unmoved
<1> QED BY <1>7, <1>8, <1>9 DEF PairOK

\* pipe().
LEMMA KeptPipe ==
  ASSUME Room, PairOK, Px!Pipe PROVE PairOK'
<1>1. /\ parent.pc = "pipe" /\ tables[0] = WithBoth /\ DOMAIN tables = 0 .. 2 /\ DOMAIN parent = Fields
      /\ parent.out = 3 /\ parent.in = 4
  BY DEF PairOK, ParentOK, Px!Pipe, Px!At
<1>2. PICK r \in Px!Unused(tables[0]), w \in Px!Unused(tables[0]) :
        /\ r < w /\ \A d \in Px!Unused(tables[0]) : d < w => d = r
        /\ parent' = [parent EXCEPT !.pc = "fork1", !.fds = <<r, w>>]
        /\ tables' = [tables EXCEPT ![0] = [@ EXCEPT ![r] = Px!ReadEnd, ![w] = Px!WriteEnd]]
  BY DEF Px!Pipe
<1>3. r = 5 /\ w = 6 /\ [WithBoth EXCEPT ![r] = Px!ReadEnd, ![w] = Px!WriteEnd] = WithEnds
  BY <1>1, <1>2, NextTwo
<1>4. DOMAIN tables' = 0 .. 2 /\ tables'[0] = WithEnds /\ tables'[1] = tables[1] /\ tables'[2] = tables[2]
  BY <1>1, <1>2, <1>3
<1>5. UNCHANGED <<kind, child, units, out>>
  BY DEF Px!Pipe
<1>6. DOMAIN parent' = Fields /\ parent'.pc = "fork1" /\ parent'.in = 4 /\ parent'.out = 3 /\ parent'.fds = <<5, 6>>
  BY <1>1, <1>2, <1>3 DEF Fields
<1>7. ParentOK'
  BY <1>4, <1>6 DEF ParentOK, Phases
<1>8. OrderOK'
  BY <1>1, <1>5, <1>6 DEF PairOK, OrderOK
<1>9. TwoChildrenOK' /\ FirstOK' /\ SecondOK'
  BY <1>1, <1>4, <1>5, ParentAlone DEF PairOK, Unmoved
<1> QED BY <1>7, <1>8, <1>9 DEF PairOK

\* The closes between the forks.
LEMMA KeptBetween ==
  ASSUME Room, PairOK, Px!Between PROVE PairOK'
<1>1. /\ parent.pc = "between" /\ tables[0] = WithEnds /\ DOMAIN tables = 0 .. 2 /\ DOMAIN parent = Fields
      /\ parent.out = 3 /\ parent.in = 4 /\ parent.fds = <<5, 6>>
  BY DEF PairOK, ParentOK, Px!Between, Px!At
<1>2. Px!CloseBetween(tables[0]) = NoWriter
  BY <1>1, ClosedBetween DEF Px!CloseBetween
<1>3. parent' = [parent EXCEPT !.pc = "fork2"]
  BY DEF Px!Between
<1>4. tables' = [tables EXCEPT ![0] = NoWriter] /\ UNCHANGED <<kind, child, units, out>>
  BY <1>1, <1>2 DEF Px!Between
<1>5. DOMAIN tables' = 0 .. 2 /\ tables'[0] = NoWriter /\ tables'[1] = tables[1] /\ tables'[2] = tables[2]
  BY <1>1, <1>4, OwnTable
<1>6. DOMAIN parent' = Fields /\ parent'.pc = "fork2" /\ parent'.in = 4 /\ parent'.out = 3 /\ parent'.fds = <<5, 6>>
  BY <1>1, <1>3 DEF Fields
<1>7. ParentOK'
  BY <1>5, <1>6 DEF ParentOK, Phases
<1>8. OrderOK'
  BY <1>1, <1>4, <1>6 DEF PairOK, OrderOK
<1>9. TwoChildrenOK' /\ FirstOK' /\ SecondOK'
  BY <1>1, <1>4, <1>5, ParentAlone DEF PairOK, Unmoved
<1> QED BY <1>7, <1>8, <1>9 DEF PairOK

\* waitpid() for the first child.
LEMMA KeptWait1 ==
  ASSUME Room, PairOK, Px!Wait(1, "wait1", "wait2") PROVE PairOK'
<1>1. /\ parent.pc = "wait1" /\ DOMAIN tables = 0 .. 2 /\ DOMAIN parent = Fields /\ child[1].state = "exited"
      /\ tables[0] = NoWriter /\ parent.out = 3 /\ parent.in = 4 /\ parent.fds = <<5, 6>>
  BY DEF PairOK, ParentOK, Px!Wait, Px!At
<1>2. parent' = [parent EXCEPT !.pc = "wait2", !.status = @]
  BY DEF Px!Wait
<1>3. UNCHANGED <<kind, child, tables, units, out>>
  BY DEF Px!Wait
<1>4. DOMAIN parent' = Fields /\ parent'.pc = "wait2" /\ parent'.in = 4 /\ parent'.out = 3 /\ parent'.fds = <<5, 6>>
  BY <1>1, <1>2 DEF Fields
<1>5. ParentOK'
  BY <1>1, <1>3, <1>4 DEF ParentOK, Phases
<1>6. OrderOK'
  BY <1>1, <1>3, <1>4 DEF PairOK, OrderOK
<1>7. TwoChildrenOK' /\ FirstOK' /\ SecondOK'
  BY <1>1, <1>3, ParentAlone DEF PairOK, Unmoved
<1> QED BY <1>5, <1>6, <1>7 DEF PairOK

\* waitpid() for the second child gives the status.
LEMMA KeptWait2 ==
  ASSUME Room, PairOK, Px!Wait(2, "wait2", "end") PROVE PairOK'
<1>1. /\ parent.pc = "wait2" /\ DOMAIN tables = 0 .. 2 /\ DOMAIN parent = Fields /\ child[2].state = "exited"
      /\ tables[0] = NoWriter /\ parent.out = 3 /\ parent.in = 4 /\ parent.fds = <<5, 6>>
  BY DEF PairOK, ParentOK, Px!Wait, Px!At
<1>2. parent' = [parent EXCEPT !.pc = "end", !.status = Px!Code(2)]
  BY DEF Px!Wait
<1>3. UNCHANGED <<kind, child, tables, units, out>>
  BY DEF Px!Wait
<1>4. /\ DOMAIN parent' = Fields /\ parent'.pc = "end" /\ parent'.in = 4 /\ parent'.out = 3 /\ parent'.fds = <<5, 6>>
      /\ parent'.status = Px!Code(2)
  BY <1>1, <1>2 DEF Fields
<1>5. ParentOK'
  BY <1>1, <1>3, <1>4 DEF ParentOK, Phases
<1>6. OrderOK'
  BY <1>1, <1>3, <1>4 DEF PairOK, OrderOK, Px!Code
<1>7. TwoChildrenOK' /\ FirstOK' /\ SecondOK'
  BY <1>1, <1>3, ParentAlone DEF PairOK, Unmoved
<1> QED BY <1>5, <1>6, <1>7 DEF PairOK

\* fork() of the first child, which gets all the parent has.
LEMMA KeptFork1 ==
  ASSUME Room, PairOK, Px!Fork(1, "fork1", "between") PROVE PairOK'
<1>1. /\ parent.pc = "fork1" /\ DOMAIN tables = 0 .. 2 /\ DOMAIN parent = Fields /\ DOMAIN child = {1, 2}
      /\ tables[0] = WithEnds /\ parent.out = 3 /\ parent.in = 4 /\ parent.fds = <<5, 6>>
      /\ child[1].state = "none" /\ child[2].state = "none"
  BY DEF PairOK, ParentOK, OrderOK, TwoChildrenOK, Px!Fork, Px!At
<1>2. DOMAIN parent' = Fields /\ parent'.pc = "between" /\ parent'.in = 4 /\ parent'.out = 3 /\ parent'.fds = <<5, 6>>
  BY <1>1 DEF Px!Fork, Fields
<1>3. DOMAIN tables' = 0 .. 2 /\ tables'[1] = WithEnds /\ tables'[0] = tables[0] /\ tables'[2] = tables[2]
  BY <1>1 DEF Px!Fork
<1>4. child' = [child EXCEPT ![1].state = "forked"] /\ UNCHANGED <<kind, units, out>>
  BY DEF Px!Fork
<1>5. /\ DOMAIN child' = {1, 2} /\ child'[2] = child[2] /\ DOMAIN child'[1] = DOMAIN child[1]
      /\ child'[1].state = "forked" /\ child'[1].left = child[1].left /\ child'[1].holds = child[1].holds
  BY <1>1, <1>4 DEF PairOK, TwoChildrenOK
<1>6. ParentOK'
  BY <1>1, <1>2, <1>3 DEF ParentOK, Phases
<1>7. OrderOK'
  BY <1>1, <1>2, <1>5 DEF OrderOK
<1>8. TwoChildrenOK'
  BY <1>1, <1>3, <1>5 DEF PairOK, TwoChildrenOK, Px!Closed
<1>9. FirstOK'
  BY <1>4, <1>5 DEF FirstOK, Running
<1>10. SecondOK'
  BY <1>1, <1>2, <1>4, <1>5 DEF PairOK, SecondOK, Running, Put1
<1> QED BY <1>6, <1>7, <1>8, <1>9, <1>10 DEF PairOK

\* fork() of the second child, which gets no write end.
LEMMA KeptFork2 ==
  ASSUME Room, PairOK, Px!Fork(2, "fork2", "wait1") PROVE PairOK'
<1>1. /\ parent.pc = "fork2" /\ DOMAIN tables = 0 .. 2 /\ DOMAIN parent = Fields /\ DOMAIN child = {1, 2}
      /\ tables[0] = NoWriter /\ parent.out = 3 /\ parent.in = 4 /\ parent.fds = <<5, 6>>
      /\ child[1].state # "none" /\ child[2].state = "none"
  BY DEF PairOK, ParentOK, OrderOK, TwoChildrenOK, Px!Fork, Px!At
<1>2. DOMAIN parent' = Fields /\ parent'.pc = "wait1" /\ parent'.in = 4 /\ parent'.out = 3 /\ parent'.fds = <<5, 6>>
  BY <1>1 DEF Px!Fork, Fields
<1>3. DOMAIN tables' = 0 .. 2 /\ tables'[2] = NoWriter /\ tables'[0] = tables[0] /\ tables'[1] = tables[1]
  BY <1>1 DEF Px!Fork
<1>4. child' = [child EXCEPT ![2].state = "forked"] /\ UNCHANGED <<kind, units, out>>
  BY DEF Px!Fork
<1>5. /\ DOMAIN child' = {1, 2} /\ child'[1] = child[1] /\ DOMAIN child'[2] = DOMAIN child[2]
      /\ child'[2].state = "forked" /\ child'[2].left = child[2].left /\ child'[2].holds = child[2].holds
  BY <1>1, <1>4 DEF PairOK, TwoChildrenOK
<1>6. ParentOK'
  BY <1>1, <1>2, <1>3 DEF ParentOK, Phases
<1>7. OrderOK'
  BY <1>1, <1>2, <1>5 DEF OrderOK
<1>8. TwoChildrenOK'
  BY <1>1, <1>3, <1>5 DEF PairOK, TwoChildrenOK, Px!Closed
<1>9. FirstOK'
  BY <1>4, <1>5 DEF PairOK, FirstOK, Running, Px!Sent
<1>10. SecondOK'
  BY <1>1, <1>2, <1>4, <1>5 DEF PairOK, SecondOK, Running, Put1, Px!Sent
<1> QED BY <1>6, <1>7, <1>8, <1>9, <1>10 DEF PairOK

\* exit().
LEMMA KeptExit ==
  ASSUME ParentOK, NEW c, Px!Exit(c) PROVE parent'.pc = "gone" /\ UNCHANGED kind
BY DEF ParentOK, Px!Exit, Fields

\* What a child does leaves the parent as it is.
LEMMA ParentStays ==
  ASSUME PairOK, UNCHANGED <<parent, kind>>, DOMAIN tables' = DOMAIN tables, tables'[0] = tables[0],
         NEW i \in {1, 2}, NEW k \in {1, 2}, i # k, child'[k] = child[k],
         child[i].state \in {"forked", "runs"}, child'[i].state \in {"forked", "runs", "exited"}
  PROVE  ParentOK' /\ OrderOK'
<1>1. ParentOK'
  BY DEF PairOK, ParentOK
<1>2. OrderOK /\ Px!Code(2)' = Px!Code(2)
  BY DEF PairOK, Px!Code
<1>3. CASE i = 1 /\ k = 2
  <2>1. child'[2] = child[2] /\ child[1].state \in {"forked", "runs"} /\ child'[1].state \in {"forked", "runs", "exited"}
    BY <1>3
  <2> QED BY <1>1, <1>2, <2>1 DEF OrderOK
<1>4. CASE i = 2 /\ k = 1
  <2>1. child'[1] = child[1] /\ child[2].state \in {"forked", "runs"} /\ child'[2].state \in {"forked", "runs", "exited"}
    BY <1>4
  <2> QED BY <1>1, <1>2, <2>1 DEF OrderOK
<1> QED BY <1>1, <1>3, <1>4

\* A child is wired and becomes its command.
LEMMA KeptBecome1 ==
  ASSUME Room, Sizes, TwoCommands, PairOK, Px!Become(1) PROVE PairOK'
<1>1. /\ child[1].state = "forked" /\ kind[1] \in {"gen", "copy", "head"} /\ UNCHANGED <<parent, kind, units, out>>
      /\ child' = [child EXCEPT ![1] = [state |-> "runs", left |-> IF kind[1] = "head" THEN 1 ELSE Volume, holds |-> kind[1] = "gen"]]
      /\ tables' = [tables EXCEPT ![1] = Px!Wired(1, @)]
  BY DEF Px!Become
<1>2. DOMAIN child = {1, 2} /\ DOMAIN tables = 0 .. 2 /\ tables[1] = WithEnds
  BY <1>1 DEF PairOK, ParentOK, TwoChildrenOK
<1>3. parent.in = 4 /\ parent.fds[1] = 5 /\ parent.fds[2] = 6
  BY <1>1 DEF PairOK, ParentOK, OrderOK, Phases
<1>4. Px!Wired(1, tables[1]) = OfFirst
  BY <1>2, <1>3, FirstWired
<1>5. DOMAIN tables' = 0 .. 2 /\ tables'[1] = OfFirst /\ tables'[0] = tables[0] /\ tables'[2] = tables[2]
  BY <1>1, <1>2, <1>4
<1>6. /\ DOMAIN child' = {1, 2} /\ child'[2] = child[2]
      /\ child'[1] = [state |-> "runs", left |-> IF kind[1] = "head" THEN 1 ELSE Volume, holds |-> kind[1] = "gen"]
  BY <1>1, <1>2
<1>7. Px!Sent = IF kind[1] = "head" THEN 1 ELSE Volume
  BY <1>1 DEF Px!Sent
<1>8. /\ DOMAIN child'[1] = {"state", "left", "holds"} /\ child'[1].state = "runs" /\ child'[1].left = Px!Sent
      /\ (kind[1] = "gen" => child'[1].holds = TRUE) /\ (kind[1] # "gen" => child'[1].holds = FALSE) /\ Px!Sent \in Nat \ {0}
  <2>1. child'[1].holds = (kind[1] = "gen")
    BY <1>6
  <2>2. (kind[1] = "gen" => child'[1].holds = TRUE) /\ (kind[1] # "gen" => child'[1].holds = FALSE)
    BY <2>1, Zenon
  <2>3. child'[1].state = "runs" /\ DOMAIN child'[1] = {"state", "left", "holds"}
    BY <1>6
  <2>4. Px!Sent \in Nat \ {0} /\ child'[1].left = Px!Sent
    BY <1>6, <1>7 DEF Sizes
  <2> QED BY <2>2, <2>3, <2>4
<1>9. ParentOK' /\ OrderOK'
  BY <1>1, <1>2, <1>5, <1>6, <1>8, ParentStays
<1>10. TwoChildrenOK'
  BY <1>5, <1>6, <1>8 DEF PairOK, TwoChildrenOK, Px!Closed
<1>11. FirstOK'
  BY <1>1, <1>8 DEF FirstOK, Running, Px!Sent
<1>12. Put1' = 0 /\ Put1 = 0
  BY <1>1, <1>8 DEF Put1, Px!Sent
<1>13. SecondOK'
  BY <1>1, <1>6, <1>12 DEF PairOK, SecondOK, Running, AtHand, Px!Kept, Px!Sent
<1> QED BY <1>9, <1>10, <1>11, <1>13 DEF PairOK

\* So does the second child.
LEMMA KeptBecome2 ==
  ASSUME Room, Sizes, TwoCommands, PairOK, Px!Become(2) PROVE PairOK'
<1>1. /\ child[2].state = "forked" /\ kind[2] \in {"gen", "copy", "head"} /\ UNCHANGED <<parent, kind, units, out>>
      /\ child' = [child EXCEPT ![2] = [state |-> "runs", left |-> IF kind[2] = "head" THEN 1 ELSE Volume, holds |-> kind[2] = "gen"]]
      /\ tables' = [tables EXCEPT ![2] = Px!Wired(2, @)]
  BY DEF Px!Become
<1>2. DOMAIN child = {1, 2} /\ DOMAIN tables = 0 .. 2 /\ tables[2] = NoWriter
  BY <1>1 DEF PairOK, ParentOK, TwoChildrenOK
<1>3. parent.out = 3 /\ parent.fds[1] = 5 /\ parent.fds[2] = 6 /\ parent.pc # "start"
  BY <1>1 DEF PairOK, ParentOK, OrderOK, Phases
<1>4. Px!Wired(2, tables[2]) = OfSecond
  BY <1>2, <1>3, SecondWired
<1>5. DOMAIN tables' = 0 .. 2 /\ tables'[2] = OfSecond /\ tables'[0] = tables[0] /\ tables'[1] = tables[1]
  BY <1>1, <1>2, <1>4
<1>6. /\ DOMAIN child' = {1, 2} /\ child'[1] = child[1]
      /\ child'[2] = [state |-> "runs", left |-> IF kind[2] = "head" THEN 1 ELSE Volume, holds |-> kind[2] = "gen"]
  BY <1>1, <1>2
<1>7. /\ DOMAIN child'[2] = {"state", "left", "holds"} /\ child'[2].state = "runs" /\ child'[2].left \in Nat \ {0}
      /\ child'[2].left = (IF kind[2] = "head" THEN 1 ELSE Volume) /\ (kind[2] = "gen" => child'[2].holds = TRUE) /\ (kind[2] # "gen" => child'[2].holds = FALSE)
  <2>1. child'[2].holds = (kind[2] = "gen")
    BY <1>6
  <2>2. (kind[2] = "gen" => child'[2].holds = TRUE) /\ (kind[2] # "gen" => child'[2].holds = FALSE)
    BY <2>1, Zenon
  <2>3. child'[2].state = "runs" /\ DOMAIN child'[2] = {"state", "left", "holds"}
    BY <1>6
  <2>4. child'[2].left \in Nat \ {0} /\ child'[2].left = (IF kind[2] = "head" THEN 1 ELSE Volume)
    BY <1>6 DEF Sizes
  <2> QED BY <2>2, <2>3, <2>4
<1>8. ParentOK' /\ OrderOK'
  BY <1>1, <1>2, <1>5, <1>6, <1>7, ParentStays
<1>9. TwoChildrenOK'
  BY <1>5, <1>6, <1>7 DEF PairOK, TwoChildrenOK, Px!Closed
<1>10. FirstOK'
  BY <1>1, <1>6 DEF PairOK, FirstOK, Running, Px!Sent
<1>11. out = 0 /\ units = Put1 /\ units \in Nat /\ Put1' = Put1
  BY <1>1, <1>3, <1>6 DEF PairOK, SecondOK, Put1, Px!Sent
<1>12. kind[2] # "gen" => AtHand' = 0
  BY <1>7 DEF AtHand
<1>13. SecondOK'
  BY <1>1, <1>3, <1>7, <1>11, <1>12 DEF SecondOK, Running, Sizes
<1> QED BY <1>8, <1>9, <1>10, <1>13 DEF PairOK

\* A command that is not found ends at once.
LEMMA KeptFails1 ==
  ASSUME Room, Sizes, TwoCommands, PairOK, Px!BecomeFails(1) PROVE PairOK'
<1>1. /\ child[1].state = "forked" /\ kind[1] \in {"missing", "broken"} /\ UNCHANGED <<parent, kind, units, out>>
      /\ child' = [child EXCEPT ![1].state = "exited"] /\ tables' = [tables EXCEPT ![1] = Px!Closed]
  BY DEF Px!BecomeFails
<1>2. DOMAIN child = {1, 2} /\ DOMAIN tables = 0 .. 2 /\ DOMAIN child[1] = {"state", "left", "holds"}
  BY <1>1 DEF PairOK, ParentOK, TwoChildrenOK
<1>3. DOMAIN tables' = 0 .. 2 /\ tables'[1] = Px!Closed /\ tables'[0] = tables[0] /\ tables'[2] = tables[2]
  BY <1>1, <1>2
<1>4. /\ DOMAIN child' = {1, 2} /\ child'[2] = child[2] /\ DOMAIN child'[1] = {"state", "left", "holds"}
      /\ child'[1].state = "exited" /\ child'[1].left = child[1].left /\ child'[1].holds = child[1].holds
  BY <1>1, <1>2
<1>5. ParentOK' /\ OrderOK'
  BY <1>1, <1>2, <1>3, <1>4, ParentStays
<1>6. TwoChildrenOK'
  BY <1>3, <1>4 DEF PairOK, TwoChildrenOK, Px!Closed
<1>7. FirstOK'
  BY <1>4 DEF FirstOK, Running
<1>8. Put1' = 0 /\ Put1 = 0
  BY <1>1, <1>4 DEF Put1, Px!Sent
<1>9. SecondOK'
  BY <1>1, <1>4, <1>8 DEF PairOK, SecondOK, Running, AtHand, Px!Kept, Px!Sent
<1> QED BY <1>5, <1>6, <1>7, <1>9 DEF PairOK

\* So does the second one.
LEMMA KeptFails2 ==
  ASSUME Room, Sizes, TwoCommands, PairOK, Px!BecomeFails(2) PROVE PairOK'
<1>1. /\ child[2].state = "forked" /\ kind[2] \in {"missing", "broken"} /\ UNCHANGED <<parent, kind, units, out>>
      /\ child' = [child EXCEPT ![2].state = "exited"] /\ tables' = [tables EXCEPT ![2] = Px!Closed]
  BY DEF Px!BecomeFails
<1>2. DOMAIN child = {1, 2} /\ DOMAIN tables = 0 .. 2 /\ DOMAIN child[2] = {"state", "left", "holds"} /\ parent.pc # "start"
  BY <1>1 DEF PairOK, ParentOK, OrderOK, TwoChildrenOK
<1>3. DOMAIN tables' = 0 .. 2 /\ tables'[2] = Px!Closed /\ tables'[0] = tables[0] /\ tables'[1] = tables[1]
  BY <1>1, <1>2
<1>4. /\ DOMAIN child' = {1, 2} /\ child'[1] = child[1] /\ DOMAIN child'[2] = {"state", "left", "holds"}
      /\ child'[2].state = "exited" /\ child'[2].left = child[2].left /\ child'[2].holds = child[2].holds
  BY <1>1, <1>2
<1>5. ParentOK' /\ OrderOK'
  BY <1>1, <1>2, <1>3, <1>4, ParentStays
<1>6. TwoChildrenOK'
  BY <1>3, <1>4 DEF PairOK, TwoChildrenOK, Px!Closed
<1>7. FirstOK'
  BY <1>1, <1>4 DEF PairOK, FirstOK, Running, Px!Sent
<1>8. out = 0 /\ Px!Kept' = 0 /\ units \in Nat
  BY <1>1, <1>2 DEF PairOK, SecondOK, Px!Kept
<1>9. SecondOK'
  BY <1>1, <1>4, <1>8 DEF SecondOK, Running
<1> QED BY <1>5, <1>6, <1>7, <1>9 DEF PairOK

\* What the numbers of a child that runs are open on, and who holds the ends of the pipe.
LEMMA RunsIs ==
  ASSUME Room, PairOK
  PROVE  /\ child[1].state = "runs" => tables[1][0] = Px!In /\ tables[1][1] = Px!WriteEnd
         /\ child[2].state = "runs" => tables[2][0] = Px!ReadEnd /\ tables[2][1] = Px!Out
         /\ child[1].state \in {"runs", "forked"} => 1 \in Px!Holders(Px!WriteEnd)
         /\ child[1].state # "none" => Px!Holders(Px!ReadEnd) # {}
<1>1. 0 \in Fd /\ 1 \in Fd /\ 5 \in Fd /\ 6 \in Fd
  BY DEF Room
<1>2. child[1].state = "runs" => tables[1] = OfFirst
  BY DEF PairOK, TwoChildrenOK
<1>3. child[1].state = "runs" => tables[1][0] = Px!In /\ tables[1][1] = Px!WriteEnd
  BY <1>2, TableAt DEF OfFirst
<1>4. child[2].state = "runs" => tables[2] = OfSecond
  BY DEF PairOK, TwoChildrenOK
<1>5. child[2].state = "runs" => tables[2][0] = Px!ReadEnd /\ tables[2][1] = Px!Out
  BY <1>4, TableAt DEF OfSecond
<1>6. child[1].state = "forked" => tables[1] = WithEnds
  BY DEF PairOK, TwoChildrenOK
<1>7. child[1].state = "forked" => tables[1][6] = Px!WriteEnd
  BY <1>6, TableAt DEF WithEnds
<1>8. child[1].state \in {"runs", "forked"} => 1 \in Px!Holders(Px!WriteEnd)
  BY <1>1, <1>3, <1>7 DEF Px!Holders
<1>9. child[1].state # "none" => tables[0] \in {WithEnds, NoWriter}
  BY DEF PairOK, OrderOK, ParentOK, Phases
<1>10. WithEnds[5] = Px!ReadEnd /\ NoWriter[5] = Px!ReadEnd
  BY TableAt DEF WithEnds, NoWriter
<1>11. child[1].state # "none" => 0 \in Px!Holders(Px!ReadEnd)
  BY <1>1, <1>9, <1>10 DEF Px!Holders
<1> QED BY <1>3, <1>5, <1>8, <1>11

\* The first command reads a unit of file1.
LEMMA KeptRead1 ==
  ASSUME Room, Sizes, TwoCommands, PairOK, Px!Read(1) PROVE PairOK'
<1>1. child[1].state = "runs" /\ ~child[1].holds /\ kind[1] # "gen" /\ tables[1][0] # Px!ReadEnd
  BY RunsIs DEF Px!Read, Px!Reads, Px!Runs, Px!In, Px!ReadEnd
<1>2. child[1].left > 0 /\ units' = units /\ child' = [child EXCEPT ![1].holds = TRUE] /\ UNCHANGED <<parent, kind, tables, out>>
  BY <1>1 DEF Px!Read
<1>3. DOMAIN child = {1, 2} /\ DOMAIN child[1] = {"state", "left", "holds"}
  BY DEF PairOK, TwoChildrenOK
<1>4. /\ DOMAIN child' = {1, 2} /\ child'[2] = child[2] /\ DOMAIN child'[1] = {"state", "left", "holds"}
      /\ child'[1].state = "runs" /\ child'[1].left = child[1].left /\ child'[1].holds = TRUE
  BY <1>1, <1>2, <1>3
<1>5. ParentOK' /\ OrderOK'
  BY <1>1, <1>2, <1>4, ParentStays
<1>6. TwoChildrenOK'
  BY <1>1, <1>2, <1>4 DEF PairOK, TwoChildrenOK, Px!Closed
<1>7. FirstOK'
  BY <1>1, <1>2, <1>4 DEF PairOK, FirstOK, Running, Px!Sent
<1>8. SecondOK'
  BY <1>1, <1>2, <1>4 DEF PairOK, SecondOK, Running, AtHand, Put1, Px!Kept, Px!Sent
<1> QED BY <1>5, <1>6, <1>7, <1>8 DEF PairOK

\* The second command takes a unit out of the pipe.
LEMMA KeptRead2 ==
  ASSUME Room, Sizes, TwoCommands, PairOK, Px!Read(2) PROVE PairOK'
<1>1. child[2].state = "runs" /\ child[2].holds = FALSE /\ kind[2] # "gen" /\ tables[2][0] = Px!ReadEnd
  BY RunsIs DEF Px!Read, Px!Reads, Px!Runs, PairOK, TwoChildrenOK
<1>2. /\ units > 0 /\ units' = units - 1 /\ child' = [child EXCEPT ![2].holds = TRUE] /\ UNCHANGED <<parent, kind, tables, out>>
      /\ kind[2] = "head" => child[2].left > 0
  BY <1>1 DEF Px!Read, Px!Reads
<1>3. DOMAIN child = {1, 2} /\ DOMAIN child[2] = {"state", "left", "holds"}
  BY DEF PairOK, TwoChildrenOK
<1>4. /\ DOMAIN child' = {1, 2} /\ child'[1] = child[1] /\ DOMAIN child'[2] = {"state", "left", "holds"}
      /\ child'[2].state = "runs" /\ child'[2].left = child[2].left /\ child'[2].holds = TRUE
  BY <1>1, <1>2, <1>3
<1>5. ParentOK' /\ OrderOK'
  BY <1>1, <1>2, <1>4, ParentStays
<1>6. TwoChildrenOK'
  BY <1>1, <1>2, <1>4 DEF PairOK, TwoChildrenOK, Px!Closed
<1>7. FirstOK'
  BY <1>1, <1>2, <1>4 DEF PairOK, FirstOK, Running, Px!Sent
<1>8. Put1' = Put1 /\ AtHand = 0 /\ AtHand' = 1
  BY <1>1, <1>2, <1>4 DEF Put1, AtHand, Px!Sent
<1>9. units \in Nat /\ out \in Nat /\ units + out + AtHand = Put1 /\ Running(2)
  BY <1>1 DEF PairOK, SecondOK
<1>10. kind[2] = "head" => child[2].left = 1 /\ out = 0
  BY <1>1, <1>2 DEF PairOK, SecondOK
<1>11. SecondOK'
  BY <1>1, <1>2, <1>4, <1>8, <1>9, <1>10 DEF SecondOK, Running
<1> QED BY <1>5, <1>6, <1>7, <1>11 DEF PairOK

\* The first command writes a unit into the pipe.
LEMMA KeptWrite1 ==
  ASSUME Room, Sizes, TwoCommands, PairOK, Px!Write(1) PROVE PairOK'
<1>1. child[1].state = "runs" /\ child[1].holds /\ tables[1][1] = Px!WriteEnd
  BY RunsIs DEF Px!Write, Px!Runs
<1>2. child[1].left \in Nat /\ child[1].left > 0 /\ child[1].left =< Px!Sent /\ kind[1] \in {"gen", "copy", "head"} /\ Px!Sent \in Nat
  BY <1>1, CommandsAre DEF PairOK, FirstOK, TwoChildrenOK, Running
<1>3. /\ units' = units + 1 /\ UNCHANGED <<parent, kind, tables, out>>
      /\ child' = [child EXCEPT ![1] = [@ EXCEPT !.left = child[1].left - 1, !.holds = kind[1] = "gen" /\ child[1].left - 1 > 0]]
  BY <1>1, <1>2 DEF Px!Write
<1>4. DOMAIN child = {1, 2} /\ DOMAIN child[1] = {"state", "left", "holds"}
  BY DEF PairOK, TwoChildrenOK
<1>5. /\ DOMAIN child' = {1, 2} /\ child'[2] = child[2] /\ DOMAIN child'[1] = {"state", "left", "holds"}
      /\ child'[1].state = "runs" /\ child'[1].left = child[1].left - 1
  BY <1>1, <1>3, <1>4
<1>6. child'[1].holds = (kind[1] = "gen" /\ child[1].left - 1 > 0)
  BY <1>3, <1>4
<1>7. child'[1].holds \in BOOLEAN /\ (child'[1].holds <=> kind[1] = "gen" /\ child[1].left - 1 > 0)
  BY <1>6
<1>8. ParentOK' /\ OrderOK'
  BY <1>1, <1>3, <1>5, ParentStays
<1>9. TwoChildrenOK'
  BY <1>1, <1>2, <1>3, <1>5, <1>7 DEF PairOK, TwoChildrenOK, Px!Closed
<1>10. Px!Sent' = Px!Sent
  BY <1>3 DEF Px!Sent
<1>11. FirstOK'
  BY <1>2, <1>3, <1>5, <1>7, <1>10 DEF FirstOK, Running
<1>12. Put1' = Put1 + 1 /\ Put1 \in Nat
  BY <1>1, <1>2, <1>5, <1>10 DEF Put1
<1>13. AtHand' = AtHand /\ Px!Kept' = Px!Kept
  BY <1>3, <1>5, <1>10 DEF AtHand, Px!Kept
<1>14. SecondOK'
  BY <1>3, <1>5, <1>12, <1>13 DEF PairOK, SecondOK, Running, AtHand
<1> QED BY <1>8, <1>9, <1>11, <1>14 DEF PairOK

\* The second command writes a unit into file2.
LEMMA KeptWrite2 ==
  ASSUME Room, Sizes, TwoCommands, PairOK, Px!Write(2) PROVE PairOK'
<1>1. child[2].state = "runs" /\ child[2].holds = TRUE /\ tables[2][1] # Px!WriteEnd /\ kind[2] \in {"gen", "copy", "head"}
  BY RunsIs DEF Px!Write, Px!Runs, Px!Out, Px!WriteEnd, PairOK, TwoChildrenOK, SecondOK, Running
<1>2. PICK l \in Nat : l = IF child[2].left > 0 THEN child[2].left - 1 ELSE 0
  BY DEF PairOK, TwoChildrenOK
<1>3. /\ units' = units /\ UNCHANGED <<parent, kind, tables>> /\ out' = out + 1
      /\ child' = [child EXCEPT ![2] = [@ EXCEPT !.left = l, !.holds = kind[2] = "gen" /\ l > 0]]
  BY <1>1, <1>2 DEF Px!Write
<1>4. DOMAIN child = {1, 2} /\ DOMAIN child[2] = {"state", "left", "holds"}
  BY DEF PairOK, TwoChildrenOK
<1>5. /\ DOMAIN child' = {1, 2} /\ child'[1] = child[1] /\ DOMAIN child'[2] = {"state", "left", "holds"}
      /\ child'[2].state = "runs" /\ child'[2].left = l
  BY <1>1, <1>3, <1>4
<1>6. child'[2].holds = (kind[2] = "gen" /\ l > 0)
  BY <1>3, <1>4
<1>7. child'[2].holds \in BOOLEAN /\ (child'[2].holds <=> kind[2] = "gen" /\ l > 0)
  BY <1>6
<1>8. ParentOK' /\ OrderOK'
  BY <1>1, <1>3, <1>5, ParentStays
<1>9. TwoChildrenOK'
  BY <1>1, <1>2, <1>3, <1>5, <1>7 DEF PairOK, TwoChildrenOK, Px!Closed
<1>10. FirstOK'
  BY <1>3, <1>5 DEF PairOK, FirstOK, Running, Px!Sent
<1>11. Put1' = Put1 /\ AtHand = 1 /\ (kind[2] # "gen" => AtHand' = 0)
  BY <1>1, <1>3, <1>5, <1>7 DEF Put1, AtHand, Px!Sent
<1>12. units \in Nat /\ out \in Nat /\ Running(2)
  BY DEF PairOK, SecondOK
<1>13. ASSUME kind[2] = "gen" PROVE SecondOK'
  <2>1. child[2].left \in Nat /\ child[2].left > 0 /\ child[2].left =< Volume /\ out = Volume - child[2].left /\ l = child[2].left - 1
    BY <1>1, <1>2, <1>13 DEF PairOK, SecondOK, TwoChildrenOK
  <2>2. l =< Volume /\ out + 1 = Volume - l /\ out + 1 \in Nat
    BY <1>12, <2>1 DEF Sizes
  <2>3. kind'[2] = "gen" /\ child'[2].state = "runs" /\ units' \in Nat /\ out' = Volume - l /\ out' \in Nat
    BY <1>3, <1>5, <1>12, <1>13, <2>2
  <2>4. (child'[2].left > 0 => child'[2].holds) /\ (child'[2].holds => child'[2].left > 0)
    BY <1>5, <1>7, <1>13
  <2>5. child'[2].left = l
    BY <1>5
  <2>6. child'[2].left =< Volume /\ out' = Volume - child'[2].left
    BY <2>2, <2>3, <2>5
  <2> QED BY <2>3, <2>4, <2>6 DEF SecondOK, Running
<1>14. ASSUME kind[2] # "gen" PROVE SecondOK'
  <2>1. units + out + 1 = Put1
    BY <1>1, <1>11, <1>14 DEF PairOK, SecondOK
  <2>2. kind[2] = "head" => out = 0 /\ l = 0
    BY <1>1, <1>2 DEF PairOK, SecondOK
  <2> QED BY <1>1, <1>3, <1>5, <1>7, <1>11, <1>12, <1>14, <2>1, <2>2 DEF SecondOK, Running
<1> QED BY <1>8, <1>9, <1>10, <1>13, <1>14 DEF PairOK

\* The first command stops when it has sent all: no write into the pipe fails.
LEMMA KeptStop1 ==
  ASSUME Room, Sizes, TwoCommands, PairOK, Px!Stop(1) PROVE PairOK'
<1>1. /\ child[1].state = "runs" /\ tables[1][0] # Px!ReadEnd /\ Px!Holders(Px!ReadEnd) # {}
      /\ tables' = [tables EXCEPT ![1] = Px!Closed] /\ child' = [child EXCEPT ![1].state = "exited"]
      /\ UNCHANGED <<parent, kind, units, out>>
  BY RunsIs DEF Px!Stop, Px!Runs, Px!In, Px!ReadEnd
<1>2. Px!Done(1)
  BY <1>1 DEF Px!Stop, Px!Broken
<1>3. child[1].left = 0
  <2>1. child[1].holds = FALSE /\ child[1].left \in Nat
    BY <1>2 DEF PairOK, TwoChildrenOK, Px!Done
  <2>2. CASE kind[1] = "gen"
    BY <1>1, <2>1, <2>2 DEF PairOK, FirstOK
  <2>3. CASE kind[1] # "gen"
    BY <1>1, <1>2, <2>1, <2>3 DEF Px!Done, Px!Reads, Px!Runs, Px!AtEnd
  <2> QED BY <2>2, <2>3
<1>4. DOMAIN child = {1, 2} /\ DOMAIN tables = 0 .. 2 /\ DOMAIN child[1] = {"state", "left", "holds"}
  BY DEF PairOK, ParentOK, TwoChildrenOK
<1>5. DOMAIN tables' = 0 .. 2 /\ tables'[1] = Px!Closed /\ tables'[0] = tables[0] /\ tables'[2] = tables[2]
  BY <1>1, <1>4
<1>6. /\ DOMAIN child' = {1, 2} /\ child'[2] = child[2] /\ DOMAIN child'[1] = {"state", "left", "holds"}
      /\ child'[1].state = "exited" /\ child'[1].left = child[1].left /\ child'[1].holds = child[1].holds
  BY <1>1, <1>4
<1>7. ParentOK' /\ OrderOK'
  BY <1>1, <1>4, <1>5, <1>6, ParentStays
<1>8. TwoChildrenOK'
  BY <1>5, <1>6 DEF PairOK, TwoChildrenOK, Px!Closed
<1>9. FirstOK'
  BY <1>6 DEF FirstOK, Running
<1>10. Put1' = Put1
  <2>1. Px!Sent' = Px!Sent /\ Px!Sent \in Nat
    BY <1>1, CommandsAre DEF Px!Sent
  <2> QED BY <1>1, <1>3, <1>6, <2>1 DEF Put1
<1>11. SecondOK'
  BY <1>1, <1>6, <1>10 DEF PairOK, SecondOK, Running, AtHand, Px!Kept, Px!Sent
<1> QED BY <1>7, <1>8, <1>9, <1>11 DEF PairOK

\* The second command does not see the end of the pipe before the first has exited, so
\* it has kept what it should when it stops.
LEMMA KeptStop2 ==
  ASSUME Room, Sizes, TwoCommands, PairOK, Px!Stop(2) PROVE PairOK'
<1>1. /\ child[2].state = "runs" /\ tables[2][0] = Px!ReadEnd /\ tables[2][1] # Px!WriteEnd
      /\ tables' = [tables EXCEPT ![2] = Px!Closed] /\ child' = [child EXCEPT ![2].state = "exited"]
      /\ UNCHANGED <<parent, kind, units, out>>
  BY RunsIs DEF Px!Stop, Px!Runs, Px!Out, Px!WriteEnd
<1>2. Px!Done(2)
  BY <1>1 DEF Px!Stop, Px!Broken
<1>3. child[2].holds = FALSE /\ child[2].left \in Nat /\ kind[2] \in {"gen", "copy", "head"} /\ units \in Nat /\ out \in Nat
  BY <1>1, <1>2 DEF PairOK, TwoChildrenOK, SecondOK, Running, Px!Done
<1>4. Put1 \in Nat /\ Put1 =< Px!Sent /\ (child[1].state = "exited" => Put1 = Px!Sent) /\ Px!Sent \in Nat
  <2>1. Px!Sent \in Nat
    BY CommandsAre
  <2>2. child[1].left \in Nat /\ (child[1].state = "runs" => child[1].left =< Px!Sent)
    BY DEF PairOK, FirstOK, TwoChildrenOK
  <2> QED BY <2>1, <2>2 DEF Put1
<1>5. child[1].state # "none"
  BY <1>1 DEF PairOK, OrderOK
<1>6. Px!Holders(Px!WriteEnd) = {} => child[1].state = "exited"
  <2>1. child[1].state \in {"forked", "runs", "exited"}
    BY <1>5 DEF PairOK, TwoChildrenOK
  <2> QED BY <2>1, RunsIs
<1>7. out = Px!Kept
  <2>1. CASE kind[2] = "gen"
    <3>1. child[2].left = 0 /\ out = Volume - child[2].left
      BY <1>1, <1>3, <2>1 DEF PairOK, SecondOK
    <3> QED BY <2>1, <3>1 DEF Px!Kept, Sizes
  <2>2. CASE kind[2] = "copy"
    <3>1. units = 0 /\ Px!Holders(Px!WriteEnd) = {}
      BY <1>1, <1>2, <1>3, <2>2 DEF Px!Done, Px!Reads, Px!Runs, Px!AtEnd
    <3>2. units + out + 0 = Put1
      BY <1>1, <1>3, <2>2 DEF PairOK, SecondOK, AtHand
    <3> QED BY <1>3, <1>4, <1>6, <2>2, <3>1, <3>2 DEF Px!Kept
  <2>3. CASE kind[2] = "head"
    <3>1. units + out + 0 = Put1
      BY <1>1, <1>3, <2>3 DEF PairOK, SecondOK, AtHand
    <3>2. CASE child[2].left = 0
      <4>1. out = 1
        BY <1>1, <2>3, <3>2 DEF PairOK, SecondOK
      <4>2. Px!Sent > 0
        BY <1>3, <1>4, <3>1, <4>1
      <4> QED BY <2>3, <4>1, <4>2 DEF Px!Kept
    <3>3. CASE child[2].left # 0
      <4>1. child[2].left > 0 /\ out = 0
        BY <1>1, <1>3, <2>3, <3>3 DEF PairOK, SecondOK
      <4>2. units = 0 /\ Px!Holders(Px!WriteEnd) = {}
        BY <1>1, <1>2, <1>3, <2>3, <4>1 DEF Px!Done, Px!Reads, Px!Runs, Px!AtEnd
      <4>3. Px!Sent = 0
        BY <1>4, <1>6, <3>1, <4>1, <4>2
      <4> QED BY <2>3, <4>1, <4>3 DEF Px!Kept
    <3> QED BY <3>2, <3>3
  <2> QED BY <1>3, <2>1, <2>2, <2>3
<1>8. DOMAIN child = {1, 2} /\ DOMAIN tables = 0 .. 2 /\ DOMAIN child[2] = {"state", "left", "holds"}
  BY DEF PairOK, ParentOK, TwoChildrenOK
<1>9. DOMAIN tables' = 0 .. 2 /\ tables'[2] = Px!Closed /\ tables'[0] = tables[0] /\ tables'[1] = tables[1]
  BY <1>1, <1>8
<1>10. /\ DOMAIN child' = {1, 2} /\ child'[1] = child[1] /\ DOMAIN child'[2] = {"state", "left", "holds"}
       /\ child'[2].state = "exited" /\ child'[2].left = child[2].left /\ child'[2].holds = child[2].holds
  BY <1>1, <1>8
<1>11. ParentOK' /\ OrderOK'
  BY <1>1, <1>8, <1>9, <1>10, ParentStays
<1>12. TwoChildrenOK'
  BY <1>9, <1>10 DEF PairOK, TwoChildrenOK, Px!Closed
<1>13. FirstOK'
  BY <1>1, <1>10 DEF PairOK, FirstOK, Running, Px!Sent
<1>14. Px!Kept' = Px!Kept
  BY <1>1 DEF Px!Kept, Px!Sent
<1>15. SecondOK'
  BY <1>1, <1>3, <1>7, <1>10, <1>14 DEF SecondOK, Running
<1> QED BY <1>11, <1>12, <1>13, <1>15 DEF PairOK

-----------------------------------------------------------------------------
(* pipex: the theorem.                                                         *)

\* What is assumed of the constants.
LEMMA PairAssumption ==
  ASSUME Px!ConstantsAssumption, Fd \subseteq Nat PROVE Room /\ Sizes
BY DEF Px!ConstantsAssumption, Room, Sizes

\* It holds when pipex starts.
LEMMA PairInit == ASSUME Room, Sizes, Px!Init PROVE PairInv
<1>1. parent = [pc |-> "start", status |-> 0, in |-> -1, out |-> -1, fds |-> <<-1, -1>>] /\ kind \in Firsts \X Seconds
  BY DEF Px!Init
<1>2. child = [i \in {1, 2} |-> [state |-> "none", left |-> 0, holds |-> FALSE]] /\ units = 0 /\ out = Volume
  BY DEF Px!Init
<1>3. tables = [p \in 0 .. 2 |-> IF p = 0 THEN [d \in Fd |-> IF d < 3 THEN Px!Tty ELSE NONE] ELSE Px!Closed]
  BY DEF Px!Init
<1>4. [d \in Fd |-> IF d < 3 THEN Px!Tty ELSE NONE] = Fresh
  <2>1. \A d \in Fd : d \in Nat
    BY DEF Room
  <2> QED BY <2>1 DEF Fresh, Table
<1>5. ParentOK
  <2>1. parent.pc = "start" /\ DOMAIN parent = Fields
    BY <1>1 DEF Fields
  <2> QED BY <1>3, <1>4, <2>1 DEF ParentOK, Phases
<1>6. OrderOK
  BY <1>1, <1>2 DEF OrderOK
<1>7. TwoChildrenOK
  <2>1. tables[1] = Px!Closed /\ tables[2] = Px!Closed
    BY <1>3
  <2>2. DOMAIN child = {1, 2} /\ \A i \in {1, 2} : child[i] = [state |-> "none", left |-> 0, holds |-> FALSE]
    BY <1>2
  <2>3. \A i \in {1, 2} : DOMAIN child[i] = {"state", "left", "holds"} /\ child[i].left = 0 /\ child[i].holds = FALSE /\ child[i].state = "none"
    BY <2>2
  <2>4. ASSUME NEW i \in {1, 2}
        PROVE  child[i].left \in Nat /\ child[i].holds \in BOOLEAN /\ child[i].state \in {"none", "forked", "runs", "exited"}
    <3>1. child[i].left = 0 /\ child[i].holds = FALSE /\ child[i].state = "none"
      BY <2>3
    <3>2. child[i].holds \in BOOLEAN
      BY <3>1, Zenon
    <3> QED BY <3>1, <3>2
  <2>5. child[1].state = "none" /\ child[2].state = "none"
    BY <1>2
  <2> QED BY <2>1, <2>2, <2>3, <2>4, <2>5 DEF TwoChildrenOK
<1>8. FirstOK
  BY <1>2 DEF FirstOK, Running
<1>9. SecondOK
  <2>1. parent.pc = "start" /\ child[1].state = "none" /\ child[2].state = "none"
    BY <1>1, <1>2
  <2> QED BY <1>2, <2>1 DEF SecondOK, Running, Put1, Sizes
<1> QED BY <1>1, <1>5, <1>6, <1>7, <1>8, <1>9 DEF PairInv, PairOK, TwoCommands

\* Each step keeps it.
LEMMA PairKept ==
  ASSUME Room, Sizes, PairInv, Px!Next PROVE PairInv'
<1>1. UNCHANGED kind
  BY DEF Px!Next, Px!ParentStep, Px!ChildStep, Px!OpenOut, Px!OpenIn, Px!OpenFails, Px!Exit, Px!Pipe, Px!PipeFails, Px!NoPath,
         Px!Fork, Px!Between, Px!ForkFails, Px!Wait, Px!End, Px!Become, Px!BecomeFails, Px!Read, Px!Write, Px!Stop
<1>2. TwoCommands /\ TwoCommands'
  BY <1>1 DEF PairInv, TwoCommands
<1>3. CASE parent.pc = "gone"
  <2>1. ~Px!ParentStep
    BY <1>3 DEF Px!ParentStep, Px!OpenOut, Px!OpenIn, Px!OpenFails, Px!Pipe, Px!PipeFails, Px!NoPath, Px!Fork, Px!Between,
                Px!ForkFails, Px!Wait, Px!End, Px!At
  <2>2. UNCHANGED parent
    BY <2>1 DEF Px!Next, Px!ChildStep, Px!Become, Px!BecomeFails, Px!Read, Px!Write, Px!Stop
  <2> QED BY <1>2, <1>3, <2>2 DEF PairInv
<1>4. CASE parent.pc # "gone"
  <2>1. PairOK
    BY <1>4 DEF PairInv
  <2>2. CASE Px!ParentStep
    <3>1. ASSUME NEW c, Px!Exit(c) PROVE parent'.pc = "gone"
      BY <2>1, <3>1, KeptExit DEF PairOK
    <3>2. CASE Px!OpenFails \/ Px!PipeFails \/ Px!NoPath \/ Px!ForkFails \/ Px!End
      <4>1. parent'.pc = "gone"
        BY <3>1, <3>2 DEF Px!OpenFails, Px!PipeFails, Px!NoPath, Px!ForkFails, Px!End
      <4> QED BY <1>2, <4>1 DEF PairInv
    <3>3. CASE ~(Px!OpenFails \/ Px!PipeFails \/ Px!NoPath \/ Px!ForkFails \/ Px!End)
      <4>1. PairOK'
        BY <2>1, <2>2, <3>3, KeptOpenOut, KeptOpenIn, KeptPipe, KeptFork1, KeptBetween, KeptFork2, KeptWait1, KeptWait2 DEF Px!ParentStep
      <4> QED BY <1>2, <4>1 DEF PairInv
    <3> QED BY <3>2, <3>3
  <2>3. CASE Px!ChildStep(1)
    <3>1. PairOK'
      BY <1>2, <2>1, <2>3, KeptBecome1, KeptFails1, KeptRead1, KeptWrite1, KeptStop1 DEF Px!ChildStep
    <3> QED BY <1>2, <3>1 DEF PairInv
  <2>4. CASE Px!ChildStep(2)
    <3>1. PairOK'
      BY <1>2, <2>1, <2>4, KeptBecome2, KeptFails2, KeptRead2, KeptWrite2, KeptStop2 DEF Px!ChildStep
    <3> QED BY <1>2, <3>1 DEF PairInv
  <2> QED BY <2>2, <2>3, <2>4 DEF Px!Next
<1> QED BY <1>3, <1>4

\* When pipex has waited for both commands, what the first wrote has gone through the second
\* into file2, no more and no less, the status is the second's, and nobody has the write
\* end of the pipe: for any kinds of commands, any volume and any size of a pipe.
THEOREM PairIsConnected == ASSUME Px!ConstantsAssumption PROVE Px!Spec => []Px!PairIsRun
<1>1. Room /\ Sizes
  BY PairAssumption, FdAssumption
<1>2. Px!Init => PairInv
  BY <1>1, PairInit
<1>3. PairInv /\ [Px!Next]_(Px!vars) => PairInv'
  <2>1. ASSUME PairInv, Px!Next PROVE PairInv'
    BY <1>1, <2>1, PairKept
  <2>2. ASSUME PairInv, UNCHANGED Px!vars PROVE PairInv'
    BY <2>2 DEF Px!vars, PairInv, TwoCommands, PairOK, ParentOK, OrderOK, TwoChildrenOK, FirstOK, SecondOK, Running, Put1, AtHand,
                Px!Sent, Px!Kept, Px!Code, Px!Closed
  <2> QED BY <2>1, <2>2
<1>4. PairInv => Px!PairIsRun
  <2> SUFFICES ASSUME PairInv, parent.pc = "end"
               PROVE  parent.status = Px!Code(2) /\ out = Px!Kept /\ Px!Holders(Px!WriteEnd) = {}
    BY DEF Px!PairIsRun, Px!At
  <2>1. PairOK
    BY DEF PairInv
  <2>2. child[1].state = "exited" /\ child[2].state = "exited" /\ parent.status = Px!Code(2) /\ out = Px!Kept
    BY <2>1 DEF PairOK, OrderOK, SecondOK
  <2>3. tables[0] = NoWriter /\ tables[1] = Px!Closed /\ tables[2] = Px!Closed
    BY <2>1, <2>2 DEF PairOK, ParentOK, TwoChildrenOK
  <2>4. NONE # Px!WriteEnd
    BY <1>1 DEF Room
  <2>5. \A d \in Fd : NoWriter[d] # Px!WriteEnd
    BY <2>4 DEF NoWriter, Table, Px!Tty, Px!Out, Px!ReadEnd, Px!WriteEnd
  <2>6. \A d \in Fd : Px!Closed[d] # Px!WriteEnd
    BY <2>4 DEF Px!Closed
  <2>7. \A p \in 0 .. 2 : p = 0 \/ p = 1 \/ p = 2
    OBVIOUS
  <2>8. Px!Holders(Px!WriteEnd) = {}
    BY <2>3, <2>5, <2>6, <2>7 DEF Px!Holders
  <2> QED BY <2>2, <2>8
<1> QED BY <1>2, <1>3, <1>4, PTL DEF Px!Spec
=============================================================================
