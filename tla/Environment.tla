---------------------------- MODULE Environment -----------------------------
(***************************************************************************)
(* The variables of 42_minishell: the list env.envp of "NAME=value" texts, *)
(* the directories env.path that commands are searched in, and the         *)
(* builtins that change them, which run in the shell itself.               *)
(*                                                                         *)
(* A name is a sequence of letters, since the code compares beginnings of  *)
(* texts; a value is an atom with a first character.  An entry without '=' *)
(* has been exported without a value.  A step is one command.              *)
(***************************************************************************)
EXTENDS Integers, Sequences, SequencesExt

CONSTANTS
  Names,         \* names that may be exported, nonempty
  Values,        \* values that may be given
  Blank,         \* the empty value, one of Values
  First,         \* First[v]: the first character of another one
  Dirs,          \* those of Values that are directories
  NoText,        \* the value of an entry without '='
  NULL,
  PATH, PWD, OLDPWD, HOME, SHLVL,    \* names, none of them empty
  One,           \* the value "1", one of Values
  Parents,       \* what envp may hold when the shell starts
  MaxEntries     \* bound on the entries of the list

AllNames == Names \cup {PATH, PWD, OLDPWD, HOME, SHLVL}
Set      == [name : AllNames, value : Values]

\* A parent gives variables with their values.
ConstantsAssumption ==
  /\ AllNames \subseteq Seq(UNION {ToSet(n) : n \in AllNames}) \ {<<>>}
  /\ PATH \notin {PWD, OLDPWD} /\ PWD # SHLVL
  /\ Dirs \subseteq Values /\ {One, Blank} \subseteq Values /\ {NoText, NULL} \cap Values = {} /\ NULL \notin Seq(Set)
  /\ Parents \subseteq Seq(Set)

VARIABLES
  envp,      \* the list, or NULL
  path,      \* what path was split from, or NULL
  status,    \* exit_status
  cwd,       \* the directory of the process
  running,   \* the shell reads commands
  asked,     \* the command run last (observed)
  wild       \* a command has been run that says less than it does (observed)

vars == <<envp, path, status, cwd, running, asked, wild>>

Entry(n, v) == [name |-> n, value |-> v]
Entries     == IF envp = NULL THEN <<>> ELSE envp

-----------------------------------------------------------------------------
(* multidimensional.c                                                           *)

\* A key is a text with a '=' or without, and is found in the first entry that begins
\* with it: "A=" in an entry for A, "A=b" in one whose value begins so, "A" also in AB.
Key(n)  == [name |-> n, eq |-> TRUE, fits |-> Values]
Bare(n) == [name |-> n, eq |-> FALSE, fits |-> {}]

\* export_key() takes the first character of the value into the key.
Alike == [v \in Values |-> IF v = Blank THEN Values
                           ELSE {w \in Values \ {Blank} : First[w] = First[v]}]
KeyOf(n, v) == [name |-> n, eq |-> TRUE, fits |-> Alike[v]]

Begins_short(e, k) == IF k.eq THEN IsPrefix(k.name, e.name) /\ e.value \in k.fits ELSE IsPrefix(k.name, e.name)   \* mutant: '=' is not compared
Begins(e, k) ==
  IF k.eq THEN e.name = k.name /\ e.value \in k.fits ELSE IsPrefix(k.name, e.name)

\* key_already_present(): its position, 0 when there is none.
Position(list, k) == SelectInSeq(list, LAMBDA e : Begins(e, k))
Present(list, k)  == Position(list, k) # 0

\* add_to_multi(): in place of the entry that is found, or at the end.
Added(list, k, v) ==
  IF Present(list, k) THEN [list EXCEPT ![Position(list, k)] = Entry(k.name, v)]
  ELSE Append(list, Entry(k.name, v))

\* remove_from_multi(): the entries before and behind it, by copy_multi_from().
CopyFrom(list, start, size) == SubSeq(list, start + 1, size)
Removed(list, k) ==
  IF Present(list, k)
  THEN CopyFrom(list, 0, Position(list, k) - 1) \o CopyFrom(list, Position(list, k), Len(list))
  ELSE list

\* value_finder()
Value(list, n) == IF Present(list, Key(n)) THEN list[Position(list, Key(n))].value ELSE NULL

-----------------------------------------------------------------------------
(* The builtins.                                                                *)

Ask(c) == running /\ asked' = c

\* mini_export() with "NAME=value" or "NAME"; the path follows when the key is a
\* beginning of "PATH=", which it is not with a character of a value behind it.
OfPath(k, v) == IF k.eq THEN k.name = PATH /\ v = Blank ELSE IsPrefix(k.name, PATH)

Export(k, v) ==
  /\ Ask([cmd |-> "export", name |-> k.name, value |-> v])
  /\ Len(Added(Entries, k, v)) =< MaxEntries
  /\ envp' = Added(Entries, k, v)
  /\ path' = IF OfPath(k, v) THEN v ELSE path
  /\ status' = 0
  /\ wild' = (wild \/ ~k.eq)
  /\ UNCHANGED <<cwd, running>>

\* mini_unset(), also with the empty word, which every entry begins with.
Unset(n) ==
  /\ Ask([cmd |-> "unset", name |-> n])
  /\ envp' = IF envp = NULL THEN NULL ELSE Removed(envp, Bare(n))
  /\ path' = IF IsPrefix(n, PATH) THEN NULL ELSE path
  /\ status' = 0
  /\ wild' = (wild \/ \E m \in {PATH} \cup {Entries[i].name : i \in DOMAIN Entries} : n # m /\ IsPrefix(n, m))
  /\ UNCHANGED <<cwd, running>>

\* unset alone gives NULL for the list.
UnsetNothing ==
  /\ Ask([cmd |-> "unset nothing"])
  /\ envp' = NULL /\ status' = 0 /\ wild' = TRUE
  /\ UNCHANGED <<path, cwd, running>>

\* print_env() follows the list.
PrintEnv(cmd) ==
  /\ Ask([cmd |-> cmd])
  /\ running' = (envp # NULL)
  /\ status' = 0
  /\ UNCHANGED <<envp, path, cwd, wild>>

\* mini_cd(): to where, or NULL when the variable for it is not set.
Where(arg) == CASE arg = "~" -> Value(Entries, HOME)
                [] arg = "-" -> Value(Entries, OLDPWD)
                [] OTHER     -> arg

Moved(list, d) ==
  Added(IF Present(list, Key(PWD)) THEN Added(list, Key(OLDPWD), Value(list, PWD)) ELSE list,
        Key(PWD), d)

Chdir(arg) ==
  /\ Ask([cmd |-> "cd", to |-> arg]) /\ Where(arg) \in Dirs
  /\ Len(Moved(Entries, Where(arg))) =< MaxEntries
  /\ cwd' = Where(arg) /\ envp' = Moved(Entries, Where(arg)) /\ status' = 0
  /\ UNCHANGED <<path, running, wild>>

ChdirFails(arg) ==
  /\ Ask([cmd |-> "cd", to |-> arg]) /\ Where(arg) \notin Dirs
  /\ status' = IF Where(arg) = NULL THEN status ELSE 1
  /\ UNCHANGED <<envp, path, cwd, running, wild>>

\* pwd, echo and export of a text that begins with '=' change nothing but the status.
Say(cmd) ==
  /\ Ask([cmd |-> cmd]) /\ status' = 0
  /\ UNCHANGED <<envp, path, cwd, running, wild>>

\* mini_exit()
Exit ==
  /\ Ask([cmd |-> "exit"]) /\ running' = FALSE
  /\ UNCHANGED <<envp, path, status, cwd, wild>>

-----------------------------------------------------------------------------
\* init_env(): a copy of what the parent gives, or set_default_env(); init_path().
Inherited(parent) ==
  IF parent = <<>> THEN <<Entry(PWD, cwd), Entry(SHLVL, One)>> ELSE parent

Init ==
  /\ cwd \in Dirs
  /\ \E parent \in Parents : envp = Inherited(parent) /\ path = Value(Inherited(parent), PATH)
  /\ status = 0 /\ running = TRUE /\ wild = FALSE
  /\ asked = [cmd |-> "nothing"]

Change ==
  \/ \E n \in Names : \E v \in Values : Export(KeyOf(n, v), v)
  \/ \E n \in Names : Export(Bare(n), NoText)
  \/ \E n \in Names \cup {<<>>} : Unset(n)
  \/ UnsetNothing
  \/ \E arg \in Values \cup {"~", "-"} : Chdir(arg) \/ ChdirFails(arg)

Next ==
  \/ Change
  \/ \E cmd \in {"env", "export alone"} : PrintEnv(cmd)
  \/ \E cmd \in {"pwd", "echo", "export ="} : Say(cmd)
  \/ Exit

Spec == Init /\ [][Next]_vars

-----------------------------------------------------------------------------
(* Properties                                                                   *)

Dict == [n \in AllNames |-> Value(Entries, n)]

\* The values of the entries for a name that are not found.
Rest(list, n) ==
  {list[i].value : i \in {j \in 1 .. Len(list) : Begins(list[j], Key(n)) /\ j # Position(list, Key(n))}}
Behind == [n \in AllNames |-> Rest(Entries, n)]

\* Types, and the list of variables is only lost by a command that says so.
TypeOK ==
  /\ envp # NULL => \A i \in DOMAIN envp : envp[i].name \in AllNames /\ envp[i].value \in Values \cup {NoText}
  /\ path \in Values \cup {NoText, NULL} /\ status \in 0 .. 255 /\ cwd \in Dirs
  /\ envp = NULL => wild

\* As long as no command has named a variable by the beginning of its name, or has
\* exported one without a value, a command changes the variable it names and no other,
\* and cd keeps PWD and OLDPWD.  A value that is exported is seen when there is none or
\* the one that is seen begins like it; otherwise it waits behind that one, which
\* hides it until it is unset.  No value given to PATH changes where commands are
\* searched; the empty one and unset leave no place.
Promised == INSTANCE Store WITH
  Names <- AllNames, NotSet <- NULL, dict <- Dict, behind <- Behind, search <- path
ImplementsStore == Promised!Spec
=============================================================================
