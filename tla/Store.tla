------------------------------- MODULE Store --------------------------------
(***************************************************************************)
(* What the shell makes of its variables: a command changes the variable   *)
(* it names and no other.  A variable has a value, the one that is seen,   *)
(* and may have others behind it: a value given to a variable takes the    *)
(* place of one that begins like it, and otherwise waits behind the one    *)
(* that is seen until that is unset.  The directories commands are         *)
(* searched in are those of the start until they are taken away.           *)
(***************************************************************************)
EXTENDS Functions

CONSTANTS
  Names,      \* names of variables
  Values,
  Blank,      \* one of them
  Alike,      \* Alike[v]: those that v takes the place of
  NotSet,     \* the value of a variable that is not set
  PATH, PWD, OLDPWD     \* names too

VARIABLES
  dict,       \* the value of each variable
  behind,     \* the values behind it
  search,     \* what commands are searched in
  asked,      \* the command run last
  wild        \* a command has been run of which nothing is promised

\* In place of the value that is seen, or behind it.
Replace(n, v) ==
  /\ dict[n] \in Alike[v] \cup {NotSet}
  /\ dict' = [dict EXCEPT ![n] = v]
  /\ UNCHANGED behind

Wait(n, v) ==
  /\ dict[n] \notin Alike[v] \cup {NotSet}
  /\ \E kept \in SUBSET behind[n] :
       /\ behind[n] \ Alike[v] \subseteq kept
       /\ behind' = [behind EXCEPT ![n] = kept \cup {v}]
  /\ UNCHANGED dict

Export(n, v) ==
  /\ Replace(n, v) \/ Wait(n, v)
  /\ search' = IF n = PATH /\ v = Blank THEN Blank ELSE search

\* The next of those behind is seen.
Forget(n) ==
  /\ \/ behind[n] = {} /\ dict' = [dict EXCEPT ![n] = NotSet] /\ UNCHANGED behind
     \/ \E v \in behind[n] : \E rest \in {behind[n], behind[n] \ {v}} :
          dict' = [dict EXCEPT ![n] = v] /\ behind' = [behind EXCEPT ![n] = rest]
  /\ search' = IF n = PATH THEN NotSet ELSE search

\* Where the shell was is remembered when it was known.
ChangeDir(d) ==
  /\ dict' = [dict EXCEPT ![OLDPWD] = IF dict[PWD] = NotSet THEN @ ELSE dict[PWD], ![PWD] = d]
  /\ UNCHANGED <<behind, search>>

Keep == UNCHANGED <<dict, behind, search>>

Does(c) ==
  \/ c.cmd = "export" /\ Export(c.name, c.value)
  \/ c.cmd = "unset" /\ Forget(c.name)
  \/ c.cmd = "cd" /\ (Keep \/ \E d \in Values : ChangeDir(d))
  \/ c.cmd \notin {"export", "unset", "cd"} /\ Keep

Init ==
  /\ dict \in [Names -> Values \cup {NotSet}]
  /\ behind \in [Names -> SUBSET Values]
  /\ \A n \in Names : dict[n] = NotSet => behind[n] = {}
  /\ search = dict[PATH]
  /\ wild = FALSE

Next ==
  \/ wild'
  \/ ~wild' /\ Does(asked')

Spec == Init /\ [][Next]_<<dict, behind, search, asked, wild>>
=============================================================================
