----------------------------- MODULE MCPipeline -----------------------------
(* Lines of one and two commands of every kind, and some of three.             *)
EXTENDS Pipeline, TLC

CONSTANTS f, g

In(n)   == [type |-> "<", name |-> n]
Out(n)  == [type |-> ">", name |-> n]
Here    == [type |-> "<<", name |-> "end"]
C(kind, redirs) == [kind |-> kind, redirs |-> redirs]

Plain  == {C(k, <<>>) : k \in {"gen", "copy", "head", "missing", "builtin", "exit"}}
Redirs == {<<In(f)>>, <<Out(g)>>, <<Here>>, <<In(f), In(g)>>, <<Out(f), Out(g)>>, <<In(f), Out(g)>>}
Redirected == {C("copy", r) : r \in Redirs} \cup {C("builtin", <<Out(g)>>)}
NoWord == {C("none", <<Out(g)>>)}

Gen  == C("gen", <<>>)
Copy == C("copy", <<>>)

OneCommand    == {<<a>> : a \in Plain \cup Redirected \cup NoWord}
TwoCommands   == {<<a, b>> : a \in Plain, b \in Plain \cup Redirected} \cup {<<a, b>> : a \in Redirected, b \in Plain}
ThreeCommands == {<<a, Copy, b>> : a \in {Gen, C("builtin", <<>>)}, b \in {Copy, C("copy", <<Out(g)>>), C("missing", <<>>)}}

Typed == OneCommand \cup TwoCommands \cup ThreeCommands
=============================================================================
