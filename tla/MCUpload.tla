------------------------------- MODULE MCUpload -------------------------------
(* Two clients that upload the same file or another; a form of two files.      *)
EXTENDS Upload, TLC

CONSTANTS c1, c2, f, g

File(name, data) == [file |-> name, data |-> data]

OneFile == (c1 :> {<<File(f, <<11>>)>>, <<File(f, <<11, 12, 13, 14, 15, 16>>)>>})
           @@ (c2 :> {<<File(f, <<21, 22>>)>>, <<File(g, <<21, 22>>)>>})

TwoFiles == c1 :> {<<File(f, <<11, 12>>), File(g, <<13>>)>>}

Older == <<0>>
===============================================================================
