-------------------------------- MODULE Answers --------------------------------
(***************************************************************************)
(* ServerResponse::generate_response(): which location answers a request,  *)
(* what of the disk it gives or deletes, and for which reason it refuses.  *)
(* /login, /session and /logout are in Sessions, scripts in ScriptAnswer,  *)
(* uploads in Upload, and the pieces of a chunked file in ChunkStream.     *)
(* Addresses and paths are sequences of characters, see Tokens.            *)
(***************************************************************************)
EXTENDS Tokens

CONSTANTS
  Characters,   \* what addresses and paths are made of
  Configs,      \* [root, index, pages, locations]: pages are the errors with a page, a location
                \* is [path, root, index, methods, auto_index, max, returnPath]
  Requests,     \* [method, uri, mime, plain, data]: plain is text/plain, data the length of
                \* the body that was read, -1 for none
  Dirs,         \* directories of the disk, without '/' at the end
  Files,        \* files that may be on the disk
  Locked,       \* the ones that cannot be opened
  REWRITES      \* MAX_INTERNAL_REWRITES, 5 in the code

VARIABLES
  config,       \* the server's
  files,        \* the files on the disk
  request,      \* the last request
  answer        \* what was answered: [code, body], code 0 for an exception

vars == <<config, files, request, answer>>

Nothing == <<>>
Slashed(p) == IF p # <<>> /\ Last(p) # "/" THEN Append(p, "/") ELSE p
Location(i) == config.locations[i]

\* is_directory(): with or without '/' at the end.
is_directory(p) == (IF p # <<>> /\ Last(p) = "/" THEN Front(p) ELSE p) \in Dirs

\* find_best_location_match(): the longest path that the address begins with, character by
\* character, and 0 for none.
find_best_location_match(uri) ==
  LET S    == {i \in DOMAIN config.locations : Location(i).path # <<>> /\ IsPrefix(Location(i).path, uri)}
      long == {i \in S : \A j \in S : Len(Location(j).path) =< Len(Location(i).path)}
  IN  LeastOf(long)

\* resolve_file_path()
resolve_file_path(location, uri) ==
  Slashed(IF location.root = <<>> THEN config.root ELSE location.root) \o (IF uri # <<>> /\ uri[1] = "/" THEN Tail(uri) ELSE uri)

Plain(code) == [code |-> code, body |-> Nothing]

\* serve_file(), handle_file_error(): the page of an error 404 is asked for with at().
serve_file(path) ==
  IF path \in files \ Locked THEN [code |-> 200, body |-> <<"file", path>>]
  ELSE IF 404 \in config.pages THEN Plain(404) ELSE Plain(0)

IndexOf(index) == IF index = <<>> THEN <<"index">> ELSE index[1]

\* handle_directory()
handle_directory(location, dir, mime) ==
  LET index == Slashed(dir) \o IndexOf(location.index)
  IN  IF index \in files /\ mime # <<".", "json">> THEN serve_file(index)
      ELSE IF location.auto_index THEN [code |-> 200, body |-> <<"list", Slashed(dir)>>]
      ELSE Plain(403)

\* handle_get_method()
handle_get_method(location, path, mime) ==
  IF is_directory(path) THEN handle_directory(location, path, mime) ELSE serve_file(path)

\* handle_file_delete()
handle_file_delete(path) ==
  IF path \in files THEN Plain(200) ELSE IF is_directory(path) THEN Plain(500) ELSE Plain(404)

\* handle_file_upload(), of a body that is no form
handle_file_upload(r) == IF r.plain THEN Plain(403) ELSE Plain(400)

-----------------------------------------------------------------------------
\* choose_method() up to the methods: the location changes with the address, as long as
\* one is found for it.  A new address without a location leaves the file and the location
\* of the old one.
Rewritten_there(s, k) ==                                \* mutant: the file is still the one of the old address
  LET to == Location(s.at).returnPath
  IN  IF s.done \/ to = <<>> \/ to = s.uri THEN [s EXCEPT !.done = TRUE]
      ELSE IF find_best_location_match(to) = 0 THEN [s EXCEPT !.uri = to, !.done = TRUE]
      ELSE [s EXCEPT !.uri = to, !.at = find_best_location_match(to)]

Rewritten(s, k) ==
  LET to == Location(s.at).returnPath
  IN  IF s.done \/ to = <<>> \/ to = s.uri THEN [s EXCEPT !.done = TRUE]
      ELSE IF find_best_location_match(to) = 0 THEN [s EXCEPT !.uri = to, !.done = TRUE]
      ELSE [s EXCEPT !.uri = to, !.at = find_best_location_match(to), !.path = to]

Chosen(uri) ==
  FoldLeft(Rewritten, [uri |-> uri, at |-> find_best_location_match(uri), path |-> uri, done |-> FALSE], [k \in 1 .. REWRITES |-> k])

choose_method(r) ==
  LET s        == Chosen(r.uri)
      location == Location(s.at)
      path     == resolve_file_path(location, s.path)
  IN  IF r.method \notin location.methods THEN Plain(405)
      ELSE CASE r.method = "DELETE" -> handle_file_delete(path)
             [] r.method = "GET"    -> handle_get_method(location, path, r.mime)
             [] r.method = "POST"   -> handle_file_upload(r)

\* serve_default_root(): whatever the method is.  Nobody has set whether its directory may
\* be listed.
serve_default_root(r, wild) ==
  IF r.uri = <<"/">> THEN handle_get_method([index |-> config.index, auto_index |-> wild], Slashed(config.root), r.mime)
  ELSE Plain(404)

\* generate_response(): the body is too large when the part that was read is.
generate_response(r, wild) ==
  LET at == find_best_location_match(r.uri)
  IN  IF at = 0 THEN serve_default_root(r, wild)
      ELSE IF Location(at).max # 0 /\ r.data > Location(at).max THEN Plain(413)
      ELSE choose_method(r)

Deleted(r) == IF find_best_location_match(r.uri) = 0 THEN {}
              ELSE LET s == Chosen(r.uri) IN {resolve_file_path(Location(s.at), s.path)}

Answer(r) ==
  /\ request' = r
  /\ \E wild \in BOOLEAN : answer' = generate_response(r, wild)
  /\ files' = IF r.method = "DELETE" /\ answer'.code = 200 THEN files \ Deleted(r) ELSE files
  /\ UNCHANGED config

\* A file is uploaded, or put there by somebody else.
Appear(f) == f \notin files /\ files' = files \cup {f} /\ UNCHANGED <<config, request, answer>>

\* Configurations and requests as the parsers give them.
Text == Seq(Characters)
LocationOK(l) == {l.path, l.root, l.returnPath} \subseteq Text /\ l.index \in Seq(Text) /\ l.max \in Nat
ConfigOK(b)   == /\ b.root \in Text /\ b.index \in Seq(Text)
                 /\ Len(b.locations) \in Nat /\ DOMAIN b.locations = 1 .. Len(b.locations)
                 /\ \A i \in DOMAIN b.locations : LocationOK(b.locations[i])
RequestOK(r)  == /\ DOMAIN r = {"method", "uri", "mime", "plain", "data"}
                 /\ r.method \in {"GET", "POST", "DELETE"} /\ r.uri \in Text /\ r.data \in Int
ConstantsAssumption ==
  {"/", "index"} \subseteq Characters /\ REWRITES \in Nat /\ REWRITES > 0 /\ (\A b \in Configs : ConfigOK(b)) /\ (\A r \in Requests : RequestOK(r))

NoRequest == [method |-> "none", uri |-> <<>>, mime |-> <<>>, plain |-> FALSE, data |-> -1]

Init ==
  /\ config \in Configs /\ files \in {Files, {}}
  /\ request = NoRequest /\ answer = Plain(0)

Next == (\E r \in Requests : Answer(r)) \/ (\E f \in Files : Appear(f))

Spec == Init /\ [][Next]_vars

-----------------------------------------------------------------------------
\* However locations lie in each other and return to each other: what is given is a file
\* that is there, under the root of a location that allows GET; what disappears is one
\* file, under the root of a location that allows DELETE, and it was asked for; and a
\* request for an address that returns to another one is answered as a request for that
\* one, if the returns come to an end at a location (choose_method()).  The first page of
\* a server without a location for it is given to every method, and the limit on a body is
\* the one of the address that was asked for.
Under(path, method) ==
  \E i \in DOMAIN config.locations : method \in Location(i).methods /\ IsPrefix(resolve_file_path(Location(i), <<>>), path)

HomePage(r) == r.uri = <<"/">> /\ find_best_location_match(r.uri) = 0

FileIsThere(r, a) == a.body # Nothing /\ a.body[1] = "file" => a.body[2] \in files \ Locked /\ (Under(a.body[2], "GET") \/ HomePage(r))

OnlyAskedDeleted(r) == files \subseteq files' \/ (r.method = "DELETE" /\ \A f \in files \ files' : files \ files' = {f} /\ Under(f, "DELETE"))

RewrittenIsAsked(r, a) ==
  LET at == find_best_location_match(r.uri)
      to == IF at = 0 THEN <<>> ELSE Location(at).returnPath
  IN  to # <<>> /\ find_best_location_match(to) # 0 /\ Chosen(r.uri).done /\ r.data = -1
        => a = generate_response([r EXCEPT !.uri = to], FALSE)

AnsweredRightly == FileIsThere(request', answer') /\ OnlyAskedDeleted(request') /\ RewrittenIsAsked(request', answer')

AnsweredByItsLocation == [][request' # request \/ answer' # answer => AnsweredRightly]_vars
===============================================================================
