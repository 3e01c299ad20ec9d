--------------------------- MODULE HttpResponse ---------------------------
(***************************************************************************)
(* What the static web server (homework1/demo) answers to a request: from  *)
(* the request as it arrived, through urlDecode and the split into words,  *)
(* to the status, the redirection and the file whose bytes are sent.       *)
(* Both servers, utils.c and utils_https.c, decide in this way.            *)
(*                                                                         *)
(* A target, the second word of the request line, is a sequence of pieces: *)
(* "/", "?", "+", an escape such as "%2F", or a name, which stands for any *)
(* run of other characters.  Paths are sequences of pieces without         *)
(* escapes, relative to the document root html.                            *)
(***************************************************************************)
EXTENDS Naturals, Sequences, FiniteSets

CONSTANTS
    Files,     \* paths of the files under the document root
    Dirs,      \* paths of the directories, without "/" at the end
    Requests   \* the requests clients send

ASSUME TreeIsATree ==
    /\ <<>> \in Dirs
    /\ Files \cap Dirs = {}

ASSUME TargetsAreWords == \A q \in Requests : q.target \in Seq(STRING)

(* A response carries the file it was read from, or no file: an error page *)
(* is known by its status.                                                 *)
NoFile == <<"no file">>
NoLocation == <<"no location">>
Response(status, location, file) == [status |-> status, location |-> location, file |-> file]

----------------------------------------------------------------------------
(* urlDecode goes over the whole request, before it is split into words,   *)
(* and takes "+" for a blank.                                              *)
Escapes == {"%2B", "%2F", "%3F", "%20", "%E6"}
Unescaped == [e \in Escapes |->
    CASE e = "%2B" -> "+" [] e = "%2F" -> "/" [] e = "%3F" -> "?"
      [] e = "%20" -> " " [] e = "%E6" -> "name in UTF-8"]

DecodePiece(p) == IF p \in Escapes THEN Unescaped[p] ELSE p

urlDecode(target) == [i \in DOMAIN target |-> IF target[i] = "+" THEN " " ELSE DecodePiece(target[i])]

(* The part of s before the first p: what sscanf leaves of a target with a *)
(* blank in it, and extractFilePath of one with a question mark.           *)
Before(s, p) == SubSeq(s, 1, Cardinality({i \in DOMAIN s : \A j \in 1..i : s[j] # p}))

extractFilePath(path) == Before(path, "?")

----------------------------------------------------------------------------
EndsWithSlash(path) == path # <<>> /\ path[Len(path)] = "/"
WithoutSlash(path) == IF EndsWithSlash(path) THEN SubSeq(path, 1, Len(path) - 1) ELSE path

(* stat: only a directory may be named with "/" at the end.                *)
IsDir(path) == WithoutSlash(path) \in Dirs
Exists(path) == IsDir(path) \/ path \in Files
IndexOf(path) == path \o <<"index.html">>

handle501Response == Response(501, NoLocation, NoFile)
handle404Response == Response(404, NoLocation, NoFile)
handle301Response(path) == Response(301, path \o <<"/">>, NoFile)
handle403Response == Response(403, NoLocation, NoFile)

(* Of the directories only the root is replaced by its index.  Another one *)
(* is opened itself, and nothing can be read from it.                      *)
handle200Response(path) ==
    Response(200, NoLocation,
             IF path = <<"/">> THEN IndexOf(path) ELSE IF IsDir(path) THEN NoFile ELSE path)

\* Mutant of Respond: asks for the slash after the index.
RespondIndexFirst(method, target) ==
    LET path == extractFilePath(Before(target, " ")) IN
    IF method # "GET" THEN handle501Response
    ELSE IF ~Exists(path) THEN handle404Response
    ELSE IF IsDir(path) /\ IndexOf(path) \notin Files THEN handle403Response
    ELSE IF IsDir(path) /\ ~EndsWithSlash(path) THEN handle301Response(path)
    ELSE handle200Response(path)

(* handleHTTPRequest from the decoded request on.                          *)
Respond(method, target) ==
    LET path == extractFilePath(Before(target, " ")) IN
    IF method # "GET" THEN handle501Response
    ELSE IF ~Exists(path) THEN handle404Response
    ELSE IF IsDir(path) /\ ~EndsWithSlash(path) THEN handle301Response(path)
    ELSE IF IsDir(path) /\ IndexOf(path) \notin Files THEN handle403Response
    ELSE handle200Response(path)

handleHTTPRequest == [q \in Requests |-> Respond(q.method, urlDecode(q.target))]

----------------------------------------------------------------------------
(* What the assignment asks of any server (homework1/README.md:78-90): the *)
(* query is ignored, what is left names a file by its escaped name, and a  *)
(* directory is served by its index.                                       *)
Named(target) == LET path == Before(target, "?") IN [i \in DOMAIN path |-> DecodePiece(path[i])]

AsSpecified(q, r) ==
    LET path == Named(q.target)
        raw == Before(q.target, "?")
        dir == WithoutSlash(path)
        slash == EndsWithSlash(path)
    IN
    /\ r.status = 501 <=> q.method # "GET"
    /\ q.method = "GET" =>
         /\ r.status = 404 <=> path \notin Files /\ dir \notin Dirs
         /\ r.status = 301 <=> dir \in Dirs /\ ~slash
         /\ r.status = 301 => r.location = raw \o <<"/">>
         /\ r.status = 403 <=> dir \in Dirs /\ slash /\ dir \o <<"/", "index.html">> \notin Files
         /\ r.status = 200 => r.file \in {path, path \o <<"index.html">>} \cap Files

(* What the code decides as specified: a path in which nothing decodes to  *)
(* what it cuts at, a redirection to a path without escapes, and no index  *)
(* in a directory below the root.                                          *)
CutAt(blanks) == {" ", "?", "%20", "%3F"} \cup blanks

Ordinary(q, blanks) ==
    LET raw == Before(q.target, "?")
        path == Named(q.target)
    IN
    /\ \A i \in DOMAIN raw : raw[i] \notin CutAt(blanks)
    /\ IsDir(path) =>
         IF EndsWithSlash(path) THEN path = <<"/">> \/ IndexOf(path) \notin Files
                                ELSE path = raw
============================================================================
