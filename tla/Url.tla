---------------------------------- MODULE Url ----------------------------------
(***************************************************************************)
(* How the server and the client take a URL apart (src/server/url.c,       *)
(* url_get_field; src/client/url.cc, Url::Parse).                          *)
(*                                                                         *)
(* A URL is a sequence of delimiters, of "x", any letter, and of "1", any  *)
(* other character that is no delimiter, as a digit is.  A pointer         *)
(* into it is the place of a character; sscanf is modelled by how far it   *)
(* gets, as glibc's does: it returns EOF, not 0, when the URL ends before  *)
(* the delimiter it looks for.                                             *)
(***************************************************************************)
EXTENDS Integers, Sequences

CONSTANTS
  Words,            \* what a user, a host or a port may be
  Paths,            \* paths that are not empty
  Tails             \* queries and fragments

\* Words hold no delimiter; a path begins with a slash; none holds what ends it.
ASSUME UrlAssumption ==
  /\ Words \subseteq Seq({"x", "1"}) /\ <<>> \notin Words
  /\ Paths \subseteq Seq({"x", "1", "/", ":", "@"}) /\ \A p \in Paths : p # <<>> /\ p[1] = "/"
  /\ Tails \subseteq Seq({"x", "1", "/", "?", ":", "@"})

VARIABLE parts      \* the parts a URL is put together from

\* No field: a null pointer; Url::Parse has thrown.
NoField == <<"null">>
Thrown == [host |-> NoField, port |-> NoField, path |-> NoField]

CharAt(s, p) == IF p \in 1..Len(s) THEN s[p] ELSE "zero"

\* The first place at or behind p where s has one of `stop', or ends.
Reach(s, p, stop) ==
  CHOOSE q \in p..Len(s) + 1 :
    /\ CharAt(s, q) \in stop \cup {"zero"}
    /\ \A r \in p..q - 1 : s[r] \notin stop

\* %*[^...]%n leaves -1 when it matches nothing; with the delimiter behind the
\* set, also when there is none.
Scan(s, p, stop) == LET q == Reach(s, p, stop) IN IF q = p THEN -1 ELSE q - p
ScanPast(s, p, delim) ==
  LET q == Reach(s, p, {delim})
  IN  IF q = p \/ q > Len(s) THEN -1 ELSE q - p + 1

\* Mutant of Copy: the byte behind the field is copied too.
CopyOneMore(s, p, n) == SubSeq(s, p, IF n = -1 \/ p + n > Len(s) THEN Len(s) ELSE p + n)

\* strndup: its length is a size_t, so that -1 copies all there is.
Copy(s, p, n) ==
  SubSeq(s, p, IF n = -1 \/ p + n - 1 > Len(s) THEN Len(s) ELSE p + n - 1)

(***************************************************************************)
(* The server: url_get_field                                               *)
(***************************************************************************)

AuthorityFields == {"authority", "userinfo", "host", "port"}
HierFields == AuthorityFields \cup {"hier_part", "path"}
UrlFields == HierFields \cup {"scheme", "query", "absolute", "fragment"}

GetScheme(url) ==
  LET end == Reach(url, 1, {":", "/", "?", "#", "@"})
  IN  IF end > 1 /\ CharAt(url, end) = ":" /\ CharAt(url, 1) = "x"
        THEN Copy(url, 1, end - 1) ELSE NoField

\* The user is looked for up to the next @, wherever that is; one that does not
\* begin with a letter is not returned.
GetAuthority(s, p, field) ==
  LET user_end == ScanPast(s, p, "@")
      host == IF user_end = -1 THEN p ELSE p + user_end
      host_end == Scan(s, host, {":", "/", "?", "#"})
      port == host + host_end
  IN  CASE field = "authority" -> Copy(s, p, Scan(s, p, {"/", "?", "#"}))
        [] field = "userinfo" -> IF user_end >= 0 /\ CharAt(s, p) = "x"
                                   THEN Copy(s, p, user_end - 1) ELSE NoField
        [] field = "host" -> Copy(s, host, host_end)
        [] field = "port" -> IF CharAt(s, port) = ":"
                               THEN Copy(s, port + 1, Scan(s, port, {"/", "?", "#"}) - 1)
                               ELSE NoField

GetPath(s, p) ==
  LET end == Scan(s, p, {"?", "#"}) IN IF end > 0 THEN Copy(s, p, end) ELSE <<"/">>

\* The path is looked for behind the next slash, wherever that is.
GetHierPart(s, p, field) ==
  LET slashes == Reach(s, p, {"x", "1", ":", "?", "#", "@"}) - p
  IN  CASE field = "hier_part" -> Copy(s, p, Scan(s, p, {"?", "#"}))
        [] field \in AuthorityFields /\ slashes = 2 -> GetAuthority(s, p + 2, field)
        [] field = "path" /\ slashes = 2 -> GetPath(s, p + 2 + Scan(s, p + 2, {"/"}))
        [] field = "path" /\ slashes = 0 -> GetPath(s, p)
        [] OTHER -> NoField

GetQuery(s, p) ==
  LET end == Scan(s, p, {"#"}) IN IF end > 0 THEN Copy(s, p, end) ELSE <<>>

GetField(url, field) ==
  LET scheme_end == ScanPast(url, 1, ":")
      hier == IF scheme_end = -1 THEN 1 ELSE 1 + scheme_end
      query == hier + Scan(url, hier, {"?", "#"})
      fragment == IF CharAt(url, query) = "?" THEN query + Scan(url, query, {"#"}) ELSE query
  IN  CASE field = "scheme" -> GetScheme(url)
        [] field \in HierFields -> GetHierPart(url, hier, field)
        [] field = "query" /\ CharAt(url, query) = "?" -> GetQuery(url, query + 1)
        [] field = "absolute" -> Copy(url, 1, fragment - 1)
        [] field = "fragment" /\ CharAt(url, fragment) = "#" -> Copy(url, fragment + 1, -1)
        [] OTHER -> NoField

(***************************************************************************)
(* The client: Url::Parse                                                  *)
(***************************************************************************)

Separators(url) == {p \in 1..Len(url) - 2 : SubSeq(url, p, p + 2) = <<":", "/", "/">>}

\* Mutant of Parse: the port is looked for in all of the URL.
ParseLastColon(url) ==
  LET begin == 3 + CHOOSE p \in Separators(url) : \A q \in Separators(url) : p <= q
      end == Reach(url, begin, {"/"})
      colon == CHOOSE p \in 1..Len(url) :
                 url[p] = ":" /\ \A q \in p + 1..Len(url) : url[q] # ":"
      host == SubSeq(url, begin, (IF colon <= begin THEN end ELSE colon) - 1)
      port == IF colon <= begin THEN <<>> ELSE SubSeq(url, colon + 1, end - 1)
  IN  [host |-> host, port |-> port, path |-> SubSeq(url, end, Len(url))]

\* The last colon before the path is the port's, unless it is the scheme's or
\* stands where the host should begin.
Parse(url) ==
  LET begin == 3 + CHOOSE p \in Separators(url) : \A q \in Separators(url) : p <= q
      end == Reach(url, begin, {"/"})
      colon == CHOOSE p \in 1..end : CharAt(url, p) = ":" /\ \A q \in p + 1..end : CharAt(url, q) # ":"
      no_port == colon <= begin
      host == SubSeq(url, begin, (IF no_port THEN end ELSE colon) - 1)
      port == IF no_port THEN <<>> ELSE SubSeq(url, colon + 1, end - 1)
  IN  IF \/ Separators(url) = {}
         \/ no_port /\ host = <<>>
         \/ ~no_port /\ port = <<>>
        THEN Thrown
        ELSE [host |-> host, port |-> port,
              path |-> IF end > Len(url) THEN <<"/">> ELSE SubSeq(url, end, Len(url))]

(***************************************************************************)
(* Properties                                                              *)
(***************************************************************************)

\* The parts a URL can have (url.h, url.hh).
Parts == [user : Words \cup {NoField}, host : Words, port : Words \cup {NoField},
          path : Paths \cup {<<>>}, query : Tails \cup {NoField}, fragment : Tails \cup {NoField}]

Optional(before, part, after) == IF part = NoField THEN <<>> ELSE before \o part \o after
Authority ==
  Optional(<<>>, parts.user, <<"@">>) \o parts.host \o Optional(<<":">>, parts.port, <<>>)
Absolute ==
  <<"x", ":", "/", "/">> \o Authority \o parts.path \o Optional(<<"?">>, parts.query, <<>>)
Composed == Absolute \o Optional(<<"#">>, parts.fragment, <<>>)
PathOrRoot == IF parts.path = <<>> THEN <<"/">> ELSE parts.path
Expected(field) ==
  CASE field = "scheme" -> <<"x">>
    [] field = "authority" -> Authority
    [] field = "userinfo" -> parts.user
    [] field = "host" -> parts.host
    [] field = "port" -> parts.port
    [] field = "hier_part" -> <<"/", "/">> \o Authority \o parts.path
    [] field = "path" -> PathOrRoot
    [] field = "query" -> parts.query
    [] field = "absolute" -> Absolute
    [] field = "fragment" -> parts.fragment

Has(part, char) == \E i \in DOMAIN part : part[i] = char
Behind(char) == Has(parts.path, char) \/ Has(parts.query, char) \/ Has(parts.fragment, char)

\* url_get_field returns the part it is asked for, whatever delimiters the others
\* hold, unless an @ behind the authority passes for the end of a user, or a slash
\* in the query or fragment for the beginning of the path; and a user that does not
\* begin with a letter is not found.
FieldsAreParts ==
  \A field \in UrlFields :
    \/ GetField(Composed, field) = Expected(field)
    \/ field \in AuthorityFields \ {"authority"} /\ parts.user = NoField /\ Behind("@")
    \/ field = "path" /\ parts.path = <<>> /\ Behind("/")
    \/ field = "userinfo" /\ parts.user # NoField /\ parts.user[1] # "x"

\* Of a URL as url.hh has them, without user, query and fragment, the client makes
\* the same parts as the server, but for a port that is not given.
ParsersAgree ==
  parts.user = NoField /\ parts.query = NoField /\ parts.fragment = NoField =>
    LET parsed == Parse(Composed)
    IN  /\ parsed.host = parts.host
        /\ parsed.port = (IF parts.port = NoField THEN <<>> ELSE parts.port)
        /\ parsed.path = PathOrRoot
        /\ ~Has(parts.path, "@") => \A field \in {"host", "path"} :
                                      GetField(Composed, field) = parsed[field]
==============================================================================
