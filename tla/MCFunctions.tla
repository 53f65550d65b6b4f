------------------------------- MODULE MCFunctions -------------------------------
(* What httpdns begins with or is built on, each by itself, for TLC: its start, its *)
(* search for an address, its loops around read and write, its splitting of strings *)
(* at CRLF, its parsing of URLs.                                                    *)
EXTENDS StringSplit, Url, Startup, Addresses, Retries

VARIABLE study    \* which of them

CrLf == <<"cr", "lf">>

SomeWords == {<<"x">>, <<"1", "x">>}
SomePaths == {<<"/">>} \cup {<<"/", a, b>> : a, b \in {"x", "/", ":", "@"}}
SomeTails == {<<>>, <<"x">>, <<"@", "/">>, <<"/", "?">>, <<"?", ":">>, <<":", "@">>}

\* The initial state of those not under study.
Plain == [user |-> NoField, host |-> <<"x">>, port |-> NoField, path |-> <<>>,
          query |-> NoField, fragment |-> NoField]
NoDaemon == [usage |-> TRUE, daemonize |-> FALSE, verbose |-> FALSE]

MCInit ==
  /\ study \in {"split", "url", "startup", "addresses", "retries"}
  /\ Init /\ (study = "split" \/ source = <<>>)
  /\ parts \in (IF study = "url" THEN Parts ELSE {Plain})
  /\ StartupInit /\ (study = "startup" \/ (options = NoDaemon /\ parent = "shell"))
  /\ AddressesInit /\ (study = "addresses" \/ call = "socket_connect")
  /\ RetriesInit /\ (study = "retries" \/ (loop = "send" /\ total = 0))

MCNext ==
  /\ UNCHANGED <<study, parts>>
  /\ \/ study = "split" /\ Next /\ UNCHANGED <<startupVars, addressVars, retryVars>>
     \/ study = "startup" /\ StartupNext /\ UNCHANGED <<vars, addressVars, retryVars>>
     \/ study = "addresses" /\ AddressesNext /\ UNCHANGED <<vars, startupVars, retryVars>>
     \/ study = "retries" /\ RetriesNext /\ UNCHANGED <<vars, startupVars, addressVars>>

MCSpec == MCInit /\ [][MCNext]_<<study, parts, vars, startupVars, addressVars, retryVars>>
==============================================================================
