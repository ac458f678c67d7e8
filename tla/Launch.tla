------------------------------- MODULE Launch -------------------------------
(***************************************************************************)
(* From the command line to the event loop: the flags and the environment, *)
(* the lines of ~/.s3cfg in the order of the file (src/config/config.go),  *)
(* the two backends (src/backends/backends.go) and the progress page's     *)
(* server (src/main.go).  A URL is a host, named for where it was given,   *)
(* and a scheme that may be missing.                                       *)
(***************************************************************************)
EXTENDS Naturals, Sequences, SequencesExt, FiniteSetsExt

CONSTANTS MaxLines,    \* lines of ~/.s3cfg that say something of the endpoint
          JobCounts    \* values of --jobs

ASSUME LaunchAssumption == MaxLines \in Nat /\ JobCounts \subseteq Nat

Schemes == {"", "http", "https"}
URLs(hosts) == [host : hosts, scheme : Schemes]
NoURL == [host |-> "", scheme |-> ""]

HostBase(url) == [key |-> "host_base", url |-> url]
UseHTTPS(yes) == [key |-> "use_https", yes |-> yes]
Lines == {HostBase(u) : u \in URLs({"file1", "file2"})} \cup
         {UseHTTPS(b) : b \in BOOLEAN}

VARIABLES step,        \* how far RunE and run have come
          asked,       \* what the flags, the file and the environment said
          lines,       \* the lines of the file that are still to be read
          endpoint,    \* AppConfig.EndpointURL
          useSSL,      \* AppConfig.UseSSL
          client,      \* the endpoint each side's S3 client was built for
          open,        \* what has a Close to be called
          jobs         \* AppConfig.Jobs

settings   == <<asked, lines, endpoint, useSSL>>
launchVars == <<step, settings, client, open, jobs>>

Sides  == {"source", "dest"}
Nobody == [s \in Sides |-> NoURL]
Silent == [endpoint |-> NoURL, useSSL |-> TRUE, lines |-> <<>>, env |-> NoURL]

(* The flag's default is the environment's value, so asked.endpoint is the *)
(* flag where it was given, were it empty, and the environment otherwise.  *)
LaunchInit ==
  /\ asked \in [endpoint : URLs({"flag", "env"}) \cup {NoURL}, useSSL : BOOLEAN,
                lines : SeqOf(Lines, MaxLines), env : URLs({"env"}) \cup {NoURL}]
  /\ asked.endpoint.host = "env" => asked.env = asked.endpoint
  /\ lines = asked.lines /\ endpoint = asked.endpoint /\ useSSL = asked.useSSL
  /\ step = "file" /\ client = Nobody /\ open = {} /\ jobs \in JobCounts

Default(ssl) == IF ssl THEN "https" ELSE "http"

(* The scheme that a URL without one is given. *)
WithScheme(url, ssl) == IF url.scheme # "" THEN url ELSE [url EXCEPT !.scheme = Default(ssl)]

(* A bug: the last host_base wins, over the flag too. *)
OverridingReadHostBase(l) ==
  /\ l.key = "host_base"
  /\ endpoint' = WithScheme(l.url, useSSL)
  /\ UNCHANGED useSSL

(* The first host_base counts, and only where no endpoint is known yet. *)
ReadHostBase(l) ==
  /\ l.key = "host_base"
  /\ endpoint' = IF endpoint # NoURL THEN endpoint ELSE WithScheme(l.url, useSSL)
  /\ UNCHANGED useSSL

(* use_https is for the host_base lines that follow, and makes https of an *)
(* http endpoint that is known already; a "no" takes no https back.        *)
ReadUseHTTPS(l) ==
  /\ l.key = "use_https"
  /\ useSSL' = l.yes
  /\ endpoint' = IF l.yes /\ endpoint.scheme = "http"
                   THEN [endpoint EXCEPT !.scheme = "https"] ELSE endpoint

ParseLine ==
  /\ step = "file" /\ lines # <<>>
  /\ lines' = Tail(lines)
  /\ ReadHostBase(Head(lines)) \/ ReadUseHTTPS(Head(lines))
  /\ UNCHANGED <<step, asked, client, open, jobs>>

FallBackToEnv ==
  /\ step = "file" /\ lines = <<>>
  /\ endpoint' = IF endpoint = NoURL THEN asked.env ELSE endpoint
  /\ step' = "source"
  /\ UNCHANGED <<asked, lines, useSSL, client, open, jobs>>

(* s3backend.New fails for want of no server: it only builds a client. *)
NewS3(side) ==
  /\ client' = [client EXCEPT ![side] = IF endpoint = NoURL THEN NoURL
                                                            ELSE WithScheme(endpoint, useSSL)]
  /\ open' = open \cup {side}

(* localfs.New, and sftpbackend.New when it has authenticated and the      *)
(* server has opened a session.                                            *)
NewFiles(side) == open' = open \cup {side} /\ UNCHANGED client

(* NewSource, then NewDestination. *)
Opened(side) == NewS3(side) \/ NewFiles(side)

OpenSource ==
  /\ step = "source" /\ step' = "dest"
  /\ Opened("source")
  /\ UNCHANGED <<settings, jobs>>

OpenDestination ==
  /\ step = "dest" /\ step' = "web"
  /\ Opened("dest")
  /\ UNCHANGED <<settings, jobs>>

(* A URI that cannot be parsed, no SSH key or host key, a dial or a session*)
(* that fails: run returns, and a source that was opened is not closed.    *)
OpenFails ==
  /\ step \in Sides /\ step' = "failed"
  /\ UNCHANGED <<settings, client, open, jobs>>

(* --demo takes a pair of synthetic backends instead of these. *)
OpenDemo ==
  /\ step = "source" /\ step' = "web"
  /\ open' = open \cup Sides
  /\ UNCHANGED <<settings, client, jobs>>

(* The page's server is not needed: without it, by --web=false or because  *)
(* the port is taken, the run goes on.  The settings of the endpoint play  *)
(* no part from here on, and are forgotten.                                *)
StartUI ==
  /\ step = "web" /\ step' = "ui"
  /\ open' \in {open, open \cup {"page"}}
  /\ asked' = Silent /\ lines' = <<>> /\ endpoint' = NoURL /\ useSSL' = TRUE
  /\ client' = Nobody /\ UNCHANGED jobs

(* The event loop has returned: the deferred calls stop the tunnel and     *)
(* close the server, the destination and the source.                       *)
Leave ==
  /\ step = "ui" /\ step' = "over" /\ open' = {}
  /\ UNCHANGED <<settings, client, jobs>>

LaunchStep ==
  \/ ParseLine \/ FallBackToEnv
  \/ OpenSource \/ OpenDestination \/ OpenFails \/ OpenDemo
  \/ StartUI

(* ------------------------------ properties ----------------------------- *)
(* What the settings mean, said without the loop that reads them: the flag *)
(* or the environment, else the first host_base; a scheme that is missing  *)
(* is that of the last use_https above it, or of --no-ssl; and a later     *)
(* use_https = yes makes https of http.                                    *)
Said(k) == asked.lines[k]
SSLAbove(k) ==
  LET above == {i \in DOMAIN asked.lines : i < k /\ Said(i).key = "use_https"}
  IN  IF above = {} THEN asked.useSSL ELSE Said(Max(above)).yes

HostLines == {k \in DOMAIN asked.lines : Said(k).key = "host_base"}
GivenAt   == IF asked.endpoint # NoURL THEN 0
             ELSE IF HostLines # {} THEN Min(HostLines)
             ELSE Len(asked.lines) + 1
Given     == IF GivenAt = 0 THEN asked.endpoint
             ELSE IF GivenAt \in HostLines
                    THEN WithScheme(Said(GivenAt).url, SSLAbove(GivenAt))
             ELSE asked.env
MadeSecure == \E k \in DOMAIN asked.lines : k > GivenAt /\ Said(k) = UseHTTPS(TRUE)

Resolved ==
  IF Given = NoURL THEN NoURL
  ELSE IF Given.scheme = "http" /\ MadeSecure THEN [Given EXCEPT !.scheme = "https"]
  ELSE WithScheme(Given, SSLAbove(Len(asked.lines) + 1))

(* The order that src/README.md gives (lines 109 to 119): the flag, the    *)
(* file, the environment.  The code takes the environment before the file  *)
(* (src/main.go:146), and its use_https = yes rewrites a flag's http       *)
(* endpoint; on such settings code and document are at odds.               *)
DocumentedHost ==
  IF asked.endpoint.host = "flag" THEN "flag"
  ELSE IF HostLines # {} THEN Said(Min(HostLines)).url.host
  ELSE asked.env.host

Undisputed ==
  /\ Given.host = DocumentedHost
  /\ ~(Given.host = "flag" /\ Given.scheme = "http" /\ MadeSecure)

(* Where code and document agree on which setting counts, both sides talk  *)
(* to the endpoint that the settings mean, whatever the order of the lines:*)
(* no line takes the place of a flag, and none makes http of an endpoint   *)
(* that was asked for with https (ParseS3Cfg).                             *)
EndpointAsResolved ==
  Undisputed => \A s \in Sides : client[s] # NoURL => client[s] = Resolved
=============================================================================
