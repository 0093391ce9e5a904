--------------------------- MODULE AttachmentFetcher ---------------------------
(***************************************************************************)
(* fetch of the attachment fetcher: one call, from the checks of its URL   *)
(* to the body it returns, against a host that may answer anything, in any *)
(* pieces, break off or fall silent. Lengths are counted in words of       *)
(* WordSize values, as the code counts them in 64 bits. A host is a name    *)
(* and its spelling: the configuration may use capitals, and both it and   *)
(* the URL may end it with the dot of a fully qualified name.              *)
(***************************************************************************)
EXTENDS Naturals

CONSTANTS Hosts,     \* names of hosts
          WordSize,  \* values of the word that a length is counted in (2^64)
          Limits,    \* values of max_bytes to consider
          Sizes      \* lengths of the host's body

Word == 0..(WordSize - 1)

FetcherAssumption ==
  /\ WordSize \in Nat \ {0}
  /\ Limits \subseteq Word /\ Sizes \subseteq Word

VARIABLES url,     \* its scheme and its host, in small letters by now
          config,  \* allowed_domains, allow_http and max_bytes
          body,    \* length of what the host has, and whether it declares it
          got,     \* bytes read so far
          at       \* where the call is, or how it ended

vars == <<url, config, body, got, at>>

Ends == {"returned", "SchemeNotAllowed", "DomainNotAllowed", "TooLarge", "Fetch"}

Spelled == [name : Hosts, capitals : BOOLEAN, dot : BOOLEAN]
Urls    == [scheme : {"https", "http", "other"}, host : {h \in Spelled : ~h.capitals}]
Configs == [allowed_domains : {{}} \union {{h} : h \in Spelled}, allow_http : BOOLEAN, max_bytes : Limits]

Normal(h) == [h EXCEPT !.capitals = FALSE, !.dot = FALSE]

\* The constructor normalizes the domains, and fetch the host.
Normalized(domains) == {Normal(h) : h \in domains}

OkDomain == Normal(url.host) \in Normalized(config.allowed_domains)

OkScheme == url.scheme = "https" \/ (url.scheme = "http" /\ config.allow_http)

\* The type invariant; no call gets past a scheme that should have stopped it.
TypeOK ==
  /\ url \in Urls /\ config \in Configs
  /\ body \in [size : Sizes, declared : BOOLEAN]
  /\ got \in 0..body.size
  /\ at \in {"check", "send", "read"} \union Ends
  /\ at \in {"send", "read", "returned"} => OkScheme

Init ==
  /\ url \in Urls /\ config \in Configs
  /\ body \in [size : Sizes, declared : BOOLEAN]
  /\ got = 0
  /\ at = "check"

Goto(place) == at' = place /\ UNCHANGED <<url, config, body, got>>

Check ==
  /\ at = "check"
  /\ Goto(IF ~OkScheme THEN "SchemeNotAllowed"
          ELSE IF ~OkDomain THEN "DomainNotAllowed" ELSE "send")

\* The host answers, a declared length past the limit ends the call; or it answers
\* with an error or a redirect.
Headers ==
  /\ at = "send"
  /\ \/ Goto(IF body.declared /\ body.size > config.max_bytes THEN "TooLarge" ELSE "read")
     \/ Goto("Fetch")

\* Faulty variant of Cap: a body is cut at the limit.
Cap_AtLimit == config.max_bytes

\* max_bytes + 1, in a build without overflow checks.
Cap == (config.max_bytes + 1) % WordSize

LowerOf(m, n) == IF m < n THEN m ELSE n

\* A piece of the body, up to the cap of the reader.
Read(n) ==
  /\ at = "read"
  /\ n \in 1..(LowerOf(body.size, Cap) - got)
  /\ got' = got + n
  /\ UNCHANGED <<url, config, body, at>>

\* The end of the body or the cap.
End ==
  /\ at = "read"
  /\ got = LowerOf(body.size, Cap)
  /\ Goto(IF got = (config.max_bytes + 1) % WordSize THEN "TooLarge" ELSE "returned")

\* The connection breaks, or a body shorter than declared ends.
Break ==
  /\ at \in {"send", "read"}
  /\ Goto("Fetch")

\* The timeout of the client, over the whole exchange.
Timeout ==
  /\ at \in {"send", "read"}
  /\ Goto("Fetch")

Next == Check \/ Headers \/ End \/ Break \/ Timeout \/ \E n \in Word : Read(n)

Spec == Init /\ [][Next]_vars

\* The call is polled and its timer fires; nothing is assumed of the host.
Fairness == WF_vars(Check) /\ WF_vars(Timeout)

FairSpec == Spec /\ Fairness

-----------------------------------------------------------------------------
(* Properties.                                                             *)

\* Hosts are compared by name: however the configuration spells a host, a call for it
\* is not refused for its domain, and a call for any other goes nowhere ("lookups are
\* case-insensitive and FQDN-dot-tolerant").
HostsByName ==
  LET listed == \E h \in config.allowed_domains : h.name = url.host.name
  IN  /\ at = "DomainNotAllowed" => ~listed
      /\ at \in {"send", "read", "returned", "TooLarge", "Fetch"} => listed

\* A body is returned whole, and only if it is within the limit: the byte past the
\* limit tells a body that fills it from one that was cut.
ReturnedIsWhole == at = "returned" => got = body.size /\ body.size <= config.max_bytes

\* No more than the limit and one byte is ever held, however long the body is and
\* whatever length it declares.
MemoryBounded == got <= config.max_bytes + 1

\* TooLarge is said of bodies that exceed the maximum only. (The limit whose successor
\* is no word is left out: there the cap wraps to zero.)
TooLargeIsTrue == at = "TooLarge" => body.size > config.max_bytes

\* What a caller may rely on: who is asked, what is held, returned and reported.
FetchIsSound == TypeOK /\ HostsByName /\ ReturnedIsWhole /\ MemoryBounded /\ TooLargeIsTrue

\* The call returns, whatever the host does.
FetchReturns == <>(at \in Ends)
=============================================================================
