--------------------------- MODULE MCDnsResolver ---------------------------
(* Configurations of the resolver for model checking.                      *)
EXTENDS DnsResolver

Conf(retries, max, cache) == [retries |-> retries, max |-> max, cache |-> cache]

\* Room for one query and one cache entry, or for two and two without retries:
\* a reload from the first to the second can fail an assertion.
MCConfs == {Conf(1, 1, 1), Conf(0, 2, 2)}

\* The ircd asks for everything, the operator's command for one name too.
CONSTANTS name, six, bad, ircd, oper
MCAsks == {ircd} \X {name, six, bad} \cup {<<oper, name>>}
=============================================================================
