---------------------------- MODULE ServerAddress ----------------------------
(***************************************************************************)
(* How an address of the server, typed by a person or offered by DHCP, is  *)
(* made usable or refused (config.py), and which lease's offer is taken    *)
(* (discovery.py).  Pure operators.  A text is cut into its parts; letters *)
(* stand for their lower case, blanks and final slashes are trimmed, the   *)
(* path is left out.                                                       *)
(***************************************************************************)
EXTENDS Integers, Sequences

CONSTANTS
  NoUrl,    \* ""
  NoPort    \* an authority without ":"

NotANumber == -1  \* what follows ":" is no run of digits

Text ==
  [scheme : {"", "http", "https", "ftp"},
   host : {"", "name", "v6", "junk"},
   port : {NoPort, NotANumber} \cup Nat]

ASSUME ServerAddressAssumption ==
  /\ NoUrl \notin Text
  /\ NoPort \notin Int

\* _valid_port
ValidPort(p) == p # NotANumber /\ 0 < p /\ p <= 65535

\* Mutation: whatever has a host is taken.
ValidAuthorityAny(t) == t.host # ""

\* _valid_authority: a name or an IPv6 literal, and a port that is one.
ValidAuthority(t) ==
  /\ t.host \in {"name", "v6"}
  /\ t.port = NoPort \/ ValidPort(t.port)

\* normalise_server_url: http:// where no scheme is typed.
NormaliseServerUrl(t) ==
  LET scheme == IF t.scheme = "" THEN "http" ELSE t.scheme
  IN IF scheme \in {"http", "https"} /\ ValidAuthority(t)
       THEN [t EXCEPT !.scheme = scheme]
       ELSE NoUrl

-----------------------------------------------------------------------------
(* A lease is what one file of networkd's directory holds: "unreadable",   *)
(* "silent" (no option 225), or the option's payload: the characters, and  *)
(* the text their hexadecimal digits spell, NoUrl where they spell none.   *)

Payload == [chars : Text, spelt : Text \cup {NoUrl}]

Lease == [kind : {"unreadable", "silent"}] \cup [kind : {"offer"}, payload : Payload]

\* _decode: networkd writes an option it does not know as hex bytes.
Decode(p) == IF p.spelt # NoUrl THEN p.spelt ELSE p.chars

\* parse_option
ParseOption(p) == NormaliseServerUrl(Decode(p))

\* describe, discover_server_url: the first offer in the order of the
\* files decides, usable or not.
DiscoverServerUrl(leases) ==
  LET offers == {n \in DOMAIN leases : leases[n].kind = "offer"}
      first == CHOOSE n \in offers : \A m \in offers : n <= m
  IN IF offers = {} THEN NoUrl ELSE ParseOption(leases[first].payload)

=============================================================================
