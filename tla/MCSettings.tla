----------------------------- MODULE MCSettings -----------------------------
(* Instances of Settings for TLC. *)
EXTENDS Settings

CONSTANTS Admin, n1, n2

MCFresh == {n1, n2}

MCNamed == {Admin}

Https == [scheme |-> "https", host |-> "name", port |-> NoPort]
Bare == [scheme |-> "", host |-> "name", port |-> 3000]
Junk == [scheme |-> "http", host |-> "junk", port |-> NoPort]
Ftp == [scheme |-> "ftp", host |-> "name", port |-> NoPort]
BadPort == [scheme |-> "", host |-> "v6", port |-> 65536]

Set(k, v) == [key |-> k, value |-> v]

MCChanges ==
  {NoChange, Set("url", Https), Set("url", Unset), Set("id", Admin),
   Set("live", 0), Set("live", 4)}

\* An administrator may also set an id that identifies nothing.
MCWeakChanges == MCChanges \cup {Set("id", Hostname)}

MCTyped == {Bare, Junk, BadPort}

\* Nothing; an unreadable lease before a usable offer in hex; junk before it.
MCLeases ==
  LET offer == [kind |-> "offer", payload |-> [chars |-> Junk, spelt |-> Bare]]
      junk == [kind |-> "offer", payload |-> [chars |-> Ftp, spelt |-> NoUrl]]
  IN {<<>>, <<[kind |-> "unreadable"], [kind |-> "silent"], offer>>, <<junk, offer>>}

\* Nothing, or DHCP discovery, which only the environment can turn on.
MCEnvirons == {Blank, [Blank EXCEPT !.dhcp = On]}

MCMemories == {950, 3800}

=============================================================================
