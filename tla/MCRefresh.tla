------------------------------ MODULE MCRefresh ------------------------------
(* Instances of Refresh for TLC. *)
EXTENDS RefreshLatestList

MCOneChain == {Boot}
MCBothChains == {Boot, Approval}

\* The cache, the temporary file, one open file for each chain, and a new one.
MCInodes == 1..5

MCEmptyLists == {2}

=============================================================================
