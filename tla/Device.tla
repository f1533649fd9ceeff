------------------------------- MODULE Device --------------------------------
(***************************************************************************)
(* What enrolment promises of a device's address and token, without saying *)
(* how: as if the settings were one register that nobody copies.  A person *)
(* changes the address, a start fills it in, nobody else touches it; a     *)
(* token is handed out to a device that has none, may be lost on its way,  *)
(* and once it is held, or kept on the disk, it stays.                     *)
(***************************************************************************)
EXTENDS Naturals

CONSTANTS
  Addresses, NoUrl, Offers,
  Server,   \* the address at which the server is
  Presets   \* the settings a device may be delivered with

VARIABLES
  record,   \* the server's record of the device
  issued,   \* the token has been handed out
  handed,   \* the token is on its way from the server to the settings
  saved,    \* the settings a start finds
  config,   \* the settings in use
  up        \* the process runs

registry == <<record, issued>>
vars == <<registry, handed, saved, config, up>>

Blank == [url |-> NoUrl, token |-> FALSE]

Init ==
  /\ record = "none" /\ issued = FALSE
  /\ handed = FALSE
  /\ saved \in Presets
  /\ config = Blank
  /\ up = FALSE

\* Only a device that has no token asks, and only at its own address.
Asks == up /\ ~ handed /\ config.url = Server /\ ~ config.token

Register ==
  /\ Asks
  /\ record = "none" /\ record' = "pending"
  /\ UNCHANGED <<issued, handed, saved, config, up>>

HandOut ==
  /\ Asks
  /\ record = "approved" /\ ~ issued
  /\ issued' = TRUE
  /\ handed' = TRUE
  /\ UNCHANGED <<record, saved, config, up>>

Lose ==
  /\ handed /\ ~ saved.token
  /\ handed' = FALSE
  /\ UNCHANGED <<registry, saved, config, up>>

Keep ==
  /\ handed
  /\ saved' = [saved EXCEPT !.token = TRUE]
  /\ UNCHANGED <<registry, handed, config, up>>

Use ==
  /\ handed
  /\ handed' = FALSE
  /\ config' = [config EXCEPT !.token = TRUE]
  /\ UNCHANGED <<registry, saved, up>>

\* A person types an address.
Type ==
  /\ up /\ ~ handed
  /\ \E u \in Addresses :
       /\ saved' = [saved EXCEPT !.url = u]
       /\ config' = [config EXCEPT !.url = u]
  /\ UNCHANGED <<registry, handed, up>>

\* What is saved is used; the network is asked for what is not.
Start ==
  /\ ~ up
  /\ up' = TRUE
  /\ \E u \in IF saved.url = NoUrl THEN Offers ELSE {saved.url} :
       config' = [saved EXCEPT !.url = u]
  /\ saved' \in {saved, config'}
  /\ UNCHANGED <<registry, handed>>

Halt ==
  /\ up
  /\ up' = FALSE
  /\ handed' = FALSE
  /\ config' = Blank
  /\ UNCHANGED <<registry, saved>>

\* The administrator approves the device, or has its token issued again.
Grant ==
  /\ \/ record = "pending"
     \/ record = "approved" /\ issued
  /\ record' = "approved" /\ issued' = FALSE
  /\ UNCHANGED <<handed, saved, config, up>>

Next ==
  \/ Register \/ HandOut \/ Lose \/ Keep \/ Use
  \/ Type \/ Start \/ Halt \/ Grant

Spec == Init /\ [][Next]_vars

=============================================================================
