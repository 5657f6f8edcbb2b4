----------------------------- MODULE GrantChain -----------------------------
(***************************************************************************)
(* What a sign-in with rotating credentials promises: a consent mints one  *)
(* credential, redeeming a credential replaces it by its only successor,   *)
(* and a credential that is redeemed, burnt or lost never works again.     *)
(***************************************************************************)
CONSTANTS
    Credentials,
    NoCredential    \* not one of them

VARIABLES
    live,           \* credentials that can still be redeemed
    origin          \* per credential ever minted, the consent it descends from

chain == <<live, origin>>

Unminted(c) == origin[c] = NoCredential

ChainInit ==
    /\ live = {}
    /\ origin = [c \in Credentials |-> NoCredential]

Consent(c) ==
    /\ Unminted(c)
    /\ live' = live \cup {c}
    /\ origin' = [origin EXCEPT ![c] = c]

Redeem(old, new) ==
    /\ old \in live /\ Unminted(new)
    /\ live' = (live \ {old}) \cup {new}
    /\ origin' = [origin EXCEPT ![new] = origin[old]]

\* Some credentials stop working: one misused, or all of them at a restart.
Burn(gone) ==
    /\ live' = live \ gone
    /\ UNCHANGED origin

ChainNext ==
    \/ \E c \in Credentials : Consent(c)
    \/ \E old, new \in Credentials : Redeem(old, new)
    \/ \E gone \in SUBSET live : Burn(gone)

ChainSpec == ChainInit /\ [][ChainNext]_chain

\* However often clients retry, a consent never has two working credentials.
OneLivePerConsent ==
    \A a, b \in live : origin[a] = origin[b] => a = b
=============================================================================
