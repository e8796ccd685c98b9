--------------------------- MODULE TokenFamilies ----------------------------
(***************************************************************************)
(* What the refresh-token sessions promise their clients, with no table,   *)
(* no SQL and no requests: tokens form families.  A login opens a family   *)
(* with a deadline; redeeming a token adds one token to its family and     *)
(* moves neither the owner nor the deadline; a revoked family is never     *)
(* extended again.  With SingleUse a token is redeemed at most once.       *)
(***************************************************************************)
CONSTANTS
  Users,
  Tokens,
  Deadlines, \* the deadlines a login can set
  SingleUse, \* whether a token is redeemed at most once
  None

VARIABLES
  minted, \* a function from the tokens minted so far to their description
  dead    \* revoked families

Init ==
  /\ minted = [t \in {} |-> None]
  /\ dead = {}

Mint(t, info) ==
  /\ t \notin DOMAIN minted
  /\ minted' = [s \in DOMAIN minted \cup {t} |-> IF s = t THEN info ELSE minted[s]]
  /\ UNCHANGED dead

Open(t, u, d) == Mint(t, [user |-> u, family |-> t, deadline |-> d, parent |-> None])

Redeem(p, t) ==
  /\ p \in DOMAIN minted
  /\ minted[p].family \notin dead
  /\ SingleUse => \A s \in DOMAIN minted : minted[s].parent # p
  /\ Mint(t, [minted[p] EXCEPT !.parent = p])

Revoke(fs) ==
  /\ fs \subseteq DOMAIN minted
  /\ dead' = dead \cup fs
  /\ UNCHANGED minted

Next ==
  \/ \E t \in Tokens, u \in Users, d \in Deadlines : Open(t, u, d)
  \/ \E p, t \in Tokens : Redeem(p, t)
  \/ \E fs \in SUBSET Tokens : Revoke(fs)

Spec == Init /\ [][Next]_<<minted, dead>>
=============================================================================
