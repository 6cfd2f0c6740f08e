-------------------------- MODULE SessionProperties --------------------------
(***************************************************************************)
(* What sessions and login codes are expected to guarantee.                *)
(***************************************************************************)
EXTENDS Sessions

-----------------------------------------------------------------------------
(* Guarantees.                                                             *)

\* A login deletes the user's refresh tokens while refreshes with them may be
\* under way.  No token a client receives outlives the one it was rotated
\* from, so no session of before the login can be refreshed after it, however
\* the requests interleave.
LoginEndsSessions ==
  \A j \in handed :
    LET parent == tokens[j].parent IN
    parent # NoToken /\ tokens[parent].state = "deleted" => tokens[j].state = "deleted"

\* By the time a client has the new token the old one is dead for good.
OldTokenDead ==
  \A j \in handed :
    LET parent == tokens[j].parent IN
    parent # NoToken => tokens[parent].state \in {"revoked", "deleted"}

\* The new token is stored before the old one is revoked: once logged in, a user
\* always has a live token that some client has, or that a request is about to
\* hand over or to store.  Refreshes and logins, the failing ones included, never
\* log the user out; a killed request may, for it takes the new token with it.
Kept(u, j) ==
  /\ tokens[j].state = "live"
  /\ tokens[j].user = u
  /\ \/ j \in handed
     \/ \E w \in Workers : /\ handler[w].pc \in {"confirm_login", "confirm_old"}
                           /\ handler[w].new = j

HasSession(u) ==
  \/ \E j \in Jtis : Kept(u, j)
  \/ \E w \in Workers : At(w, "store") /\ handler[w].user = u

SessionKept ==
  crashes = 0 => \A u \in Users : (\E j \in Jtis : tokens[j].user = u) => HasSession(u)

\* In the clients' eyes tokens form lines that logins begin and end: however
\* refreshes and logins interleave, a token is only given in place of one that
\* is dead, and that no login has ended.
Lines == INSTANCE SessionLines WITH
  owner  <- [j \in Jtis |-> IF j \in handed THEN tokens[j].user ELSE NoUser],
  from   <- [j \in Jtis |-> IF j \in handed THEN tokens[j].parent ELSE NoToken],
  usable <- {j \in handed : tokens[j].state = "live"},
  ended  <- {j \in handed : tokens[j].state = "deleted"}

ImplementsLines == Lines!LinesSpec

\* Once a code has been accepted no further request gets hold of it: only those
\* that had already verified it may still log in with it.
Verified(c) == {w \in Workers : At(w, "spend_code") /\ handler[w].code = c}

SpentCodeNotTaken ==
  [][\A c \in Codes : uses[c] > 0 => Verified(c)' \subseteq Verified(c)]_vars

-----------------------------------------------------------------------------
(* A claim of the documentation that holds for one request at a time only, *)
(* refuted by a run of its own.                                            *)

\* README.md:38 "Passwordless OTP login codes delivered by email (single-use,
\* 15-minute expiry)"
CodeUsedOnce == \A c \in Codes : uses[c] <= 1

\* docs.md:28: a refresh "validates non-revoked/non-expired, issues new tokens,
\* revokes old": a token is exchanged for one other.
ExchangedOnce ==
  \A i, j \in handed :
    tokens[i].parent # NoToken /\ tokens[i].parent = tokens[j].parent => i = j

\* What keeps them from holding is no more than this: two logins that have both
\* verified one code, two refreshes that have both validated one token.
OneVerifies == \A c \in Codes : \A v, w \in Verified(c) : v = w

Rotating == {"rotate", "confirm_new", "retire", "confirm_old"}

Rotators(j) == {w \in Workers : handler[w].pc \in Rotating /\ handler[w].old = j}

OneRotates == \A j \in Jtis : \A v, w \in Rotators(j) : v = w
=============================================================================
