-------------------------- MODULE SessionInvariant --------------------------
(***************************************************************************)
(* The inductive invariant behind the properties of sessions and codes:    *)
(* what a request between two of its commits may rely on.                  *)
(***************************************************************************)
EXTENDS SessionProperties

Inserted == {"confirm_login", "confirm_new", "retire", "confirm_old"}

\* A token belongs to a user once it is stored, is handed out only then, and is
\* rotated from a token of the same user that was handed out.
TokenOK(j) ==
  /\ tokens[j].state = "unused" => tokens[j] = Unused /\ j \notin handed
  /\ tokens[j].state # "unused" => tokens[j].user \in Users
  /\ tokens[j].parent # NoToken => /\ tokens[j].parent \in handed
                                   /\ tokens[tokens[j].parent].user = tokens[j].user

\* A request's user is the user of its tokens.  The token it was given was
\* handed out; the one it has created is not yet, so no other request can have
\* been given it.
RequestOK(h) ==
  /\ h.pc \in {"revoke_all", "store"} \cup Rotating \cup Inserted => h.user \in Users
  /\ h.pc \in {"revoke_all", "store", "find_code", "spend_code"} => h.old = NoToken
  /\ h.pc \in {"clear_codes", "stamp_code", "find_code", "spend_code"} => h.user \in Users
  /\ h.pc \in Rotating => h.old \in handed /\ tokens[h.old].user = h.user
  /\ h.pc \in Inserted => /\ h.new \in Jtis \ handed
                          /\ tokens[h.new].state # "unused"
                          /\ tokens[h.new].user = h.user
                          /\ tokens[h.new].parent = h.old
  /\ h.pc = "confirm_login" => h.old = NoToken

\* A login deletes the old token and the new one together, or the old one before
\* the new one is there: in that case the old one can no longer be revoked.
RotationOK(h) ==
  /\ h.pc \in {"confirm_new", "retire", "confirm_old"} /\ Stored(h.old)
       => tokens[h.new].state = "live"
  /\ h.pc = "confirm_old" => /\ tokens[h.old].state # "live"
                             /\ ~Stored(h.old) => ~Stored(h.new)

\* A code is in the table only after it was made and never after it was used.
CodeOK(c) ==
  /\ c > lastCode => c \notin codes /\ c \notin mailed /\ uses[c] = 0
  /\ c \in codes => uses[c] = 0

\* While a code is being stored nobody has been sent it.
CodeRequestOK(h) ==
  /\ h.pc = "store_code" => /\ h.code \in Codes \ mailed
                            /\ h.code <= lastCode
                            /\ h.code \notin codes
                            /\ uses[h.code] = 0
  /\ h.pc = "mail_code" => h.code \in Codes /\ h.code <= lastCode
  /\ h.pc = "find_code" => h.code \in mailed \cup {0}
  /\ h.pc = "spend_code" => h.code \in mailed /\ codeUser[h.code] = h.user

\* What two requests create differs.
TokensApart(g, h) == g.pc \in Inserted /\ h.pc \in Inserted => g.new # h.new
CodesApart(g, h) ==
  g.pc = "store_code" /\ h.pc \in {"store_code", "mail_code"} => g.code # h.code

TokenInv ==
  /\ \A j \in Jtis : TokenOK(j)
  /\ \A w \in Workers : /\ RequestOK(handler[w])
                        /\ RotationOK(handler[w])
                        /\ \A v \in Workers \ {w} : TokensApart(handler[v], handler[w])
  /\ LoginEndsSessions
  /\ OldTokenDead

CodeInv ==
  /\ \A c \in Codes : CodeOK(c)
  /\ \A w \in Workers : /\ CodeRequestOK(handler[w])
                        /\ \A v \in Workers \ {w} : CodesApart(handler[v], handler[w])

SInv == TypeOK /\ TokenInv /\ CodeInv /\ SessionKept

-----------------------------------------------------------------------------
(* Besides, for the refinement and for requests that do not overlap.       *)

\* A token is only revoked in exchange for another, after it was handed out.
RevokedHanded == \A j \in Jtis : tokens[j].state = "revoked" => j \in handed

\* If OneVerifies: nobody is about to use a code that was used.
UsedOnce == \A c \in Codes : uses[c] <= 1 /\ (uses[c] > 0 => Verified(c) = {})

\* If OneRotates: nobody is exchanging a token that was exchanged.
Exchanged ==
  /\ ExchangedOnce
  /\ \A j \in handed : tokens[j].parent # NoToken => Rotators(tokens[j].parent) = {}
=============================================================================
