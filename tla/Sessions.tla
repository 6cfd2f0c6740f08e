------------------------------ MODULE Sessions ------------------------------
(***************************************************************************)
(* Sessions: UserService's logins, refresh-token rotation and one-time     *)
(* login codes (src/src/auth/service.py, src/src/utils.py) over the tables *)
(* refresh_tokens and login_codes.                                         *)
(*                                                                         *)
(* Requests run concurrently, one per element of Workers, and are cut at   *)
(* every await after which they read or write a table: each repository     *)
(* method commits on its own, and create and update end with a refresh,    *)
(* which raises when the row has been deleted meanwhile.  Signing, hashing *)
(* and verifying are pure and belong to the step before.                   *)
(*                                                                         *)
(* A client presents only tokens and codes it has received.  A token may   *)
(* expire at any time: its JWT is then refused before the table is read,   *)
(* as if the client had not called.                                        *)
(***************************************************************************)
EXTENDS Naturals, FiniteSets

CONSTANTS
  Users,      \* registered users; no code deletes one
  NoUser,
  Jtis,       \* identifiers of refresh tokens (uuid4, never drawn twice)
  NoToken,
  Workers,    \* requests in flight
  MaxCodes,   \* bound on login codes
  MaxCrashes  \* bound on requests killed half-way

ASSUME SessionAssumption ==
  /\ NoUser \notin Users
  /\ NoToken \notin Jtis
  /\ MaxCodes \in Nat
  /\ MaxCrashes \in Nat

VARIABLES
  active,     \* users.is_active
  tokens,     \* table refresh_tokens, with what became of each jti
  handed,     \* refresh tokens a client has received
  codes,      \* table login_codes
  codeUser,   \* whose code it is or was
  lastCode,   \* codes are numbered in the order of their created_at
  expired,    \* codes whose expires_at has passed
  mailed,     \* codes their users have been sent
  uses,       \* how often a code has been accepted, counted up to MaxUses
  handler,    \* the requests in flight
  crashes

vars == <<active, tokens, handed, codes, codeUser, lastCode, expired, mailed, uses,
          handler, crashes>>
tokenVars == <<active, tokens, handed>>
codeVars == <<codes, codeUser, lastCode, expired, mailed, uses>>

Codes == 1 .. MaxCodes

\* A code that was accepted twice is told apart from one accepted once.
MaxUses == 2

\* parent: the token this one was rotated from.  The row itself links the other
\* way (replaced_by_jti), which nothing reads.
TokenRows == [state : {"unused", "live", "revoked", "deleted"},
              user : Users \cup {NoUser}, parent : Jtis \cup {NoToken}]

Unused == [state |-> "unused", user |-> NoUser, parent |-> NoToken]

Steps == {"revoke_all", "store", "confirm_login", "rotate", "confirm_new", "retire",
          "confirm_old", "clear_codes", "stamp_code", "store_code", "mail_code",
          "find_code", "drop_codes", "spend_code"}

\* A request's own state: its user, the token it was given, the one it created,
\* the code it was given or made, and is_active of the user it loaded, where it
\* looks at that.
Idle == [pc |-> "idle", user |-> NoUser, old |-> NoToken, new |-> NoToken,
         code |-> 0, active |-> FALSE]

Handlers == [pc : Steps \cup {"idle"}, user : Users \cup {NoUser},
             old : Jtis \cup {NoToken}, new : Jtis \cup {NoToken},
             code : 0 .. MaxCodes, active : BOOLEAN]

TypeOK ==
  /\ active \in [Users -> BOOLEAN]
  /\ tokens \in [Jtis -> TokenRows]
  /\ handed \subseteq Jtis
  /\ codes \subseteq Codes
  /\ codeUser \in [Codes -> Users \cup {NoUser}]
  /\ lastCode \in 0 .. MaxCodes
  /\ expired \subseteq Codes
  /\ mailed \subseteq Codes
  /\ uses \in [Codes -> 0 .. MaxUses]
  /\ handler \in [Workers -> Handlers]
  /\ crashes \in 0 .. MaxCrashes

Init ==
  /\ active = [u \in Users |-> TRUE]
  /\ tokens = [j \in Jtis |-> Unused]
  /\ handed = {}
  /\ codes = {}
  /\ codeUser = [c \in Codes |-> NoUser]
  /\ lastCode = 0
  /\ expired = {}
  /\ mailed = {}
  /\ uses = [c \in Codes |-> 0]
  /\ handler = [w \in Workers |-> Idle]
  /\ crashes = 0

-----------------------------------------------------------------------------
At(w, pc) == handler[w].pc = pc

Stored(j) == tokens[j].state \in {"live", "revoked"}

Start(w, h) == At(w, "idle") /\ handler' = [handler EXCEPT ![w] = h]

Goto(w, pc) == handler' = [handler EXCEPT ![w] = [@ EXCEPT !.pc = pc]]

\* The request ends, with an answer or with an error.
End(w) == handler' = [handler EXCEPT ![w] = Idle]

-----------------------------------------------------------------------------
(* Logins.                                                                 *)

\* login_user: is_active is that of the row loaded before the password is
\* verified and the tokens are made.
LoginUser(w, u) ==
  /\ active[u]
  /\ Start(w, [Idle EXCEPT !.pc = "revoke_all", !.user = u, !.active = TRUE])
  /\ UNCHANGED <<tokenVars, codeVars, crashes>>

\* login_with_google and login_with_github, for an existing account
LoginSocial(w, u) ==
  /\ Start(w, [Idle EXCEPT !.pc = "revoke_all", !.user = u])
  /\ UNCHANGED <<tokenVars, codeVars, crashes>>

\* store_refresh_token_in_db, first commit: DELETE of the user's tokens
RevokeAll(w) ==
  /\ At(w, "revoke_all")
  /\ tokens' = [j \in Jtis |->
       IF Stored(j) /\ tokens[j].user = handler[w].user
       THEN [tokens[j] EXCEPT !.state = "deleted"] ELSE tokens[j]]
  /\ Goto(w, "store")
  /\ UNCHANGED <<active, handed, codeVars, crashes>>

Insert(w, j, pc) ==
  /\ tokens[j] = Unused
  /\ tokens' = [tokens EXCEPT ![j] =
       [state |-> "live", user |-> handler[w].user, parent |-> handler[w].old]]
  /\ handler' = [handler EXCEPT ![w] = [@ EXCEPT !.pc = pc, !.new = j]]
  /\ UNCHANGED <<active, handed, codeVars, crashes>>

\* store_refresh_token_in_db, second commit: INSERT of the new token
Store(w, j) == At(w, "store") /\ Insert(w, j, "confirm_login")

\* Mutant: the token the request was given is returned
HandOverOld(w, row) ==
  /\ \/ Stored(row) /\ handed' = handed \cup {handler[w].old}
     \/ ~Stored(row) /\ UNCHANGED handed
  /\ End(w)
  /\ UNCHANGED <<active, tokens, codeVars, crashes>>

\* The response with the new token; before it, the refresh at the end of a
\* repository method finds the row or raises.
HandOver(w, row) ==
  /\ \/ Stored(row) /\ handed' = handed \cup {handler[w].new}
     \/ ~Stored(row) /\ UNCHANGED handed
  /\ End(w)
  /\ UNCHANGED <<active, tokens, codeVars, crashes>>

ConfirmLogin(w) == At(w, "confirm_login") /\ HandOver(w, handler[w].new)

-----------------------------------------------------------------------------
(* refresh_token: validate_refresh_token, then revoke_refresh_token.       *)

\* The user of the new token is the payload's, who is the old token's.
RefreshToken(w, j) ==
  /\ j \in handed
  /\ tokens[j].state = "live"
  /\ Start(w, [Idle EXCEPT !.pc = "rotate", !.user = tokens[j].user, !.old = j])
  /\ UNCHANGED <<tokenVars, codeVars, crashes>>

Rotate(w, j) == At(w, "rotate") /\ Insert(w, j, "confirm_new")

\* Mutant: the new token is returned without revoking the old one
ConfirmNewOnly(w) == At(w, "confirm_new") /\ HandOver(w, handler[w].new)

ConfirmNew(w) ==
  /\ At(w, "confirm_new")
  /\ IF Stored(handler[w].new) THEN Goto(w, "retire") ELSE End(w)
  /\ UNCHANGED <<tokenVars, codeVars, crashes>>

\* Mutant: the attributes are set but never committed
RetireUnsaved(w) ==
  /\ At(w, "retire")
  /\ Goto(w, "confirm_old")
  /\ UNCHANGED <<tokenVars, codeVars, crashes>>

\* Mutant: every token of the user is revoked, the new one included
RetireAll(w) ==
  /\ At(w, "retire")
  /\ tokens' = [j \in Jtis |->
       IF Stored(j) /\ tokens[j].user = handler[w].user
       THEN [tokens[j] EXCEPT !.state = "revoked"] ELSE tokens[j]]
  /\ Goto(w, "confirm_old")
  /\ UNCHANGED <<active, handed, codeVars, crashes>>

\* UPDATE by primary key: the ORM raises StaleDataError when no row matches.
\* A row another request has revoked meanwhile is revoked again.
Retire(w) ==
  LET old == handler[w].old IN
  /\ At(w, "retire")
  /\ \/ /\ Stored(old)
        /\ tokens' = [tokens EXCEPT ![old] = [@ EXCEPT !.state = "revoked"]]
        /\ Goto(w, "confirm_old")
     \/ /\ ~Stored(old)
        /\ End(w)
        /\ UNCHANGED tokens
  /\ UNCHANGED <<active, handed, codeVars, crashes>>

ConfirmOld(w) == At(w, "confirm_old") /\ HandOver(w, handler[w].old)

-----------------------------------------------------------------------------
(* login_code: a code is stored and mailed.                                *)

LoginCode(w, u) ==
  /\ Start(w, [Idle EXCEPT !.pc = "clear_codes", !.user = u])
  /\ UNCHANGED <<tokenVars, codeVars, crashes>>

CodesOf(u) == {c \in codes : codeUser[c] = u}

\* LoginCodeRepository.delete
DeleteCodes(w) ==
  /\ codes' = codes \ CodesOf(handler[w].user)
  /\ UNCHANGED <<codeUser, lastCode, expired, mailed>>

ClearCodes(w) ==
  /\ At(w, "clear_codes")
  /\ DeleteCodes(w)
  /\ Goto(w, "stamp_code")
  /\ UNCHANGED <<tokenVars, uses, crashes>>

\* The flush in commit evaluates the default of created_at; the row is visible
\* to others when the commit is done.
StampCode(w) ==
  /\ At(w, "stamp_code")
  /\ lastCode < MaxCodes
  /\ lastCode' = lastCode + 1
  /\ codeUser' = [codeUser EXCEPT ![lastCode + 1] = handler[w].user]
  /\ handler' = [handler EXCEPT ![w] = [@ EXCEPT !.pc = "store_code", !.code = lastCode + 1]]
  /\ UNCHANGED <<tokenVars, codes, expired, mailed, uses, crashes>>

StoreCode(w) ==
  /\ At(w, "store_code")
  /\ codes' = codes \cup {handler[w].code}
  /\ Goto(w, "mail_code")
  /\ UNCHANGED <<tokenVars, codeUser, lastCode, expired, mailed, uses, crashes>>

\* The background task after the response; a mail that fails is lost.
MailCode(w) ==
  /\ At(w, "mail_code")
  /\ mailed' = mailed \cup {handler[w].code}
  /\ End(w)
  /\ UNCHANGED <<tokenVars, codes, codeUser, lastCode, expired, uses, crashes>>

-----------------------------------------------------------------------------
(* login_with_code.                                                        *)

\* c is a code somebody was sent, or 0 for one nobody was.
LoginWithCode(w, u, c) ==
  /\ c \in mailed \cup {0}
  /\ Start(w, [Idle EXCEPT !.pc = "find_code", !.user = u, !.code = c,
                           !.active = active[u]])
  /\ UNCHANGED <<tokenVars, codeVars, crashes>>

Latest(S, c) == c \in S /\ \A d \in S : d <= c

FindCode(w) ==
  LET stored == CodesOf(handler[w].user) IN
  /\ At(w, "find_code")
  /\ \/ stored = {} /\ End(w)
     \/ \E c \in stored :
          /\ Latest(stored, c)
          /\ \/ c \in expired /\ Goto(w, "drop_codes")
             \/ c \notin expired /\ c = handler[w].code /\ Goto(w, "spend_code")
             \/ c \notin expired /\ c # handler[w].code /\ End(w)
  /\ UNCHANGED <<tokenVars, codeVars, crashes>>

DropCodes(w) ==
  /\ At(w, "drop_codes")
  /\ DeleteCodes(w)
  /\ End(w)
  /\ UNCHANGED <<tokenVars, uses, crashes>>

Accepted(c) == uses' = [uses EXCEPT ![c] = IF @ < MaxUses THEN @ + 1 ELSE @]

\* Mutant: the code is left to its expiry
SpendCodeKept(w) ==
  /\ At(w, "spend_code")
  /\ Accepted(handler[w].code)
  /\ IF handler[w].active THEN Goto(w, "revoke_all") ELSE End(w)
  /\ UNCHANGED <<tokenVars, codes, codeUser, lastCode, expired, mailed, crashes>>

\* The code is deleted before is_active, as loaded, is looked at.
SpendCode(w) ==
  /\ At(w, "spend_code")
  /\ DeleteCodes(w)
  /\ Accepted(handler[w].code)
  /\ IF handler[w].active THEN Goto(w, "revoke_all") ELSE End(w)
  /\ UNCHANGED <<tokenVars, crashes>>

-----------------------------------------------------------------------------
\* deactivate_user and the admin's update_user_status
SetActive(u, b) ==
  /\ active[u] # b
  /\ active' = [active EXCEPT ![u] = b]
  /\ UNCHANGED <<tokens, handed, codeVars, handler, crashes>>

\* Fifteen minutes pass.
ExpireCode(c) ==
  /\ c <= lastCode
  /\ expired' = expired \cup {c}
  /\ UNCHANGED <<tokenVars, codes, codeUser, lastCode, mailed, uses, handler, crashes>>

\* The request is killed or its connection lost: what is committed stays.
Crash(w) ==
  /\ ~At(w, "idle")
  /\ crashes < MaxCrashes
  /\ crashes' = crashes + 1
  /\ End(w)
  /\ UNCHANGED <<tokenVars, codeVars>>

Request(w) ==
  \/ \E u \in Users : \/ LoginUser(w, u)
                      \/ LoginSocial(w, u)
                      \/ LoginCode(w, u)
                      \/ \E c \in 0 .. MaxCodes : LoginWithCode(w, u, c)
  \/ \E j \in Jtis : RefreshToken(w, j)

Step(w) ==
  \/ RevokeAll(w) \/ ConfirmLogin(w) \/ ConfirmNew(w) \/ Retire(w) \/ ConfirmOld(w)
  \/ \E j \in Jtis : Store(w, j) \/ Rotate(w, j)
  \/ ClearCodes(w) \/ StampCode(w) \/ StoreCode(w) \/ MailCode(w)
  \/ FindCode(w) \/ DropCodes(w) \/ SpendCode(w)

Next ==
  \/ \E w \in Workers : Request(w) \/ Step(w) \/ Crash(w)
  \/ \E u \in Users, b \in BOOLEAN : SetActive(u, b)
  \/ \E c \in Codes : ExpireCode(c)

Spec == Init /\ [][Next]_vars
=============================================================================
