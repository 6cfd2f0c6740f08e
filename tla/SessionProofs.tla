---------------------------- MODULE SessionProofs ----------------------------
(***************************************************************************)
(* Proofs about sessions and login codes, for any users, tokens, requests  *)
(* and bounds.                                                             *)
(***************************************************************************)
EXTENDS SessionInvariant, TLAPS

USE SessionAssumption

-----------------------------------------------------------------------------
(* Initial states and types.                                               *)

\* A request that has ended is a request.
LEMMA IdleType == Idle \in Handlers
BY DEF Idle, Handlers

\* Nobody is logged in and no code has been made.
LEMMA InitInv == Init => SInv
<1> SUFFICES ASSUME Init PROVE SInv
  OBVIOUS
<1> USE DEF Init
<1>1. TypeOK
  BY IdleType DEF TypeOK, TokenRows, Unused, MaxUses, Codes
<1>2. TokenInv
  BY DEF TokenInv, TokenOK, Unused, RequestOK, RotationOK, TokensApart, Inserted, Rotating,
         Idle, LoginEndsSessions, OldTokenDead
<1>3. CodeInv
  BY DEF CodeInv, CodeOK, CodeRequestOK, CodesApart, Idle
<1>4. SessionKept
  BY DEF SessionKept, HasSession, Unused
<1> QED
  BY <1>1, <1>2, <1>3, <1>4 DEF SInv

\* The steps by which a request moves on.
LEMMA MoveTypes ==
  ASSUME TypeOK, NEW w \in Workers, NEW pc \in Steps
  PROVE  /\ Goto(w, pc) => handler' \in [Workers -> Handlers]
         /\ End(w) => handler' \in [Workers -> Handlers]
BY IdleType DEF TypeOK, Goto, End, Handlers, Steps

LEMMA TypeRequest ==
  ASSUME TypeOK, NEW w \in Workers, Request(w)
  PROVE  TypeOK'
<1>1. UNCHANGED <<tokenVars, codeVars, crashes>>
  BY DEF Request, LoginUser, LoginSocial, LoginCode, LoginWithCode, RefreshToken
<1>2. \A h \in Handlers : Start(w, h) => handler' \in [Workers -> Handlers]
  BY DEF TypeOK, Start
<1>s. {"revoke_all", "clear_codes", "find_code", "rotate"} \subseteq Steps
  BY DEF Steps
<1>3. \A u \in Users :
        /\ [Idle EXCEPT !.pc = "revoke_all", !.user = u, !.active = TRUE] \in Handlers
        /\ [Idle EXCEPT !.pc = "revoke_all", !.user = u] \in Handlers
        /\ [Idle EXCEPT !.pc = "clear_codes", !.user = u] \in Handlers
  BY <1>s, IdleType DEF Handlers
<1>4. \A u \in Users, c \in 0 .. MaxCodes :
        [Idle EXCEPT !.pc = "find_code", !.user = u, !.code = c, !.active = active[u]]
          \in Handlers
  BY <1>s, IdleType DEF Handlers, TypeOK
<1>5. \A j \in Jtis :
        [Idle EXCEPT !.pc = "rotate", !.user = tokens[j].user, !.old = j] \in Handlers
  BY <1>s, IdleType DEF Handlers, TypeOK, TokenRows
<1>6. handler' \in [Workers -> Handlers]
  BY <1>2, <1>3, <1>4, <1>5
     DEF Request, LoginUser, LoginSocial, LoginCode, LoginWithCode, RefreshToken
<1> QED
  BY <1>1, <1>6 DEF TypeOK, tokenVars, codeVars


LEMMA TypeStep ==
  ASSUME SInv, NEW w \in Workers, Step(w)
  PROVE  TypeOK'
<1> USE DEF tokenVars, codeVars
<1>t. TypeOK /\ handler[w] \in Handlers
  BY DEF SInv, TypeOK
<1>m. \A pc \in Steps : /\ Goto(w, pc) => handler' \in [Workers -> Handlers]
                        /\ End(w) => handler' \in [Workers -> Handlers]
  BY <1>t, MoveTypes
<1>1. CASE RevokeAll(w)
  <2>1. tokens' \in [Jtis -> TokenRows]
    BY <1>1, <1>t DEF RevokeAll, TypeOK, TokenRows
  <2> QED
    BY <1>1, <1>t, <1>m, <2>1 DEF RevokeAll, TypeOK, Steps
<1>2. ASSUME NEW j \in Jtis, Store(w, j) \/ Rotate(w, j)
      PROVE  TypeOK'
  <2>1. tokens' \in [Jtis -> TokenRows]
    BY <1>2, <1>t DEF Store, Rotate, Insert, TypeOK, TokenRows, Handlers
  <2>2. \A pc \in Steps : [handler[w] EXCEPT !.pc = pc, !.new = j] \in Handlers
    BY <1>2, <1>t DEF Handlers
  <2>3. handler' \in [Workers -> Handlers]
    <3>1. "confirm_login" \in Steps /\ "confirm_new" \in Steps
      BY DEF Steps
    <3> QED
      BY <1>2, <1>t, <2>2, <3>1 DEF Store, Rotate, Insert, TypeOK
  <2> QED
    BY <1>2, <1>t, <2>1, <2>3 DEF Store, Rotate, Insert, TypeOK
<1>3. CASE ConfirmLogin(w) \/ ConfirmOld(w)
  <2>1. handler[w].new \in Jtis
    BY <1>3 DEF SInv, TokenInv, RequestOK, ConfirmLogin, ConfirmOld, At, Inserted
  <2>2. "store" \in Steps
    BY DEF Steps
  <2> QED
    BY <1>3, <1>t, <1>m, <2>1, <2>2 DEF ConfirmLogin, ConfirmOld, HandOver, TypeOK
<1>4. CASE ConfirmNew(w)
  BY <1>4, <1>t, <1>m DEF ConfirmNew, TypeOK, Steps
<1>5. CASE Retire(w)
  <2>1. tokens' \in [Jtis -> TokenRows]
    BY <1>5, <1>t DEF Retire, TypeOK, TokenRows
  <2> QED
    BY <1>5, <1>t, <1>m, <2>1 DEF Retire, TypeOK, Steps
<1>6. CASE ClearCodes(w) \/ DropCodes(w) \/ FindCode(w)
  <2>1. "stamp_code" \in Steps /\ "drop_codes" \in Steps /\ "spend_code" \in Steps
    BY DEF Steps
  <2>2. handler' \in [Workers -> Handlers]
    BY <1>6, <1>m, <2>1 DEF ClearCodes, DropCodes, FindCode
  <2> QED
    BY <1>6, <1>t, <2>2 DEF ClearCodes, DropCodes, FindCode, DeleteCodes, TypeOK
<1>7. CASE StampCode(w)
  <2>1. lastCode + 1 \in Codes
    BY <1>7, <1>t DEF StampCode, TypeOK, Codes
  <2>2. [handler[w] EXCEPT !.pc = "store_code", !.code = lastCode + 1] \in Handlers
    <3>1. "store_code" \in Steps /\ lastCode + 1 \in 0 .. MaxCodes
      BY <2>1 DEF Steps, Codes
    <3> QED
      BY <1>t, <3>1 DEF Handlers
  <2>4. handler' \in [Workers -> Handlers]
    BY <1>7, <1>t, <2>2 DEF StampCode, TypeOK
  <2>3. codeUser' \in [Codes -> Users \cup {NoUser}]
    BY <1>7, <1>t, <2>1 DEF StampCode, TypeOK, Handlers
  <2> QED
    BY <1>7, <1>t, <2>1, <2>3, <2>4 DEF StampCode, TypeOK, Codes
<1>8. CASE StoreCode(w) \/ MailCode(w)
  <2>1. handler[w].code \in Codes
    BY <1>8 DEF SInv, CodeInv, CodeRequestOK, StoreCode, MailCode, At
  <2>2. "mail_code" \in Steps
    BY DEF Steps
  <2> QED
    BY <1>8, <1>t, <1>m, <2>1, <2>2 DEF StoreCode, MailCode, TypeOK
<1>9. CASE SpendCode(w)
  <2>1. uses' \in [Codes -> 0 .. MaxUses]
    <3>1. handler[w].code \in Codes
      BY <1>9, <1>t DEF SInv, CodeInv, CodeRequestOK, SpendCode, At, TypeOK
    <3>2. \A n \in 0 .. MaxUses : (IF n < MaxUses THEN n + 1 ELSE n) \in 0 .. MaxUses
      BY DEF MaxUses
    <3> QED
      BY <1>9, <1>t, <3>1, <3>2 DEF SpendCode, Accepted, TypeOK
  <2>2. "revoke_all" \in Steps
    BY DEF Steps
  <2> QED
    BY <1>9, <1>t, <1>m, <2>1, <2>2 DEF SpendCode, DeleteCodes, TypeOK
<1> QED
  BY <1>1, <1>2, <1>3, <1>4, <1>5, <1>6, <1>7, <1>8, <1>9 DEF Step

LEMMA TypeNext == SInv /\ [Next]_vars => TypeOK'
<1> SUFFICES ASSUME SInv, [Next]_vars PROVE TypeOK'
  OBVIOUS
<1> USE DEF tokenVars, codeVars
<1>t. TypeOK
  BY DEF SInv
<1>1. ASSUME NEW w \in Workers, Crash(w) PROVE TypeOK'
  BY <1>1, <1>t, IdleType DEF Crash, End, TypeOK
<1>2. ASSUME NEW u \in Users, NEW b \in BOOLEAN, SetActive(u, b) PROVE TypeOK'
  BY <1>2, <1>t DEF SetActive, TypeOK
<1>3. ASSUME NEW c \in Codes, ExpireCode(c) PROVE TypeOK'
  BY <1>3, <1>t DEF ExpireCode, TypeOK
<1>4. CASE UNCHANGED vars
  BY <1>4, <1>t DEF vars, TypeOK
<1> QED
  BY <1>1, <1>2, <1>3, <1>4, <1>t, TypeRequest, TypeStep DEF Next

-----------------------------------------------------------------------------
(* Tokens.  A step concerns one request; what the others rely on is what   *)
(* it leaves of the table.                                                 *)

\* A request that neither writes the table nor hands a token over.
LEMMA QuietTokens ==
  ASSUME SInv, NEW w \in Workers, NEW h, UNCHANGED <<tokens, handed>>,
         handler' = [handler EXCEPT ![w] = h], RequestOK(h), RotationOK(h),
         h.pc \in Inserted => handler[w].pc \in Inserted /\ h.new = handler[w].new
  PROVE  TokenInv'
<1>t. handler \in [Workers -> Handlers] /\ TokenInv
  BY DEF SInv, TypeOK
<1>1. \A j \in Jtis : TokenOK(j)'
  BY <1>t DEF TokenInv, TokenOK
<1>3. \A v \in Workers : RequestOK(handler'[v]) /\ RotationOK(handler'[v])
  BY <1>t DEF TokenInv
<1>4. \A v \in Workers : (RequestOK(handler[v]) /\ RotationOK(handler[v]))'
  BY <1>3 DEF RequestOK, RotationOK, Stored
<1>5. ASSUME NEW v \in Workers, NEW x \in Workers \ {v}
      PROVE  TokensApart(handler'[x], handler'[v])
  <2>1. TokensApart(handler[x], handler[v])
    BY <1>t DEF TokenInv
  <2>2. \A y \in Workers : handler'[y] = IF y = w THEN h ELSE handler[y]
    BY <1>t
  <2> QED
    BY <2>1, <2>2 DEF TokensApart
<1>6. LoginEndsSessions' /\ OldTokenDead'
  BY <1>t DEF TokenInv, LoginEndsSessions, OldTokenDead
<1> QED
  BY <1>1, <1>4, <1>5, <1>6 DEF TokenInv, TokensApart

\* Requests that begin: a refresh with a live token that was handed out.
LEMMA RequestTokens ==
  ASSUME SInv, NEW w \in Workers, Request(w)
  PROVE  TokenInv'
<1> USE DEF RequestOK, RotationOK, Inserted, Rotating, Idle, Start
<1>1. ASSUME NEW u \in Users, LoginUser(w, u) \/ LoginSocial(w, u) \/ LoginCode(w, u)
      PROVE  TokenInv'
  BY <1>1, QuietTokens DEF LoginUser, LoginSocial, LoginCode, tokenVars
<1>2. ASSUME NEW u \in Users, NEW c \in 0 .. MaxCodes, LoginWithCode(w, u, c)
      PROVE  TokenInv'
  BY <1>2, QuietTokens DEF LoginWithCode, tokenVars
<1>3. ASSUME NEW j \in Jtis, RefreshToken(w, j)
      PROVE  TokenInv'
  <2>1. tokens[j].user \in Users
    BY <1>3 DEF SInv, TokenInv, TokenOK, RefreshToken
  <2> QED
    BY <1>3, <2>1, QuietTokens DEF RefreshToken, tokenVars
<1> QED
  BY <1>1, <1>2, <1>3 DEF Request

\* The new token is no other request's, and nobody has it yet.
LEMMA InsertTokens ==
  ASSUME SInv, NEW w \in Workers, NEW j \in Jtis, Store(w, j) \/ Rotate(w, j)
  PROVE  TokenInv'
<1>t. /\ handler \in [Workers -> Handlers] /\ tokens \in [Jtis -> TokenRows] /\ TokenInv
      /\ handed \subseteq Jtis
  BY DEF SInv, TypeOK
<1>h. PICK h \in Handlers : h = handler[w]
  BY <1>t
<1>g. PICK g : /\ g = [h EXCEPT !.pc = IF h.pc = "store" THEN "confirm_login" ELSE "confirm_new",
                                !.new = j]
               /\ handler' = [handler EXCEPT ![w] = g]
  BY <1>h DEF Store, Rotate, Insert, At
<1>f. /\ g.pc = (IF h.pc = "store" THEN "confirm_login" ELSE "confirm_new")
      /\ g.new = j /\ g.user = h.user /\ g.old = h.old
      /\ handler'[w] = g /\ \A v \in Workers \ {w} : handler'[v] = handler[v]
  BY <1>t, <1>h, <1>g DEF Handlers
<1>i. /\ tokens[j] = Unused /\ j \notin handed /\ handed' = handed
      /\ tokens' = [tokens EXCEPT ![j] = [state |-> "live", user |-> h.user, parent |-> h.old]]
  BY <1>t, <1>h DEF Store, Rotate, Insert, TokenInv, TokenOK, Unused
<1>o. /\ h.pc \in {"store", "rotate"} /\ h.user \in Users
      /\ h.pc = "store" => h.old = NoToken
      /\ h.pc = "rotate" => h.old \in handed /\ tokens[h.old].user = h.user
  BY <1>t, <1>h DEF Store, Rotate, At, TokenInv, RequestOK, Rotating
<1>1. ASSUME NEW k \in Jtis PROVE TokenOK(k)'
  BY <1>t, <1>i, <1>o, <1>h DEF TokenInv, TokenOK, Handlers, Unused
<1>2. RequestOK(g)' /\ RotationOK(g)'
  BY <1>t, <1>f, <1>i, <1>o
     DEF RequestOK, RotationOK, Inserted, Rotating, Stored
<1>3. ASSUME NEW v \in Workers \ {w}
      PROVE  /\ RequestOK(handler[v])' /\ RotationOK(handler[v])'
             /\ handler[v].pc \in Inserted => handler[v].new # j
  <2>1. PICK x : x = handler[v] /\ x = handler'[v]
    BY <1>f
  <2>2. RequestOK(x) /\ RotationOK(x)
    BY <1>t, <2>1 DEF TokenInv
  <2>3. \A k \in Jtis \ {j} : tokens'[k] = tokens[k]
    BY <1>t, <1>i
  <2>4. /\ x.pc \in Rotating => x.old \in Jtis \ {j}
        /\ x.pc \in Inserted => x.new \in Jtis \ {j}
    BY <1>t, <1>i, <2>2 DEF RequestOK, Unused
  <2> QED
    BY <1>i, <2>1, <2>2, <2>3, <2>4 DEF RequestOK, RotationOK, Stored, Rotating, Inserted
<1>4. LoginEndsSessions' /\ OldTokenDead'
  BY <1>t, <1>i DEF TokenInv, TokenOK, LoginEndsSessions, OldTokenDead
<1>5. \A v \in Workers : (RequestOK(handler[v]) /\ RotationOK(handler[v]))'
  BY <1>2, <1>3, <1>f
<1>6. ASSUME NEW v \in Workers, NEW x \in Workers \ {v}
      PROVE  TokensApart(handler'[x], handler'[v])
  <2>1. TokensApart(handler[x], handler[v])
    BY <1>t DEF TokenInv
  <2> QED
    BY <1>3, <1>f, <2>1 DEF TokensApart
<1> QED
  BY <1>1, <1>4, <1>5, <1>6 DEF TokenInv, TokensApart

\* The token handed over is its creator's alone, and the one it was rotated from
\* is revoked by then, and not deleted.
LEMMA HandOverTokens ==
  ASSUME SInv, NEW w \in Workers, ConfirmLogin(w) \/ ConfirmOld(w)
  PROVE  TokenInv'
<1>t. /\ handler \in [Workers -> Handlers] /\ tokens \in [Jtis -> TokenRows] /\ TokenInv
      /\ handed \subseteq Jtis
  BY DEF SInv, TypeOK
<1>h. PICK h \in Handlers : h = handler[w]
  BY <1>t
<1>o. /\ h.pc \in {"confirm_login", "confirm_old"} /\ RequestOK(h) /\ RotationOK(h)
      /\ h.pc = "confirm_login" => ConfirmLogin(w)
      /\ h.pc = "confirm_old" => ConfirmOld(w)
  BY <1>t, <1>h DEF ConfirmLogin, ConfirmOld, At, TokenInv
<1>n. /\ h.new \in Jtis \ handed /\ tokens[h.new].state # "unused"
      /\ tokens[h.new].user = h.user /\ tokens[h.new].parent = h.old
      /\ h.pc = "confirm_login" => h.old = NoToken
      /\ h.pc = "confirm_old" => /\ h.old \in handed /\ tokens[h.old].user = h.user
                                 /\ tokens[h.old].state # "live"
  BY <1>o DEF RequestOK, RotationOK, Inserted, Rotating
<1>f. /\ tokens' = tokens /\ handed' \in {handed, handed \cup {h.new}}
      /\ h.pc = "confirm_old" /\ h.new \in handed' => Stored(h.old)
      /\ handler' = [handler EXCEPT ![w] = Idle]
  BY <1>h, <1>o, <1>n DEF ConfirmLogin, ConfirmOld, HandOver, End, At
<1>1. ASSUME NEW k \in Jtis PROVE TokenOK(k)'
  BY <1>t, <1>f, <1>n DEF TokenInv, TokenOK, Unused
<1>2. ASSUME NEW v \in Workers \ {w}
      PROVE  RequestOK(handler[v])' /\ RotationOK(handler[v])'
  <2>1. PICK x : x = handler[v] /\ x = handler'[v]
    BY <1>t, <1>f
  <2>2. RequestOK(x) /\ RotationOK(x) /\ TokensApart(x, h)
    BY <1>t, <1>h, <2>1 DEF TokenInv
  <2>3. x.pc \in Inserted => x.new # h.new
    BY <1>o, <2>2 DEF TokensApart, Inserted
  <2> QED
    BY <1>f, <2>1, <2>2, <2>3 DEF RequestOK, RotationOK, Stored
<1>3. handler'[w] = Idle /\ RequestOK(Idle)' /\ RotationOK(Idle)'
  BY <1>t, <1>f DEF RequestOK, RotationOK, Idle, Inserted, Rotating
<1>4. \A v \in Workers : (RequestOK(handler[v]) /\ RotationOK(handler[v]))'
  BY <1>2, <1>3
<1>5. ASSUME NEW v \in Workers, NEW x \in Workers \ {v}
      PROVE  TokensApart(handler'[x], handler'[v])
  <2>1. TokensApart(handler[x], handler[v])
    BY <1>t DEF TokenInv
  <2> QED
    BY <1>t, <1>f, <2>1 DEF TokensApart, Idle, Inserted
<1>6. ASSUME NEW k \in handed'
      PROVE  LET parent == tokens[k].parent IN
             /\ parent # NoToken /\ tokens[parent].state = "deleted"
                  => tokens[k].state = "deleted"
             /\ parent # NoToken => tokens[parent].state \in {"revoked", "deleted"}
  <2>1. CASE k \in handed
    BY <1>t, <2>1 DEF TokenInv, LoginEndsSessions, OldTokenDead
  <2>2. CASE k = h.new
    BY <1>f, <1>n, <1>o, <1>6, <2>2 DEF Stored
  <2> QED
    BY <1>f, <1>6, <2>1, <2>2
<1>7. LoginEndsSessions' /\ OldTokenDead'
  BY <1>f, <1>6 DEF LoginEndsSessions, OldTokenDead
<1> QED
  BY <1>1, <1>4, <1>5, <1>7 DEF TokenInv, TokensApart

\* Deleting a user's tokens takes old and new ones together.
LEMMA RevokeAllTokens ==
  ASSUME SInv, NEW w \in Workers, RevokeAll(w)
  PROVE  TokenInv'
<1>t. /\ handler \in [Workers -> Handlers] /\ tokens \in [Jtis -> TokenRows] /\ TokenInv
      /\ handed \subseteq Jtis
  BY DEF SInv, TypeOK
<1>h. PICK h \in Handlers : h = handler[w]
  BY <1>t
<1>o. h.pc = "revoke_all" /\ h.user \in Users /\ h.old = NoToken
  BY <1>t, <1>h DEF RevokeAll, At, TokenInv, RequestOK
<1>g. PICK g : g = [h EXCEPT !.pc = "store"] /\ handler' = [handler EXCEPT ![w] = g]
  BY <1>h DEF RevokeAll, Goto
<1>f. /\ handler'[w] = g /\ \A v \in Workers \ {w} : handler'[v] = handler[v]
      /\ g.pc = "store" /\ g.user = h.user /\ g.old = h.old
  BY <1>t, <1>g DEF Handlers
<1>r. /\ handed' = handed
      /\ \A k \in Jtis : /\ tokens'[k].user = tokens[k].user
                         /\ tokens'[k].parent = tokens[k].parent
                         /\ tokens[k].state = "unused" => tokens'[k] = tokens[k]
                         /\ tokens'[k].state =
                              IF tokens[k].state # "unused" /\ tokens[k].user = h.user
                              THEN "deleted" ELSE tokens[k].state
  BY <1>t, <1>h DEF RevokeAll, Stored, TokenRows
<1>1. ASSUME NEW k \in Jtis PROVE TokenOK(k)'
  BY <1>t, <1>r DEF TokenInv, TokenOK, Unused
<1>2. RequestOK(g)' /\ RotationOK(g)'
  BY <1>f, <1>o DEF RequestOK, RotationOK, Inserted, Rotating
<1>3. ASSUME NEW v \in Workers \ {w}
      PROVE  RequestOK(handler[v])' /\ RotationOK(handler[v])'
  <2>1. PICK x : x = handler[v] /\ x = handler'[v]
    BY <1>f
  <2>2. RequestOK(x) /\ RotationOK(x)
    BY <1>t, <2>1 DEF TokenInv
  <2>3. RequestOK(x)'
    BY <1>t, <1>r, <2>2 DEF RequestOK
  <2>4. RotationOK(x)'
    BY <1>t, <1>r, <2>2 DEF RequestOK, RotationOK, Stored, Inserted, Rotating
  <2> QED
    BY <2>1, <2>3, <2>4
<1>4. \A v \in Workers : (RequestOK(handler[v]) /\ RotationOK(handler[v]))'
  BY <1>2, <1>3, <1>f
<1>5. ASSUME NEW v \in Workers, NEW x \in Workers \ {v}
      PROVE  TokensApart(handler'[x], handler'[v])
  BY <1>t, <1>f DEF TokenInv, TokensApart, Inserted
<1>6. LoginEndsSessions' /\ OldTokenDead'
  BY <1>t, <1>r DEF TokenInv, TokenOK, LoginEndsSessions, OldTokenDead
<1> QED
  BY <1>1, <1>4, <1>5, <1>6 DEF TokenInv, TokensApart

\* Only a token that was handed out is revoked, so never one being created.
LEMMA RetireTokens ==
  ASSUME SInv, NEW w \in Workers, Retire(w), Stored(handler[w].old)
  PROVE  TokenInv'
<1>t. /\ handler \in [Workers -> Handlers] /\ tokens \in [Jtis -> TokenRows] /\ TokenInv
      /\ handed \subseteq Jtis
  BY DEF SInv, TypeOK
<1>h. PICK h \in Handlers : h = handler[w]
  BY <1>t
<1>o. h.pc = "retire" /\ RequestOK(h) /\ RotationOK(h) /\ h.old \in handed /\ Stored(h.old)
  BY <1>t, <1>h DEF Retire, At, TokenInv, RequestOK, Rotating
<1>g. PICK g : g = [h EXCEPT !.pc = "confirm_old"] /\ handler' = [handler EXCEPT ![w] = g]
  BY <1>h DEF Retire, Goto
<1>f. /\ handler'[w] = g /\ \A v \in Workers \ {w} : handler'[v] = handler[v]
      /\ g.pc = "confirm_old" /\ g.user = h.user /\ g.old = h.old /\ g.new = h.new
  BY <1>t, <1>g DEF Handlers
<1>r. /\ handed' = handed
      /\ \A k \in Jtis : /\ tokens'[k].user = tokens[k].user
                         /\ tokens'[k].parent = tokens[k].parent
                         /\ k # h.old => tokens'[k] = tokens[k]
                         /\ tokens'[k].state = IF k = h.old THEN "revoked" ELSE tokens[k].state
  BY <1>t, <1>h, <1>o DEF Retire, TokenRows
<1>1. ASSUME NEW k \in Jtis PROVE TokenOK(k)'
  BY <1>t, <1>r, <1>o DEF TokenInv, TokenOK, Unused
<1>2. RequestOK(g)' /\ RotationOK(g)'
  BY <1>t, <1>f, <1>o, <1>r DEF RequestOK, RotationOK, Inserted, Rotating, Stored
<1>3. ASSUME NEW v \in Workers \ {w}
      PROVE  RequestOK(handler[v])' /\ RotationOK(handler[v])'
  <2>1. PICK x : x = handler[v] /\ x = handler'[v]
    BY <1>f
  <2>2. RequestOK(x) /\ RotationOK(x)
    BY <1>t, <2>1 DEF TokenInv
  <2>3. RequestOK(x)'
    BY <1>t, <1>r, <2>2 DEF RequestOK
  <2>4. RotationOK(x)'
    BY <1>t, <1>o, <1>r, <2>2 DEF RequestOK, RotationOK, Stored, Inserted, Rotating
  <2> QED
    BY <2>1, <2>3, <2>4
<1>4. \A v \in Workers : (RequestOK(handler[v]) /\ RotationOK(handler[v]))'
  BY <1>2, <1>3, <1>f
<1>5. ASSUME NEW v \in Workers, NEW x \in Workers \ {v}
      PROVE  TokensApart(handler'[x], handler'[v])
  BY <1>t, <1>f, <1>h, <1>o DEF TokenInv, TokensApart, Inserted
<1>6. LoginEndsSessions' /\ OldTokenDead'
  BY <1>t, <1>r, <1>o DEF TokenInv, TokenOK, LoginEndsSessions, OldTokenDead, Stored
<1> QED
  BY <1>1, <1>4, <1>5, <1>6 DEF TokenInv, TokensApart

\* The other steps leave the table and the clients' tokens alone.
LEMMA QuietSteps ==
  ASSUME SInv, NEW w \in Workers,
         \/ ConfirmNew(w) \/ (Retire(w) /\ ~Stored(handler[w].old))
         \/ ClearCodes(w) \/ StampCode(w) \/ StoreCode(w) \/ MailCode(w)
         \/ FindCode(w) \/ DropCodes(w) \/ SpendCode(w)
         \/ Crash(w)
  PROVE  TokenInv'
<1>t. /\ handler \in [Workers -> Handlers] /\ TokenInv
  BY DEF SInv, TypeOK
<1>h. PICK h \in Handlers : h = handler[w]
  BY <1>t
<1>o. RequestOK(h) /\ RotationOK(h)
  BY <1>t, <1>h DEF TokenInv
<1>u. UNCHANGED <<tokens, handed>>
  BY DEF ConfirmNew, Retire, ClearCodes, StampCode, StoreCode, MailCode, FindCode, DropCodes,
         SpendCode, Crash, tokenVars
<1> USE DEF RequestOK, RotationOK, Inserted, Rotating
<1>1. CASE End(w)
  BY <1>1, <1>u, QuietTokens DEF End, Idle
<1>2. CASE ConfirmNew(w) /\ ~End(w)
  <2>1. PICK g : g = [h EXCEPT !.pc = "retire"] /\ handler' = [handler EXCEPT ![w] = g]
    BY <1>2, <1>h DEF ConfirmNew, Goto
  <2>2. h.pc = "confirm_new"
    BY <1>2, <1>h DEF ConfirmNew, At
  <2>3. g.pc = "retire" /\ g.user = h.user /\ g.old = h.old /\ g.new = h.new
    BY <2>1 DEF Handlers
  <2> QED
    BY <1>h, <1>o, <1>u, <2>1, <2>2, <2>3, QuietTokens
<1>3. CASE ClearCodes(w) \/ StoreCode(w) \/ (FindCode(w) /\ ~End(w))
  <2>1. PICK pc \in {"stamp_code", "mail_code", "drop_codes", "spend_code"} :
          /\ handler' = [handler EXCEPT ![w] = [h EXCEPT !.pc = pc]]
          /\ pc \in {"stamp_code", "spend_code"} => h.user \in Users
          /\ pc = "spend_code" => h.old = NoToken
    BY <1>3, <1>h, <1>o DEF ClearCodes, StoreCode, FindCode, Goto, At
  <2>2. PICK g : g = [h EXCEPT !.pc = pc] /\ handler' = [handler EXCEPT ![w] = g]
    BY <2>1
  <2>3. g.pc = pc /\ g.user = h.user /\ g.old = h.old
    BY <2>2 DEF Handlers
  <2> QED
    BY <1>u, <2>1, <2>2, <2>3, QuietTokens
<1>4. CASE StampCode(w)
  <2>1. PICK g : /\ g = [h EXCEPT !.pc = "store_code", !.code = lastCode + 1]
                 /\ handler' = [handler EXCEPT ![w] = g]
    BY <1>4, <1>h DEF StampCode
  <2>2. g.pc = "store_code"
    BY <2>1 DEF Handlers
  <2> QED
    BY <1>u, <2>1, <2>2, QuietTokens
<1>5. CASE SpendCode(w) /\ ~End(w)
  <2>1. PICK g : g = [h EXCEPT !.pc = "revoke_all"] /\ handler' = [handler EXCEPT ![w] = g]
    BY <1>5, <1>h DEF SpendCode, Goto
  <2>2. h.user \in Users /\ h.old = NoToken
    BY <1>5, <1>h, <1>o DEF SpendCode, At
  <2>3. g.pc = "revoke_all" /\ g.user = h.user /\ g.old = h.old
    BY <2>1 DEF Handlers
  <2> QED
    BY <1>u, <2>1, <2>2, <2>3, QuietTokens
<1> QED
  BY <1>1, <1>2, <1>3, <1>4, <1>5
     DEF Retire, DropCodes, MailCode, Crash

LEMMA TokenNext == SInv /\ [Next]_vars => TokenInv'
<1> SUFFICES ASSUME SInv, [Next]_vars PROVE TokenInv'
  OBVIOUS
<1>1. CASE UNCHANGED <<tokens, handed, handler>>
  BY <1>1 DEF SInv, TokenInv, TokenOK, RequestOK, RotationOK, TokensApart, Stored,
              LoginEndsSessions, OldTokenDead
<1>2. ASSUME NEW w \in Workers, Step(w) PROVE TokenInv'
  <2>1. CASE \E j \in Jtis : Store(w, j) \/ Rotate(w, j)
    BY <2>1, InsertTokens
  <2>2. CASE ConfirmLogin(w) \/ ConfirmOld(w)
    BY <2>2, HandOverTokens
  <2>3. CASE RevokeAll(w)
    BY <2>3, RevokeAllTokens
  <2>4. CASE Retire(w)
    BY <2>4, RetireTokens, QuietSteps
  <2> QED
    BY <1>2, <2>1, <2>2, <2>3, <2>4, QuietSteps DEF Step
<1>3. ASSUME NEW w \in Workers, Crash(w) PROVE TokenInv'
  BY <1>3, QuietSteps
<1>4. ASSUME NEW w \in Workers, Request(w) PROVE TokenInv'
  BY <1>4, RequestTokens
<1>5. (\E u \in Users, b \in BOOLEAN : SetActive(u, b)) \/ (\E c \in Codes : ExpireCode(c))
        => UNCHANGED <<tokens, handed, handler>>
  BY DEF SetActive, ExpireCode, tokenVars
<1> QED
  BY <1>1, <1>2, <1>3, <1>4, <1>5 DEF Next, vars

-----------------------------------------------------------------------------
(* Codes.                                                                  *)

\* Where a request is after a step that moves it on or ends it.
LEMMA MoveShape ==
  ASSUME TypeOK, NEW w \in Workers, NEW pc \in Steps
  PROVE  /\ Goto(w, pc) => \E g : /\ handler' = [handler EXCEPT ![w] = g]
                                 /\ g.pc = pc
                                 /\ g.user = handler[w].user
                                 /\ g.code = handler[w].code
         /\ End(w) => \E g : handler' = [handler EXCEPT ![w] = g] /\ g.pc = "idle"
<1>1. ASSUME Goto(w, pc)
      PROVE  \E g : /\ handler' = [handler EXCEPT ![w] = g]
                    /\ g.pc = pc
                    /\ g.user = handler[w].user
                    /\ g.code = handler[w].code
  <2>1. handler[w] \in Handlers
    BY DEF TypeOK
  <2>2. PICK g : g = [handler[w] EXCEPT !.pc = pc]
    OBVIOUS
  <2>3. g.pc = pc /\ g.user = handler[w].user /\ g.code = handler[w].code
    BY <2>1, <2>2 DEF Handlers
  <2> QED
    BY <1>1, <2>2, <2>3 DEF Goto
<1>2. Idle.pc = "idle"
  BY DEF Idle
<1> QED
  BY <1>1, <1>2 DEF End

\* A step that makes, stores, mails or spends no code, or only deletes some.
LEMMA QuietCodes ==
  ASSUME SInv, NEW w \in Workers, NEW h,
         UNCHANGED <<codeUser, lastCode, mailed, uses>>, codes' \subseteq codes,
         handler' = [handler EXCEPT ![w] = h], CodeRequestOK(h),
         h.pc # "store_code", h.pc # "mail_code"
  PROVE  CodeInv'
<1>t. handler \in [Workers -> Handlers] /\ CodeInv
  BY DEF SInv, TypeOK
<1>f. \A v \in Workers : handler'[v] = IF v = w THEN h ELSE handler[v]
  BY <1>t
<1>1. \A c \in Codes : CodeOK(c)'
  BY <1>t DEF CodeInv, CodeOK
<1>2. \A v \in Workers : CodeRequestOK(handler'[v])
  BY <1>t, <1>f DEF CodeInv
<1>3. \A v \in Workers : CodeRequestOK(handler[v])'
  BY <1>2 DEF CodeRequestOK, Codes
<1>4. ASSUME NEW v \in Workers, NEW x \in Workers \ {v}
      PROVE  CodesApart(handler'[x], handler'[v])
  <2>1. CodesApart(handler[x], handler[v])
    BY <1>t DEF CodeInv
  <2> QED
    BY <1>f, <2>1 DEF CodesApart
<1> QED
  BY <1>1, <1>3, <1>4 DEF CodeInv, CodesApart

\* Requests that begin have made no code; the one they present was mailed.
LEMMA RequestCodes ==
  ASSUME SInv, NEW w \in Workers, Request(w)
  PROVE  CodeInv'
<1>u. UNCHANGED <<codeUser, lastCode, mailed, uses>> /\ codes' \subseteq codes
  BY DEF Request, LoginUser, LoginSocial, LoginCode, LoginWithCode, RefreshToken, codeVars
<1>s. \A h : Start(w, h) => handler' = [handler EXCEPT ![w] = h]
  BY DEF Start
<1>q. ASSUME NEW h, Start(w, h),
             h.pc \in {"revoke_all", "clear_codes", "find_code", "rotate"},
             h.pc = "find_code" => h.code \in mailed \cup {0}
      PROVE  CodeInv'
  BY <1>u, <1>s, <1>q, QuietCodes DEF CodeRequestOK
<1>1. ASSUME NEW u \in Users, LoginUser(w, u) \/ LoginSocial(w, u) \/ LoginCode(w, u)
      PROVE  CodeInv'
  BY <1>1, <1>q DEF LoginUser, LoginSocial, LoginCode, Idle
<1>2. ASSUME NEW u \in Users, NEW c \in 0 .. MaxCodes, LoginWithCode(w, u, c)
      PROVE  CodeInv'
  BY <1>2, <1>q DEF LoginWithCode, Idle
<1>3. ASSUME NEW j \in Jtis, RefreshToken(w, j)
      PROVE  CodeInv'
  BY <1>3, <1>q DEF RefreshToken, Idle
<1> QED
  BY <1>1, <1>2, <1>3 DEF Request

\* A new code is later than all others, so no request and no client has it.
LEMMA StampCodes ==
  ASSUME SInv, NEW w \in Workers, StampCode(w)
  PROVE  CodeInv'
<1>t. /\ handler \in [Workers -> Handlers] /\ CodeInv /\ lastCode \in 0 .. MaxCodes
      /\ mailed \subseteq Codes /\ codeUser \in [Codes -> Users \cup {NoUser}]
  BY DEF SInv, TypeOK
<1>h. PICK h \in Handlers : h = handler[w]
  BY <1>t
<1>g. PICK g : /\ g = [h EXCEPT !.pc = "store_code", !.code = lastCode + 1]
               /\ handler' = [handler EXCEPT ![w] = g]
  BY <1>h DEF StampCode
<1>f. /\ g.pc = "store_code" /\ g.code = lastCode + 1
      /\ handler'[w] = g /\ \A v \in Workers \ {w} : handler'[v] = handler[v]
  BY <1>t, <1>g DEF Handlers
<1>r. /\ lastCode' = lastCode + 1 /\ lastCode + 1 \in Codes
      /\ UNCHANGED <<codes, mailed, uses>>
      /\ \A c \in Codes : c <= lastCode => codeUser'[c] = codeUser[c]
  BY <1>t DEF StampCode, Codes
<1>k. \A c \in Codes : CodeOK(c)
  BY <1>t DEF CodeInv
<1>1. \A c \in Codes : CodeOK(c)'
  BY <1>t, <1>k, <1>r DEF CodeOK, Codes
<1>2. CodeRequestOK(g)'
  BY <1>t, <1>k, <1>f, <1>r DEF CodeRequestOK, CodeOK, Codes
<1>3. ASSUME NEW v \in Workers \ {w}
      PROVE  /\ CodeRequestOK(handler[v])'
             /\ handler[v].pc \in {"store_code", "mail_code"} => handler[v].code <= lastCode
  <2>1. PICK x : x = handler[v] /\ x = handler'[v]
    BY <1>f
  <2>2. CodeRequestOK(x)
    BY <1>t, <2>1 DEF CodeInv
  <2>3. x.code \in mailed => x.code \in Codes /\ x.code <= lastCode
    <3>1. x.code \in mailed => x.code \in Codes /\ CodeOK(x.code)
      BY <1>t, <1>k
    <3> QED
      BY <1>t, <3>1 DEF CodeOK, Codes
  <2>4. x.code \in Codes /\ x.code <= lastCode => x.code <= lastCode'
    BY <1>t, <1>r DEF Codes
  <2> QED
    BY <1>r, <2>1, <2>2, <2>3, <2>4 DEF CodeRequestOK, Codes
<1>4. \A v \in Workers : CodeRequestOK(handler[v])'
  BY <1>2, <1>3, <1>f
<1>5. ASSUME NEW v \in Workers, NEW x \in Workers \ {v}
      PROVE  CodesApart(handler'[x], handler'[v])
  <2>1. CodesApart(handler[x], handler[v])
    BY <1>t DEF CodeInv
  <2>2. \A y \in Workers \ {w} :
          handler[y].pc \in {"store_code", "mail_code"} => handler[y].code # lastCode + 1
    BY <1>t, <1>3
  <2> QED
    BY <1>f, <2>1, <2>2 DEF CodesApart
<1> QED
  BY <1>1, <1>4, <1>5 DEF CodeInv, CodesApart

\* Storing a code nobody has used, mailing one that is stored.
LEMMA StoreCodes ==
  ASSUME SInv, NEW w \in Workers, StoreCode(w) \/ MailCode(w)
  PROVE  CodeInv'
<1>t. handler \in [Workers -> Handlers] /\ CodeInv
  BY DEF SInv, TypeOK
<1>h. PICK h \in Handlers : h = handler[w]
  BY <1>t
<1>o. /\ CodeRequestOK(h)
      /\ \/ StoreCode(w) /\ h.pc = "store_code"
         \/ MailCode(w) /\ h.pc = "mail_code"
  BY <1>t, <1>h DEF StoreCode, MailCode, At, CodeInv
<1>g. PICK g : /\ h.pc = "store_code" => g = [h EXCEPT !.pc = "mail_code"]
               /\ h.pc = "mail_code" => g = Idle
               /\ handler' = [handler EXCEPT ![w] = g]
  BY <1>h, <1>o DEF StoreCode, MailCode, Goto, End, At
<1>f. /\ g.pc = IF h.pc = "store_code" THEN "mail_code" ELSE "idle"
      /\ h.pc = "store_code" => g.code = h.code
      /\ handler'[w] = g /\ \A v \in Workers \ {w} : handler'[v] = handler[v]
  BY <1>t, <1>o, <1>g DEF Handlers, Idle
<1>r. /\ UNCHANGED <<codeUser, lastCode, uses>> /\ h.code \in Codes /\ h.code <= lastCode
      /\ h.pc = "store_code" => /\ codes' = codes \cup {h.code} /\ mailed' = mailed
                                /\ uses[h.code] = 0
      /\ h.pc = "mail_code" => codes' = codes /\ mailed' = mailed \cup {h.code}
  BY <1>h, <1>o DEF StoreCode, MailCode, CodeRequestOK, Codes, At
<1>1. \A c \in Codes : CodeOK(c)'
  BY <1>t, <1>o, <1>r DEF CodeInv, CodeOK, SInv, TypeOK, Codes
<1>2. CodeRequestOK(g)'
  BY <1>f, <1>r, <1>o DEF CodeRequestOK, Codes
<1>3. ASSUME NEW v \in Workers \ {w}
      PROVE  CodeRequestOK(handler[v])'
  <2>1. PICK x : x = handler[v] /\ x = handler'[v]
    BY <1>f
  <2>2. CodeRequestOK(x) /\ CodesApart(x, h)
    BY <1>t, <1>h, <2>1 DEF CodeInv
  <2>3. x.pc = "store_code" => x.code # h.code
    BY <1>o, <2>2 DEF CodesApart
  <2> QED
    BY <1>o, <1>r, <2>1, <2>2, <2>3 DEF CodeRequestOK, Codes
<1>4. \A v \in Workers : CodeRequestOK(handler[v])'
  BY <1>2, <1>3, <1>f
<1>5. ASSUME NEW v \in Workers, NEW x \in Workers \ {v}
      PROVE  CodesApart(handler'[x], handler'[v])
  <2>1. CodesApart(handler[x], handler[v])
    BY <1>t DEF CodeInv
  <2> QED
    BY <1>f, <1>h, <1>o, <2>1 DEF CodesApart
<1> QED
  BY <1>1, <1>4, <1>5 DEF CodeInv, CodesApart

\* A code that is accepted leaves the table, and no request is about to put it
\* back: it was mailed, hence stored, before.
LEMMA SpendCodes ==
  ASSUME SInv, NEW w \in Workers, SpendCode(w)
  PROVE  CodeInv'
<1>t. /\ handler \in [Workers -> Handlers] /\ CodeInv /\ lastCode \in 0 .. MaxCodes
      /\ mailed \subseteq Codes /\ codes \subseteq Codes /\ uses \in [Codes -> 0 .. MaxUses]
  BY DEF SInv, TypeOK
<1>h. PICK h \in Handlers : h = handler[w]
  BY <1>t
<1>o. h.code \in mailed /\ codeUser[h.code] = h.user /\ h.code <= lastCode
  <2>1. h.code \in mailed /\ codeUser[h.code] = h.user
    BY <1>t, <1>h DEF SpendCode, At, CodeInv, CodeRequestOK
  <2>2. CodeOK(h.code) /\ h.code \in Codes
    BY <1>t, <2>1 DEF CodeInv
  <2> QED
    BY <1>t, <2>1, <2>2 DEF CodeOK, Codes
<1>g. PICK g : /\ g.pc \in {"revoke_all", "idle"} /\ handler' = [handler EXCEPT ![w] = g]
  <2>1. TypeOK /\ "revoke_all" \in Steps
    BY DEF SInv, Steps
  <2>2. CASE End(w)
    BY <2>1, <2>2, MoveShape
  <2>3. CASE Goto(w, "revoke_all")
    BY <2>1, <2>3, MoveShape
  <2> QED
    BY <2>2, <2>3 DEF SpendCode
<1>f. handler'[w] = g /\ \A v \in Workers \ {w} : handler'[v] = handler[v]
  BY <1>t, <1>g
<1>r. /\ UNCHANGED <<codeUser, lastCode, mailed>>
      /\ codes' \subseteq codes /\ h.code \notin codes'
      /\ \A c \in Codes \ {h.code} : uses'[c] = uses[c]
  BY <1>t, <1>h, <1>o DEF SpendCode, DeleteCodes, CodesOf, Accepted
<1>1. \A c \in Codes : CodeOK(c)'
  BY <1>t, <1>o, <1>r DEF CodeInv, CodeOK, Codes
<1>2. CodeRequestOK(g)'
  BY <1>g DEF CodeRequestOK
<1>3. ASSUME NEW v \in Workers \ {w}
      PROVE  CodeRequestOK(handler[v])'
  <2>1. PICK x : x = handler[v] /\ x = handler'[v]
    BY <1>f
  <2>2. CodeRequestOK(x)
    BY <1>t, <2>1 DEF CodeInv
  <2>3. x.pc = "store_code" => x.code \in Codes \ {h.code}
    BY <1>o, <2>2 DEF CodeRequestOK
  <2> QED
    BY <1>o, <1>r, <2>1, <2>2, <2>3 DEF CodeRequestOK, Codes
<1>4. \A v \in Workers : CodeRequestOK(handler[v])'
  BY <1>2, <1>3, <1>f
<1>5. ASSUME NEW v \in Workers, NEW x \in Workers \ {v}
      PROVE  CodesApart(handler'[x], handler'[v])
  <2>1. CodesApart(handler[x], handler[v])
    BY <1>t DEF CodeInv
  <2> QED
    BY <1>f, <1>g, <2>1 DEF CodesApart
<1> QED
  BY <1>1, <1>4, <1>5 DEF CodeInv, CodesApart

\* The other steps.
LEMMA QuietCodeSteps ==
  ASSUME SInv, NEW w \in Workers,
         \/ RevokeAll(w) \/ ConfirmLogin(w) \/ ConfirmNew(w) \/ Retire(w) \/ ConfirmOld(w)
         \/ \E j \in Jtis : Store(w, j) \/ Rotate(w, j)
         \/ ClearCodes(w) \/ FindCode(w) \/ DropCodes(w) \/ Crash(w)
  PROVE  CodeInv'
<1>t. /\ handler \in [Workers -> Handlers] /\ CodeInv /\ codes \subseteq Codes
  BY DEF SInv, TypeOK
<1>h. PICK h \in Handlers : h = handler[w]
  BY <1>t
<1>o. CodeRequestOK(h)
  BY <1>t, <1>h DEF CodeInv
<1>u. UNCHANGED <<codeUser, lastCode, mailed, uses>> /\ codes' \subseteq codes
  BY DEF RevokeAll, ConfirmLogin, ConfirmNew, Retire, ConfirmOld, HandOver, Store, Rotate,
         Insert, ClearCodes, FindCode, DropCodes, DeleteCodes, Crash, codeVars
<1>m. \A pc \in Steps :
        /\ Goto(w, pc) => \E g : /\ handler' = [handler EXCEPT ![w] = g]
                                /\ g.pc = pc /\ g.user = h.user /\ g.code = h.code
        /\ End(w) => \E g : handler' = [handler EXCEPT ![w] = g] /\ g.pc = "idle"
  BY <1>h, MoveShape DEF SInv
<1>s. {"store", "retire", "confirm_old", "stamp_code", "drop_codes", "spend_code"} \subseteq Steps
  BY DEF Steps
<1>1. CASE End(w)
  <2>1. PICK g : handler' = [handler EXCEPT ![w] = g] /\ g.pc = "idle"
    BY <1>1, <1>m, <1>s
  <2> QED
    BY <1>u, <2>1, QuietCodes DEF CodeRequestOK
<1>2. ASSUME NEW pc \in {"store", "retire", "confirm_old", "stamp_code", "drop_codes"},
             Goto(w, pc)
      PROVE  CodeInv'
  <2>1. PICK g : handler' = [handler EXCEPT ![w] = g] /\ g.pc = pc
    BY <1>2, <1>m, <1>s
  <2> QED
    BY <1>u, <2>1, QuietCodes DEF CodeRequestOK
<1>3. ASSUME NEW j \in Jtis, Store(w, j) \/ Rotate(w, j)
      PROVE  CodeInv'
  <2>1. PICK pc \in {"confirm_login", "confirm_new"} : Insert(w, j, pc)
    BY <1>3 DEF Store, Rotate
  <2>2. PICK g : g = [h EXCEPT !.pc = pc, !.new = j]
    OBVIOUS
  <2>3. g.pc = pc /\ handler' = [handler EXCEPT ![w] = g]
    BY <1>h, <2>1, <2>2 DEF Insert, Handlers
  <2> QED
    BY <1>u, <2>1, <2>3, QuietCodes DEF CodeRequestOK
<1>4. CASE /\ h.pc = "find_code" /\ h.code \in CodesOf(h.user) /\ Goto(w, "spend_code")
           /\ UNCHANGED codeVars
  <2>1. PICK g : /\ handler' = [handler EXCEPT ![w] = g]
                 /\ g.pc = "spend_code" /\ g.user = h.user /\ g.code = h.code
    BY <1>4, <1>m, <1>s
  <2>2. CodeRequestOK(g)
    BY <1>t, <1>o, <1>4, <2>1 DEF CodeRequestOK, CodesOf, Codes
  <2> QED
    BY <1>u, <2>1, <2>2, QuietCodes
<1>5. CASE FindCode(w)
  <2>1. ASSUME NEW c \in CodesOf(h.user), c = h.code, Goto(w, "spend_code")
        PROVE  CodeInv'
    BY <1>4, <1>5, <1>h, <2>1 DEF FindCode, At
  <2> QED
    BY <1>1, <1>2, <1>5, <1>h, <2>1 DEF FindCode
<1> QED
  BY <1>1, <1>2, <1>3, <1>5
     DEF RevokeAll, ConfirmLogin, ConfirmNew, Retire, ConfirmOld, HandOver, ClearCodes,
         DropCodes, Crash

LEMMA CodeNext == SInv /\ [Next]_vars => CodeInv'
<1> SUFFICES ASSUME SInv, [Next]_vars PROVE CodeInv'
  OBVIOUS
<1>1. CASE UNCHANGED <<codes, codeUser, lastCode, mailed, uses, handler>>
  BY <1>1 DEF SInv, CodeInv, CodeOK, CodeRequestOK, CodesApart
<1>2. ASSUME NEW w \in Workers, Step(w) PROVE CodeInv'
  <2>1. CASE StampCode(w)
    BY <2>1, StampCodes
  <2>2. CASE StoreCode(w) \/ MailCode(w)
    BY <2>2, StoreCodes
  <2>3. CASE SpendCode(w)
    BY <2>3, SpendCodes
  <2> QED
    BY <1>2, <2>1, <2>2, <2>3, QuietCodeSteps DEF Step
<1>3. ASSUME NEW w \in Workers, Crash(w) PROVE CodeInv'
  BY <1>3, QuietCodeSteps
<1>4. ASSUME NEW w \in Workers, Request(w) PROVE CodeInv'
  BY <1>4, RequestCodes
<1>5. (\E u \in Users, b \in BOOLEAN : SetActive(u, b)) \/ (\E c \in Codes : ExpireCode(c))
        => UNCHANGED <<codes, codeUser, lastCode, mailed, uses, handler>>
  BY DEF SetActive, ExpireCode, codeVars
<1> QED
  BY <1>1, <1>2, <1>3, <1>4, <1>5 DEF Next, vars

-----------------------------------------------------------------------------
(* No user is logged out by requests alone.                                *)

\* A step that leaves a user's live tokens alone, of a request that neither
\* holds the user's new token nor is about to store it.
LEMMA KeptAlong ==
  ASSUME TypeOK, NEW w \in Workers, NEW u \in Users, HasSession(u),
         \A v \in Workers \ {w} : handler'[v] = handler[v],
         \A j \in Jtis : tokens[j].state = "live" /\ tokens[j].user = u
                        => tokens'[j] = tokens[j],
         handed \subseteq handed',
         handler[w].pc \in {"confirm_login", "confirm_old"} =>
           \/ tokens[handler[w].new].state # "live"
           \/ tokens[handler[w].new].user # u
           \/ handler[w].new \in handed',
         At(w, "store") => handler[w].user # u
  PROVE  HasSession(u)'
<1>1. ASSUME NEW j \in Jtis, Kept(u, j) PROVE HasSession(u)'
  <2>1. tokens'[j].state = "live" /\ tokens'[j].user = u
    BY <1>1 DEF Kept
  <2>2. CASE j \in handed'
    BY <2>1, <2>2 DEF HasSession, Kept
  <2>3. CASE j \notin handed'
    <3>1. PICK v \in Workers : /\ handler[v].pc \in {"confirm_login", "confirm_old"}
                               /\ handler[v].new = j
      BY <1>1, <2>3 DEF Kept
    <3>2. v # w
      BY <1>1, <2>3, <3>1 DEF Kept
    <3> QED
      BY <2>1, <3>1, <3>2 DEF HasSession, Kept
  <2> QED
    BY <2>2, <2>3
<1>2. ASSUME NEW v \in Workers, At(v, "store"), handler[v].user = u PROVE HasSession(u)'
  BY <1>2 DEF HasSession, At
<1> QED
  BY <1>1, <1>2 DEF HasSession

LEMMA KeptStep ==
  ASSUME SInv, NEW w \in Workers, Request(w) \/ Step(w), NEW u \in Users,
         (\E j \in Jtis : tokens[j].user = u) => HasSession(u),
         \E j \in Jtis : tokens'[j].user = u
  PROVE  HasSession(u)'
<1>t. /\ handler \in [Workers -> Handlers] /\ tokens \in [Jtis -> TokenRows] /\ TypeOK
      /\ handed \subseteq Jtis
  BY DEF SInv, TypeOK
<1>h. PICK h \in Handlers : h = handler[w]
  BY <1>t
<1>o. RequestOK(h) /\ RotationOK(h)
  BY <1>t, <1>h DEF SInv, TokenInv
<1>v. \A v \in Workers \ {w} : handler'[v] = handler[v]
  BY <1>t DEF Request, LoginUser, LoginSocial, LoginCode, LoginWithCode, RefreshToken, Start,
              Step, RevokeAll, ConfirmLogin, ConfirmNew, Retire, ConfirmOld, HandOver, Store,
              Rotate, Insert, ClearCodes, StampCode, StoreCode, MailCode, FindCode, DropCodes,
              SpendCode, Goto, End
<1>1. CASE RevokeAll(w)
  <2>1. CASE h.user = u
    <3>1. handler' = [handler EXCEPT ![w] = [h EXCEPT !.pc = "store"]]
      BY <1>1, <1>h DEF RevokeAll, Goto
    <3>2. At(w, "store")' /\ handler'[w].user = u
      BY <1>t, <2>1, <3>1 DEF At, Handlers
    <3> QED
      BY <3>2 DEF HasSession
  <2>2. CASE h.user # u
    <3>1. \A j \in Jtis : /\ tokens'[j].user = tokens[j].user
                          /\ tokens[j].user = u => tokens'[j] = tokens[j]
      BY <1>1, <1>t, <1>h, <2>2 DEF RevokeAll, TokenRows
    <3>2. HasSession(u)
      BY <3>1
    <3> QED
      BY <1>1, <1>t, <1>v, <3>1, <3>2, KeptAlong DEF RevokeAll, At
  <2> QED
    BY <2>1, <2>2
<1>2. ASSUME NEW j \in Jtis, Insert(w, j, IF h.pc = "store" THEN "confirm_login" ELSE "confirm_new"),
             h.pc \in {"store", "rotate"}
      PROVE  HasSession(u)'
  <2>1. /\ tokens[j] = Unused /\ handed' = handed
        /\ tokens'[j].state = "live" /\ tokens'[j].user = h.user
        /\ \A k \in Jtis \ {j} : tokens'[k] = tokens[k]
    BY <1>2, <1>t, <1>h DEF Insert
  <2>2. CASE h.pc = "store" /\ h.user = u
    <3>1. handler' = [handler EXCEPT ![w] = [h EXCEPT !.pc = "confirm_login", !.new = j]]
      BY <1>2, <1>h, <2>2 DEF Insert
    <3>2. handler'[w].pc = "confirm_login" /\ handler'[w].new = j
      BY <1>t, <3>1 DEF Handlers
    <3> QED
      BY <2>1, <2>2, <3>2 DEF HasSession, Kept
  <2>3. CASE ~(h.pc = "store" /\ h.user = u)
    <3>1. h.user = u => h.old \in Jtis /\ tokens[h.old].user = u
      BY <1>2, <1>t, <1>o, <2>3 DEF RequestOK, Rotating
    <3>2. HasSession(u)
      BY <2>1, <3>1
    <3>3. \A k \in Jtis : tokens[k].state = "live" => tokens'[k] = tokens[k]
      BY <2>1 DEF Unused
    <3> QED
      BY <1>2, <1>t, <1>h, <1>v, <2>1, <2>3, <3>2, <3>3, KeptAlong DEF At
  <2> QED
    BY <2>2, <2>3
<1>3. CASE ConfirmLogin(w) \/ ConfirmOld(w)
  <2>1. /\ h.pc \in {"confirm_login", "confirm_old"} /\ tokens' = tokens
        /\ handed' \in {handed, handed \cup {h.new}}
        /\ h.new \notin handed' => ~Stored(h.new)
    BY <1>3, <1>h, <1>o DEF ConfirmLogin, ConfirmOld, HandOver, At, RotationOK
  <2>2. tokens[h.new].state = "live" => h.new \in handed'
    BY <2>1 DEF Stored
  <2>3. HasSession(u)
    BY <2>1
  <2> QED
    BY <1>t, <1>h, <1>v, <2>1, <2>2, <2>3, KeptAlong DEF At
<1>4. CASE Retire(w) /\ Stored(h.old)
  <2>1. /\ h.pc = "retire" /\ h.old \in handed /\ tokens[h.old].user = h.user
        /\ h.new \in Jtis \ handed /\ tokens[h.new].user = h.user
        /\ tokens[h.new].state = "live"
    BY <1>4, <1>h, <1>o DEF Retire, At, RequestOK, RotationOK, Rotating, Inserted
  <2>2. /\ handed' = handed /\ tokens'[h.old].user = tokens[h.old].user
        /\ \A k \in Jtis \ {h.old} : tokens'[k] = tokens[k]
        /\ handler' = [handler EXCEPT ![w] = [h EXCEPT !.pc = "confirm_old"]]
    BY <1>4, <1>t, <1>h, <2>1 DEF Retire, Goto, TokenRows
  <2>3. CASE h.user = u
    <3>1. handler'[w].pc = "confirm_old" /\ handler'[w].new = h.new
      BY <1>t, <2>2 DEF Handlers
    <3> QED
      BY <2>1, <2>2, <2>3, <3>1 DEF HasSession, Kept
  <2>4. CASE h.user # u
    <3>1. HasSession(u)
      BY <2>1, <2>2, <2>4
    <3> QED
      BY <1>t, <1>h, <1>v, <2>1, <2>2, <2>4, <3>1, KeptAlong DEF At
  <2> QED
    BY <2>3, <2>4
<1>5. CASE UNCHANGED <<tokens, handed>> /\ h.pc \notin {"store", "confirm_login", "confirm_old"}
  BY <1>5, <1>t, <1>h, <1>v, KeptAlong DEF At
<1>6. CASE Request(w)
  BY <1>5, <1>6, <1>h DEF Request, LoginUser, LoginSocial, LoginCode, LoginWithCode,
                          RefreshToken, Start, At, tokenVars
<1>7. CASE \E j \in Jtis : Store(w, j) \/ Rotate(w, j)
  BY <1>2, <1>7, <1>h DEF Store, Rotate, At
<1>8. CASE Retire(w) /\ ~Stored(h.old)
  BY <1>5, <1>8, <1>h DEF Retire, At
<1>9. CASE \/ ConfirmNew(w) \/ ClearCodes(w) \/ StampCode(w) \/ StoreCode(w) \/ MailCode(w)
           \/ FindCode(w) \/ DropCodes(w) \/ SpendCode(w)
  BY <1>5, <1>9, <1>h DEF ConfirmNew, ClearCodes, StampCode, StoreCode, MailCode, FindCode,
                          DropCodes, SpendCode, At, tokenVars
<1> QED
  BY <1>1, <1>3, <1>4, <1>6, <1>7, <1>8, <1>9, <1>h DEF Step

LEMMA KeptNext == SInv /\ [Next]_vars => SessionKept'
<1> SUFFICES ASSUME SInv, [Next]_vars, crashes' = 0, NEW u \in Users,
                    \E j \in Jtis : tokens'[j].user = u
             PROVE  HasSession(u)'
  BY DEF SessionKept
<1>t. crashes \in Nat
  BY DEF SInv, TypeOK
<1>1. CASE \E w \in Workers : Request(w) \/ Step(w)
  <2>1. crashes = 0
    BY <1>1 DEF Request, LoginUser, LoginSocial, LoginCode, LoginWithCode, RefreshToken,
              Step, RevokeAll, ConfirmLogin, ConfirmNew, Retire, ConfirmOld, HandOver, Store,
              Rotate, Insert, ClearCodes, StampCode, StoreCode, MailCode, FindCode, DropCodes,
              SpendCode
  <2> QED
    BY <1>1, <2>1, KeptStep DEF SInv, SessionKept
<1>2. CASE UNCHANGED <<tokens, handed, handler, crashes>>
  BY <1>2 DEF SInv, SessionKept, HasSession, Kept, At
<1>3. (\E v \in Users, b \in BOOLEAN : SetActive(v, b)) \/ (\E c \in Codes : ExpireCode(c))
        => UNCHANGED <<tokens, handed, handler, crashes>>
  BY DEF SetActive, ExpireCode, tokenVars
<1>4. ~\E w \in Workers : Crash(w)
  BY <1>t DEF Crash
<1> QED
  BY <1>1, <1>2, <1>3, <1>4 DEF Next, vars

-----------------------------------------------------------------------------
(* Spent codes.                                                            *)

\* A request gets hold of a code by finding it in the table, where no code is
\* that has been used.
LEMMA SpentNext ==
  SInv /\ [Next]_vars => \A c \in Codes : uses[c] > 0 => Verified(c)' \subseteq Verified(c)
<1> SUFFICES ASSUME SInv, [Next]_vars, NEW c \in Codes, uses[c] > 0,
                    NEW v \in Workers, handler'[v].pc = "spend_code", handler'[v].code = c
             PROVE  handler[v].pc = "spend_code" /\ handler[v].code = c
  BY DEF Verified, At
<1>t. handler \in [Workers -> Handlers] /\ c \notin codes
  BY DEF SInv, TypeOK, CodeInv, CodeOK
<1>1. CASE handler'[v] = handler[v]
  BY <1>1
<1>2. ASSUME NEW w \in Workers, NEW h, Start(w, h),
             h.pc \in {"revoke_all", "clear_codes", "find_code", "rotate"}
      PROVE  handler'[v] = handler[v]
  BY <1>2, <1>t DEF Start
<1>3. ASSUME NEW w \in Workers, End(w) PROVE handler'[v] = handler[v]
  BY <1>3, <1>t DEF End, Idle
<1>4. ASSUME NEW w \in Workers, NEW pc \in Steps \ {"spend_code"}, Goto(w, pc)
      PROVE  handler'[v] = handler[v]
  <2>1. [handler[w] EXCEPT !.pc = pc].pc = pc
    BY <1>t DEF Handlers
  <2> QED
    BY <1>4, <1>t, <2>1 DEF Goto
<1>5. ASSUME NEW w \in Workers, NEW j \in Jtis, NEW pc \in {"confirm_login", "confirm_new"},
             Insert(w, j, pc)
      PROVE  handler'[v] = handler[v]
  <2>1. [handler[w] EXCEPT !.pc = pc, !.new = j].pc = pc
    BY <1>t DEF Handlers
  <2> QED
    BY <1>5, <1>t, <2>1 DEF Insert
<1>6. ASSUME NEW w \in Workers, Request(w) PROVE handler'[v] = handler[v]
  BY <1>2, <1>6 DEF Request, LoginUser, LoginSocial, LoginCode, LoginWithCode, RefreshToken,
                    Idle
<1>7. ASSUME NEW w \in Workers, StampCode(w) PROVE handler'[v] = handler[v]
  <2>1. [handler[w] EXCEPT !.pc = "store_code", !.code = lastCode + 1].pc = "store_code"
    BY <1>t DEF Handlers
  <2> QED
    BY <1>7, <1>t, <2>1 DEF StampCode
<1>8. ASSUME NEW w \in Workers, FindCode(w) PROVE handler'[v] = handler[v]
  <2>1. CASE Goto(w, "spend_code") /\ handler[w].code \in codes
    <3>1. [handler[w] EXCEPT !.pc = "spend_code"].code = handler[w].code
      BY <1>t DEF Handlers
    <3> QED
      BY <1>t, <2>1, <3>1 DEF Goto
  <2>2. "drop_codes" \in Steps \ {"spend_code"}
    BY DEF Steps
  <2> QED
    BY <1>3, <1>4, <1>8, <2>1, <2>2 DEF FindCode, CodesOf
<1>9. ASSUME NEW w \in Workers, Step(w) PROVE handler'[v] = handler[v]
  <2>1. {"store", "retire", "confirm_old", "stamp_code", "mail_code", "revoke_all"}
          \subseteq Steps \ {"spend_code"}
    BY DEF Steps
  <2> QED
    BY <1>3, <1>4, <1>5, <1>7, <1>8, <1>9, <2>1
       DEF Step, RevokeAll, ConfirmLogin, ConfirmNew, Retire, ConfirmOld, HandOver, Store,
           Rotate, ClearCodes, StoreCode, MailCode, DropCodes, SpendCode
<1> QED
  BY <1>1, <1>3, <1>6, <1>9 DEF Next, Crash, SetActive, ExpireCode, vars

-----------------------------------------------------------------------------
(* The theorems.                                                           *)

\* The inductive invariant holds in every state of every run.
THEOREM SInvHolds == Spec => []SInv
<1>1. SInv /\ [Next]_vars => SInv'
  BY TypeNext, TokenNext, CodeNext, KeptNext DEF SInv
<1> QED
  BY <1>1, InitInv, PTL DEF Spec

\* Every variable keeps its type: no step runs into a request without a user, a
\* token or a code where it needs one.
THEOREM SessionTypes == Spec => []TypeOK
<1>1. SInv => TypeOK
  BY DEF SInv
<1> QED
  BY <1>1, SInvHolds, PTL

\* No token in a client's hands outlives the one it was rotated from: a refresh
\* under way during a login does not carry the old session over it.
THEOREM LoginEnds == Spec => []LoginEndsSessions
<1>1. SInv => LoginEndsSessions
  BY DEF SInv, TokenInv
<1> QED
  BY <1>1, SInvHolds, PTL

\* When a client has the new token the old one cannot be used any more.
THEOREM OldTokenIsDead == Spec => []OldTokenDead
<1>1. SInv => OldTokenDead
  BY DEF SInv, TokenInv
<1> QED
  BY <1>1, SInvHolds, PTL

\* Unless a request is killed, no order of logins and refreshes logs a user out.
THEOREM SessionIsKept == Spec => []SessionKept
<1>1. SInv => SessionKept
  BY DEF SInv
<1> QED
  BY <1>1, SInvHolds, PTL

\* After a code's first use only requests that had verified it before can use it.
THEOREM SpentNotTaken == Spec => SpentCodeNotTaken
<1>1. SInv /\ [Next]_vars =>
        [\A c \in Codes : uses[c] > 0 => Verified(c)' \subseteq Verified(c)]_vars
  BY SpentNext
<1> QED
  BY <1>1, SInvHolds, PTL DEF Spec, SpentCodeNotTaken
=============================================================================
