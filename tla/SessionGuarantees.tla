-------------------------- MODULE SessionGuarantees --------------------------
(***************************************************************************)
(* Further theorems about sessions and codes: that they implement the      *)
(* lines of SessionLines, and what holds of requests that do not overlap.  *)
(***************************************************************************)
EXTENDS SessionProofs

-----------------------------------------------------------------------------
(* What a step does to the tokens.                                         *)

\* The types the following lemmas need.
LEMMA Shapes ==
  ASSUME SInv
  PROVE  /\ handler \in [Workers -> Handlers]
         /\ tokens \in [Jtis -> TokenRows]
         /\ handed \subseteq Jtis
         /\ \A w \in Workers : RequestOK(handler[w]) /\ RotationOK(handler[w])
         /\ \A j \in Jtis : TokenOK(j)
BY DEF SInv, TypeOK, TokenInv

\* Each step leaves tokens and clients alone but for five.
LEMMA TokenSteps ==
  ASSUME [Next]_vars
  PROVE  \/ UNCHANGED <<tokens, handed>>
         \/ \E w \in Workers : \/ \E j \in Jtis : Store(w, j) \/ Rotate(w, j)
                               \/ RevokeAll(w)
                               \/ ConfirmLogin(w)
                               \/ ConfirmOld(w)
                               \/ Retire(w)
BY DEF Next, vars, Request, LoginUser, LoginSocial, LoginCode, LoginWithCode, RefreshToken,
       Step, ConfirmNew, ClearCodes, StampCode, StoreCode, MailCode, FindCode, DropCodes,
       SpendCode, Crash, SetActive, ExpireCode, tokenVars

LEMMA RevokedNext == SInv /\ RevokedHanded /\ [Next]_vars => RevokedHanded'
<1> SUFFICES ASSUME SInv, RevokedHanded, [Next]_vars PROVE RevokedHanded'
  OBVIOUS
<1> USE Shapes DEF RevokedHanded
<1>1. ASSUME NEW w \in Workers, NEW j \in Jtis, Store(w, j) \/ Rotate(w, j)
      PROVE  RevokedHanded'
  BY <1>1 DEF Store, Rotate, Insert
<1>2. ASSUME NEW w \in Workers, RevokeAll(w) PROVE RevokedHanded'
  BY <1>2 DEF RevokeAll, TokenRows
<1>3. ASSUME NEW w \in Workers, ConfirmLogin(w) \/ ConfirmOld(w) PROVE RevokedHanded'
  BY <1>3 DEF ConfirmLogin, ConfirmOld, HandOver
<1>4. ASSUME NEW w \in Workers, Retire(w) PROVE RevokedHanded'
  <2>1. handler[w].old \in handed
    BY <1>4 DEF RequestOK, Rotating, Retire, At
  <2> QED
    BY <1>4, <2>1 DEF Retire
<1> QED
  BY <1>1, <1>2, <1>3, <1>4, TokenSteps

-----------------------------------------------------------------------------
(* Lines.                                                                  *)

\* What no client has is not seen in the lines.
LEMMA SameLines ==
  ASSUME handed' = handed, \A j \in handed : tokens'[j] = tokens[j]
  PROVE  UNCHANGED Lines!lineVars
BY DEF Lines!lineVars

\* A login's deletion ends all of its user's lines.
LEMMA LoginEndsLines ==
  ASSUME SInv, NEW w \in Workers, RevokeAll(w)
  PROVE  \E u \in Users : Lines!EndLines(u)
<1> USE Shapes
<1>1. PICK u \in Users : u = handler[w].user
  BY DEF RequestOK, RevokeAll, At
<1>2. /\ handed' = handed
      /\ \A j \in Jtis : /\ tokens'[j].user = tokens[j].user
                         /\ tokens'[j].parent = tokens[j].parent
                         /\ tokens'[j].state = IF Stored(j) /\ tokens[j].user = u
                                               THEN "deleted" ELSE tokens[j].state
  BY <1>1 DEF RevokeAll, TokenRows
<1>3. \A j \in handed : tokens[j].state \in {"live", "revoked", "deleted"}
  BY DEF TokenOK, TokenRows
<1>4. \A j \in handed : tokens'[j].state = IF tokens[j].user = u
                                           THEN "deleted" ELSE tokens[j].state
  BY <1>2, <1>3 DEF Stored
<1>5. Lines!EndLines(u)
  BY <1>2, <1>4, SessionAssumption DEF Lines!EndLines, Lines!Given
<1> QED
  BY <1>5

\* Revoking a token withdraws it.
LEMMA RetireWithdraws ==
  ASSUME SInv, NEW w \in Workers, Retire(w)
  PROVE  \/ UNCHANGED Lines!lineVars
         \/ \E p \in Jtis : Lines!Withdraw(p)
<1> USE Shapes
<1>1. CASE ~Stored(handler[w].old)
  BY <1>1, SameLines DEF Retire
<1>2. CASE Stored(handler[w].old)
  <2>1. PICK p \in handed : p = handler[w].old
    BY DEF RequestOK, Rotating, Retire, At
  <2>2. /\ handed' = handed
        /\ \A j \in Jtis : /\ tokens'[j].user = tokens[j].user
                           /\ tokens'[j].parent = tokens[j].parent
                           /\ tokens'[j].state = IF j = p THEN "revoked" ELSE tokens[j].state
    BY <1>2, <2>1 DEF Retire, TokenRows
  <2>3. tokens[p].state # "deleted"
    BY <1>2, <2>1 DEF Stored
  <2>4. Lines!Withdraw(p)
    BY <2>2, <2>3 DEF Lines!Withdraw
  <2> QED
    BY <2>4
<1> QED
  BY <1>1, <1>2

\* A token handed over begins a line, or replaces a revoked one.
LEMMA HandOverGives ==
  ASSUME SInv, RevokedHanded, NEW w \in Workers, ConfirmLogin(w) \/ ConfirmOld(w)
  PROVE  \/ UNCHANGED Lines!lineVars
         \/ \E u \in Users, j \in Jtis : Lines!Begin(u, j)
         \/ \E p, j \in Jtis : Lines!Replace(p, j)
<1> USE Shapes
<1>n. PICK j \in Jtis \ handed : j = handler[w].new
  BY DEF RequestOK, Inserted, ConfirmLogin, ConfirmOld, At
<1>p. PICK p \in Jtis \cup {NoToken} : p = handler[w].old
  BY DEF Handlers
<1>u. PICK u \in Users : u = handler[w].user
  BY DEF RequestOK, Inserted, ConfirmLogin, ConfirmOld, At
<1>j. tokens[j].user = u /\ tokens[j].parent = p /\ u # NoUser
  BY <1>n, <1>p, <1>u, SessionAssumption DEF RequestOK, Inserted, ConfirmLogin, ConfirmOld, At
<1>t. tokens' = tokens
  BY DEF ConfirmLogin, ConfirmOld, HandOver
<1>1. CASE handed' = handed
  BY <1>1, <1>t, SameLines
<1>2. CASE handed' = handed \cup {j} /\ ConfirmLogin(w)
  <2>1. tokens[j].state = "live"
    BY <1>2, <1>n DEF ConfirmLogin, HandOver, Stored, RevokedHanded
  <2>2. p = NoToken
    BY <1>2, <1>p DEF RequestOK, ConfirmLogin, At
  <2>3. Lines!Begin(u, j)
    BY <1>2, <1>j, <1>t, <2>1, <2>2 DEF Lines!Begin, Lines!Give, Lines!Given
  <2> QED
    BY <2>3
<1>3. CASE handed' = handed \cup {j} /\ ConfirmOld(w)
  <2>1. p \in handed /\ tokens[p].user = u /\ Stored(p)
    BY <1>3, <1>n, <1>p, <1>u DEF RequestOK, Rotating, ConfirmOld, HandOver, At
  <2>2. tokens[p].state = "revoked" /\ tokens[j].state = "live"
    BY <1>3, <1>n, <1>p, <2>1 DEF RotationOK, ConfirmOld, At, Stored
  <2>3. Lines!Replace(p, j)
    BY <1>3, <1>j, <1>t, <2>1, <2>2 DEF Lines!Replace, Lines!Give, Lines!Given
  <2> QED
    BY <2>1, <2>3
<1> QED
  BY <1>1, <1>2, <1>3, <1>n DEF ConfirmLogin, ConfirmOld, HandOver

LEMMA LinesStep ==
  SInv /\ RevokedHanded /\ [Next]_vars => [Lines!LinesNext]_(Lines!lineVars)
<1> SUFFICES ASSUME SInv, RevokedHanded, [Next]_vars
             PROVE  Lines!LinesNext \/ UNCHANGED Lines!lineVars
  OBVIOUS
<1>1. CASE UNCHANGED <<tokens, handed>>
  BY <1>1, SameLines
<1>2. ASSUME NEW w \in Workers, NEW j \in Jtis, Store(w, j) \/ Rotate(w, j)
      PROVE  UNCHANGED Lines!lineVars
  <2>1. j \notin handed
    BY <1>2, Shapes DEF TokenOK, Store, Rotate, Insert, Unused
  <2> QED
    BY <1>2, <2>1, Shapes, SameLines DEF Store, Rotate, Insert
<1> QED
  BY <1>1, <1>2, TokenSteps, LoginEndsLines, RetireWithdraws, HandOverGives DEF Lines!LinesNext

-----------------------------------------------------------------------------
(* Codes verified by one request at a time.                                *)

\* A code is counted when a request that has verified it goes on.
LEMMA UsesByOne ==
  ASSUME SInv, [Next]_vars, uses' # uses
  PROVE  \E w \in Workers : SpendCode(w)
BY DEF Next, vars, Request, LoginUser, LoginSocial, LoginCode, LoginWithCode, RefreshToken,
       Step, RevokeAll, Store, Rotate, Insert, ConfirmLogin, ConfirmOld, HandOver, Retire,
       ConfirmNew, ClearCodes, StampCode, StoreCode, MailCode, FindCode, DropCodes,
       Crash, SetActive, ExpireCode, codeVars

LEMMA UsedOnceNext == SInv /\ OneVerifies /\ UsedOnce /\ [Next]_vars => UsedOnce'
<1> SUFFICES ASSUME SInv, OneVerifies, UsedOnce, [Next]_vars, NEW c \in Codes
             PROVE  uses'[c] <= 1 /\ (uses'[c] > 0 => Verified(c)' = {})
  BY DEF UsedOnce
<1>1. CASE uses'[c] = uses[c]
  BY <1>1, SpentNext DEF UsedOnce
<1>2. CASE uses'[c] # uses[c]
  <2>1. PICK w \in Workers : SpendCode(w)
    BY <1>2, UsesByOne
  <2>2. c = handler[w].code /\ uses[c] \in Nat /\ uses'[c] = IF uses[c] < 2 THEN uses[c] + 1 ELSE uses[c]
    BY <1>2, <2>1 DEF SpendCode, Accepted, SInv, TypeOK, MaxUses
  <2>3. w \in Verified(c)
    BY <2>1, <2>2 DEF Verified, SpendCode
  <2>4. uses[c] = 0 /\ uses'[c] = 1
    BY <2>2, <2>3 DEF UsedOnce
  <2>5. handler'[w].pc \in {"idle", "revoke_all"}
    BY <2>1, Shapes DEF SpendCode, Goto, End, Idle, Handlers
  <2>6. \A v \in Workers \ {w} : handler'[v] = handler[v]
    BY <2>1, Shapes DEF SpendCode, Goto, End
  <2>7. Verified(c) = {w}
    BY <2>3 DEF OneVerifies
  <2>8. Verified(c)' = {}
    BY <2>5, <2>6, <2>7 DEF Verified, At
  <2> QED
    BY <2>4, <2>8
<1> QED
  BY <1>1, <1>2

-----------------------------------------------------------------------------
(* Tokens validated by one request at a time.                              *)

\* A refresh with a token begins while the token is live.
LEMMA RotatorsNext ==
  ASSUME SInv, [Next]_vars, NEW p \in Jtis, tokens[p].state # "live"
  PROVE  Rotators(p)' \subseteq Rotators(p)
<1> SUFFICES ASSUME NEW v \in Workers, handler'[v].pc \in Rotating, handler'[v].old = p,
                    handler'[v] # handler[v]
             PROVE  handler[v].pc \in Rotating /\ handler[v].old = p
  BY DEF Rotators
<1> USE Shapes, SessionAssumption
<1>1. ASSUME NEW w \in Workers, Request(w) PROVE FALSE
  <2>1. ASSUME NEW h, Start(w, h) PROVE handler'[v] = h
    BY <2>1 DEF Start
  <2> QED
    BY <1>1, <2>1 DEF Request, LoginUser, LoginSocial, LoginCode, LoginWithCode,
       RefreshToken, Idle, Rotating
<1>2. ASSUME NEW w \in Workers, End(w) PROVE FALSE
  BY <1>2 DEF End, Idle, Rotating
<1>3. ASSUME NEW w \in Workers, NEW pc, Goto(w, pc)
      PROVE  w = v /\ handler'[v].pc = pc /\ handler'[v].old = handler[v].old
  BY <1>3 DEF Goto, Handlers
<1>4. ASSUME NEW w \in Workers, NEW j \in Jtis, NEW pc, Insert(w, j, pc)
      PROVE  w = v /\ handler'[v].pc = pc /\ handler'[v].old = handler[v].old
  BY <1>4 DEF Insert, Handlers
<1>5. ASSUME NEW w \in Workers, StampCode(w) PROVE FALSE
  BY <1>5 DEF StampCode, Handlers, Rotating
<1>6. ASSUME NEW w \in Workers, ConfirmNew(w) \/ Retire(w) \/ \E j \in Jtis : Rotate(w, j)
      PROVE  handler[v].pc \in Rotating /\ handler[v].old = p
  BY <1>2, <1>3, <1>4, <1>6 DEF ConfirmNew, Retire, Rotate, At, Rotating
<1>7. ASSUME NEW w \in Workers, NEW j \in Jtis, Store(w, j) PROVE FALSE
  BY <1>4, <1>7 DEF Store, Rotating
<1>8. ASSUME NEW w \in Workers,
             \/ RevokeAll(w) \/ ConfirmLogin(w) \/ ConfirmOld(w) \/ ClearCodes(w) \/ StoreCode(w)
             \/ MailCode(w) \/ FindCode(w) \/ DropCodes(w) \/ SpendCode(w)
      PROVE  FALSE
  BY <1>2, <1>3, <1>8 DEF RevokeAll, ConfirmLogin, ConfirmOld, HandOver, ClearCodes, StoreCode,
     MailCode, FindCode, DropCodes, SpendCode, Rotating
<1> QED
  BY <1>1, <1>2, <1>5, <1>6, <1>7, <1>8 DEF Next, vars, Step, Crash, SetActive, ExpireCode

LEMMA ExchangedNext == SInv /\ OneRotates /\ Exchanged /\ [Next]_vars => Exchanged'
<1> SUFFICES ASSUME SInv, OneRotates, Exchanged, [Next]_vars PROVE Exchanged'
  OBVIOUS
<1> USE Shapes, SessionAssumption
<1>p. \A j \in handed : tokens'[j].parent = tokens[j].parent
  <2>1. ASSUME NEW w \in Workers, NEW i \in Jtis, Store(w, i) \/ Rotate(w, i), NEW j \in handed
        PROVE  tokens'[j].parent = tokens[j].parent
    BY <2>1 DEF TokenOK, Store, Rotate, Insert, Unused
  <2>2. ASSUME NEW w \in Workers, RevokeAll(w) \/ Retire(w), NEW j \in handed
        PROVE  tokens'[j].parent = tokens[j].parent
    BY <2>2 DEF RevokeAll, Retire, TokenRows
  <2> QED
    BY <2>1, <2>2, TokenSteps DEF ConfirmLogin, ConfirmOld, HandOver
<1>r. ASSUME NEW j \in handed, tokens[j].parent # NoToken
      PROVE  Rotators(tokens[j].parent)' = {}
  <2>1. PICK p \in Jtis : p = tokens[j].parent
    BY <1>r DEF TokenOK
  <2>2. tokens[p].state # "live" /\ Rotators(p) = {}
    BY <1>r, <2>1 DEF SInv, TokenInv, OldTokenDead, Exchanged
  <2>3. Rotators(p)' = {}
    BY <2>2, RotatorsNext
  <2> QED
    BY <1>p, <2>1, <2>3
<1>1. CASE handed' = handed
  BY <1>1, <1>p, <1>r DEF Exchanged, ExchangedOnce
<1>2. ASSUME NEW w \in Workers, ConfirmLogin(w) \/ ConfirmOld(w), handed' # handed
      PROVE  Exchanged'
  <2>n. PICK j \in Jtis \ handed : j = handler[w].new
    BY <1>2 DEF RequestOK, Inserted, ConfirmLogin, ConfirmOld, At
  <2>1. tokens' = tokens /\ handed' = handed \cup {j}
    BY <1>2, <2>n DEF ConfirmLogin, ConfirmOld, HandOver
  <2>2. tokens[j].parent = handler[w].old
    BY <1>2, <2>n DEF RequestOK, Inserted, ConfirmLogin, ConfirmOld, At
  <2>3. CASE ConfirmLogin(w)
    <3>1. tokens[j].parent = NoToken
      BY <2>2, <2>3 DEF RequestOK, ConfirmLogin, At
    <3> QED
      BY <1>r, <2>1, <3>1 DEF Exchanged, ExchangedOnce
  <2>4. CASE ConfirmOld(w)
    <3>1. PICK p \in handed : p = handler[w].old
      BY <2>4 DEF RequestOK, Rotating, ConfirmOld, At
    <3>2. w \in Rotators(p)
      BY <2>4, <3>1 DEF Rotators, ConfirmOld, At, Rotating
    <3>3. \A i \in handed : tokens[i].parent # p
      BY <3>1, <3>2 DEF Exchanged
    <3>4. handler' = [handler EXCEPT ![w] = Idle]
      BY <2>4 DEF ConfirmOld, HandOver, End
    <3>5. Rotators(p) = {w}
      BY <3>2 DEF OneRotates
    <3>6. Rotators(p)' = {}
      BY <3>4, <3>5 DEF Rotators, Idle, Rotating
    <3>7. ExchangedOnce'
      BY <2>1, <2>2, <3>1, <3>3 DEF Exchanged, ExchangedOnce
    <3> QED
      BY <1>r, <2>1, <2>2, <3>1, <3>6, <3>7 DEF Exchanged
  <2> QED
    BY <1>2, <2>3, <2>4
<1> QED
  BY <1>1, <1>2, TokenSteps DEF Store, Rotate, Insert, RevokeAll, Retire

-----------------------------------------------------------------------------
(* The theorems.                                                           *)

\* In the clients' eyes logins and refreshes, however they interleave, give and
\* end tokens one at a time, each in place of a dead one.
THEOREM LinesImplemented == Spec => ImplementsLines
<1>1. Init => Lines!LinesInit /\ RevokedHanded
  BY DEF Init, Lines!LinesInit, RevokedHanded, Unused
<1>2. Spec => []RevokedHanded
  BY <1>1, RevokedNext, SInvHolds, PTL DEF Spec
<1> QED
  BY <1>1, <1>2, LinesStep, SInvHolds, PTL DEF Spec, ImplementsLines, Lines!LinesSpec

\* A code lets one login in, unless two have verified it before either deletes it.
THEOREM CodeOnce == Spec /\ []OneVerifies => []CodeUsedOnce
<1>1. Init => UsedOnce
  BY DEF Init, UsedOnce
<1>2. UsedOnce => CodeUsedOnce
  BY DEF UsedOnce, CodeUsedOnce
<1> QED
  BY <1>1, <1>2, UsedOnceNext, SInvHolds, PTL DEF Spec

\* A token is exchanged for one other, unless two refreshes have validated it
\* before either revokes it.
THEOREM TokenExchangedOnce == Spec /\ []OneRotates => []ExchangedOnce
<1>1. Init => Exchanged
  BY DEF Init, Exchanged, ExchangedOnce
<1>2. Exchanged => ExchangedOnce
  BY DEF Exchanged
<1> QED
  BY <1>1, <1>2, ExchangedNext, SInvHolds, PTL DEF Spec
=============================================================================
