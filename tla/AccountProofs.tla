---------------------------- MODULE AccountProofs ----------------------------
(***************************************************************************)
(* Proofs about accounts, for any addresses, names, codes and requests.    *)
(***************************************************************************)
EXTENDS AccountInvariant, TLAPS

USE AccountAssumption

-----------------------------------------------------------------------------
(* Types and initial states.                                               *)

Values == Passwords \cup BOOLEAN

LEMMA IdleType == Idle \in RequestStates /\ Idle.pc = "idle" /\ Idle.code = NoCode
                  /\ Idle.actor = NoUser /\ Idle.tries = 0
<1>1. PICK e \in Emails : e = CHOOSE x \in Emails : TRUE
  OBVIOUS
<1>2. First[e] \in Rows
  BY <1>1
<1>3. Idle = [pc |-> "idle", user |-> e, actor |-> NoUser, code |-> NoCode, tries |-> 0,
              sets |-> "password", loaded |-> First[e], assigned |-> First[e]]
  BY <1>1 DEF Idle
<1> QED
  BY <1>2, <1>3 DEF RequestStates, Columns, MaxTries

LEMMA NewRowType ==
  ASSUME NEW n \in Names, NEW p \in Passwords \cup {NoPassword}, NEW v \in BOOLEAN
  PROVE  NewRow(n, p, v) \in Rows
BY DEF NewRow, Rows

\* The value is one the column can hold.
Fits(c, v) == IF c = "password" THEN v \in Passwords ELSE v \in BOOLEAN

LEMMA AssignType ==
  ASSUME NEW r \in Rows, NEW c \in Columns, NEW v, Fits(c, v)
  PROVE  Assign(r, c, v) \in Rows
BY DEF Assign, Rows, Columns, Fits

LEMMA FlushType ==
  ASSUME NEW r \in RequestStates, NEW row \in Rows
  PROVE  /\ Flush(r, row) \in Rows
         /\ Flush(r, row).stored = row.stored
BY DEF Flush, Keep, Rows, RequestStates

LEMMA ValueType ==
  ASSUME NEW r \in Rows, NEW c \in Columns \ {"password"}
  PROVE  Value(r, c) \in BOOLEAN /\ Fits(c, Value(r, c))
BY DEF Value, Rows, Columns, Fits

LEMMA InitInv == Init => AInv
<1> SUFFICES ASSUME Init PROVE AInv
  OBVIOUS
<1> USE DEF Init
<1>1. TypeOK
  BY IdleType DEF TypeOK
<1>2. \A q \in Requests : RequestOK(request[q])
  BY IdleType DEF RequestOK
<1>3. CodesOK
  BY IdleType DEF CodesOK, CodeLetsInOnce, LetIn
<1>4. Founded /\ RolesOK
  <2>1. \A e \in Emails : First[e].stored \in BOOLEAN /\ First[e].admin \in BOOLEAN
    BY DEF Rows
  <2> QED
    BY <2>1 DEF Founded, RolesOK, FirstRole
<1> QED
  BY <1>1, <1>2, <1>3, <1>4 DEF AInv

-----------------------------------------------------------------------------
(* One request moves on.                                                   *)

\* What the handlers below start from.
LEMMA Request ==
  ASSUME AInv, NEW q \in Requests
  PROVE  /\ TypeOK /\ RequestOK(request[q])
         /\ request[q] \in RequestStates
         /\ request[q].user \in Emails /\ request[q].sets \in Columns
         /\ request[q].actor \in Emails \cup {NoUser}
         /\ request[q].code \in Codes \cup {NoCode}
         /\ request[q].tries \in 0 .. MaxTries
         /\ request[q].loaded \in Rows /\ request[q].assigned \in Rows
         /\ \A e \in Emails : users[e] \in Rows
BY DEF AInv, TypeOK, RequestStates

\* What a step has to keep for the other requests.
Grows ==
  /\ users' \in [Emails -> Rows]
  /\ linked' \subseteq Emails
  /\ spent' \subseteq Codes /\ spent \subseteq spent'
  /\ log' \subseteq Entries
  /\ asked' \subseteq Emails \X Columns \X (Passwords \cup BOOLEAN) /\ asked \subseteq asked'
  /\ \A e \in Emails : users[e].stored => users'[e].stored

LEMMA GoodAfter ==
  ASSUME NEW q \in Requests, NEW g \in RequestStates, request'[q] = g, RequestOK(g)'
  PROVE  RequestOK(request[q])'
<1>1. Ready(g)' => Ready(request[q])'
  BY DEF Ready
<1> QED
  BY <1>1 DEF RequestOK

LEMMA Moved ==
  ASSUME AInv, NEW q \in Requests, NEW g \in RequestStates,
         request' = [request EXCEPT ![q] = g],
         Grows, RequestOK(g)', RolesOK',
         g.code # NoCode /\ g.pc \in {"profile", "insert", "done"} =>
           /\ g.code \in spent'
           /\ g.code \in spent => LetIn(q) /\ request[q].code = g.code
  PROVE  AInv'
<1>t. TypeOK /\ CodesOK /\ Founded
  BY DEF AInv
<1>b. \A p \in Requests : request'[p] = IF p = q THEN g ELSE request[p]
  BY <1>t DEF TypeOK
<1>1. TypeOK'
  BY <1>t DEF TypeOK, Grows
<1>2. \A p \in Requests : RequestOK(request[p])'
  <2> TAKE p \in Requests
  <2>1. CASE p = q
    <3>1. request'[p] = g
      BY <2>1, <1>b
    <3> QED
      BY <3>1, GoodAfter
  <2>2. CASE p # q
    <3>1. request'[p] = request[p] /\ RequestOK(request[p])
      BY <2>2, <1>b DEF AInv
    <3>2. request[p].user \in Emails
      BY Request
    <3>3. users[request[p].user].stored => users'[request[p].user].stored
      BY <3>2 DEF Grows
    <3>4. Ready(request[p]) => Ready(request[p])'
      BY <3>1 DEF Ready, Grows
    <3>5. asked \subseteq asked'
      BY DEF Grows
    <3> QED
      BY <3>1, <3>3, <3>4, <3>5 DEF RequestOK
  <2> QED
    BY <2>1, <2>2
<1>3. CodesOK'
  <2>1. \A p \in Requests \ {q} : /\ LetIn(p)' <=> LetIn(p)
                                  /\ request'[p].code = request[p].code
    BY <1>b DEF LetIn
  <2>2. request'[q].code = g.code
    BY <1>b
  <2>3. LetIn(q)' => g.code \in spent' /\ (g.code \in spent => LetIn(q) /\ request[q].code = g.code)
    BY <1>b DEF LetIn
  <2>4. \A p \in Requests : LetIn(p)' => request'[p].code \in spent'
    BY <2>1, <2>2, <2>3, <1>t DEF CodesOK, Grows
  <2>5. \A p \in Requests \ {q} :
          LetIn(p)' /\ LetIn(q)' => request'[p].code # request'[q].code
    BY <2>1, <2>2, <2>3, <1>t DEF CodesOK, CodeLetsInOnce
  <2>6. CodeLetsInOnce'
    <3> SUFFICES ASSUME NEW x \in Requests, NEW y \in Requests, LetIn(x)', LetIn(y)',
                        request'[x].code = request'[y].code
                 PROVE  x = y
      BY DEF CodeLetsInOnce
    <3>1. CASE x = q \/ y = q
      BY <3>1, <2>5
    <3>2. CASE x # q /\ y # q
      BY <3>2, <2>1, <1>t DEF CodesOK, CodeLetsInOnce
    <3> QED
      BY <3>1, <3>2
  <2> QED
    BY <2>4, <2>6 DEF CodesOK
<1>4. Founded'
  BY <1>t DEF Founded, Grows
<1> QED
  BY <1>1, <1>2, <1>3, <1>4 DEF AInv

LEMMA RolesStill ==
  ASSUME AInv, NEW q \in Requests, NEW g \in RequestStates,
         request' = [request EXCEPT ![q] = g],
         UNCHANGED <<users, log>>,
         request[q].pc \notin {"reread", "log", "unlogged"}
  PROVE  RolesOK'
<1>1. TypeOK /\ RolesOK
  BY DEF AInv
<1>2. \A p \in Requests, e \in Emails : PendingBy(request[p], e) => PendingBy(request[p], e)'
  <2> SUFFICES ASSUME NEW p \in Requests, NEW e \in Emails, PendingBy(request[p], e)
               PROVE  PendingBy(request[p], e)'
    OBVIOUS
  <2>1. request'[p] = request[p]
    BY <1>1 DEF TypeOK, PendingBy
  <2> QED
    BY <2>1 DEF PendingBy
<1>3. \A e \in Emails : Recorded(e)' <=> Recorded(e)
  BY DEF Recorded
<1> QED
  BY <1>1, <1>2, <1>3 DEF RolesOK, FirstRole

\* A step that changes nothing but the request and what was asked for.
LEMMA MovedAlone ==
  ASSUME AInv, NEW q \in Requests, NEW g \in RequestStates,
         request' = [request EXCEPT ![q] = g],
         UNCHANGED <<users, linked, spent, log>>,
         asked \subseteq asked', asked' \subseteq Emails \X Columns \X (Passwords \cup BOOLEAN),
         request[q].pc \notin {"reread", "log", "unlogged"},
         RequestOK(g)',
         g.code # NoCode /\ g.pc \in {"profile", "insert", "done"} =>
           LetIn(q) /\ request[q].code = g.code
  PROVE  AInv'
<1>1. Grows
  BY DEF AInv, TypeOK, Grows
<1>2. RolesOK'
  BY RolesStill
<1>3. LetIn(q) => request[q].code \in spent
  BY DEF AInv, CodesOK
<1> QED
  BY <1>1, <1>2, <1>3, Moved

-----------------------------------------------------------------------------
(* The steps of a request, one lemma per action.                           *)

AllPcs == {"idle"} \cup Steps \cup Ends

LEMMA GotoState ==
  ASSUME AInv, NEW q \in Requests, NEW pc \in AllPcs, Goto(q, pc)
  PROVE  \E g \in RequestStates :
           /\ request' = [request EXCEPT ![q] = g]
           /\ g = [request[q] EXCEPT !.pc = pc]
<1>1. request[q] \in RequestStates
  BY Request
<1>2. [request[q] EXCEPT !.pc = pc] \in RequestStates
  BY <1>1 DEF RequestStates, AllPcs
<1> QED
  BY <1>2 DEF Goto

\* A request that goes to another step, and nothing else changes.
LEMMA Going ==
  ASSUME AInv, NEW q \in Requests, NEW pc \in AllPcs, Goto(q, pc),
         UNCHANGED <<users, linked, spent, log, asked>>,
         request[q].pc \notin {"reread", "log", "unlogged"},
         \/ pc \in Ends \ {"done"}
         \/ pc = "done" /\ (request[q].code # NoCode => LetIn(q))
         \/ pc = "insert" /\ request[q].pc = "check_name"
  PROVE  AInv'
<1>1. PICK g \in RequestStates : /\ request' = [request EXCEPT ![q] = g]
                                 /\ g = [request[q] EXCEPT !.pc = pc]
  BY GotoState
<1>2. /\ g.pc = pc /\ g.code = request[q].code /\ g.assigned = request[q].assigned
      /\ request[q] \in RequestStates /\ RequestOK(request[q])
  BY <1>1, Request DEF RequestStates
<1>3. RequestOK(g)'
  <2>1. CASE pc \in Ends
    BY <2>1, <1>2 DEF RequestOK, Ends
  <2>2. CASE pc = "insert" /\ request[q].pc = "check_name"
    <3>1. \E n \in Names, p \in Passwords \cup {NoPassword} :
            g.assigned = NewRow(n, p, p = NoPassword)
      BY <2>2, <1>2 DEF RequestOK
    <3> QED
      BY <2>2, <3>1, <1>2 DEF RequestOK
  <2> QED
    BY <2>1, <2>2 DEF Ends
<1>4. g.code # NoCode /\ g.pc \in {"profile", "insert", "done"} =>
        LetIn(q) /\ request[q].code = g.code
  BY <1>2 DEF RequestOK, Ends
<1>5. asked' \subseteq Emails \X Columns \X (Passwords \cup BOOLEAN)
  BY DEF AInv, TypeOK
<1> QED
  BY <1>1, <1>3, <1>4, <1>5, MovedAlone

LEMMA FreshRow ==
  ASSUME NEW n \in Names, NEW p \in Passwords \cup {NoPassword}, NEW v \in BOOLEAN,
         v <=> p = NoPassword
  PROVE  \E m \in Names, x \in Passwords \cup {NoPassword} :
           NewRow(n, p, v) = NewRow(m, x, x = NoPassword)
<1>1. v = (p = NoPassword)
  OBVIOUS
<1> QED
  BY <1>1

LEMMA RegisterInv ==
  ASSUME AInv, NEW q \in Requests, NEW e \in Emails, NEW n \in Names, NEW p \in Passwords,
         Register(q, e, n, p)
  PROVE  AInv'
<1> USE DEF Register, Begin, At
<1>1. PICK row : row = NewRow(n, p, FALSE)
  OBVIOUS
<1>2. PICK g : g = [Idle EXCEPT !.pc = "check_name", !.user = e, !.assigned = row]
  OBVIOUS
<1>3. row \in Rows
  BY <1>1, NewRowType
<1>4. g \in RequestStates /\ g.pc = "check_name" /\ g.assigned = row /\ g.code = NoCode
  BY <1>2, <1>3, IdleType DEF RequestStates, Steps
<1>5. \E m \in Names, x \in Passwords \cup {NoPassword} :
        g.assigned = NewRow(m, x, x = NoPassword)
  <2>1. FALSE = (p = NoPassword)
    OBVIOUS
  <2>2. NewRow(n, p, FALSE) = NewRow(n, p, p = NoPassword)
    BY <2>1
  <2> QED
    BY <1>1, <1>4, <2>2
<1>6. RequestOK(g)'
  BY <1>4, <1>5 DEF RequestOK
<1>7. request' = [request EXCEPT ![q] = g]
  BY <1>1, <1>2
<1>8. asked' \subseteq Emails \X Columns \X (Passwords \cup BOOLEAN) /\ asked \subseteq asked'
  BY DEF AInv, TypeOK
<1> QED
  BY <1>4, <1>6, <1>7, <1>8, MovedAlone

LEMMA CheckNameInv ==
  ASSUME AInv, NEW q \in Requests, CheckName(q)
  PROVE  AInv'
<1>1. request[q].pc = "check_name"
  BY DEF CheckName, At
<1>2. CASE Goto(q, "refused")
  BY <1>1, <1>2, Going DEF CheckName, AllPcs, Ends
<1>3. CASE Goto(q, "insert")
  BY <1>1, <1>3, Going DEF CheckName, AllPcs, Steps
<1> QED
  BY <1>2, <1>3 DEF CheckName

LEMMA InsertInv ==
  ASSUME AInv, NEW q \in Requests, Insert(q)
  PROVE  AInv'
<1> USE DEF At
<1>1. PICK r : r = request[q]
  OBVIOUS
<1>t. /\ TypeOK /\ RequestOK(r) /\ r \in RequestStates /\ r.pc = "insert"
      /\ r.user \in Emails /\ r.assigned \in Rows
  BY <1>1, Request DEF Insert
<1>c. request[q].code # NoCode => LetIn(q)
  BY <1>1, <1>t DEF LetIn
<1>2. CASE users[r.user].stored \/ NameTaken(r.assigned.name)
  <2>1. Goto(q, "failed") /\ UNCHANGED <<users, linked, spent, log, asked>>
    BY <1>1, <1>2 DEF Insert
  <2> QED
    BY <2>1, <1>1, <1>t, Going DEF AllPcs, Ends
<1>3. CASE ~(users[r.user].stored \/ NameTaken(r.assigned.name))
  <2>1. /\ Goto(q, "done") /\ users' = [users EXCEPT ![r.user] = r.assigned]
        /\ UNCHANGED <<linked, spent, log, asked>> /\ ~users[r.user].stored
    BY <1>1, <1>3 DEF Insert
  <2>2. PICK g \in RequestStates : /\ request' = [request EXCEPT ![q] = g]
                                   /\ g = [request[q] EXCEPT !.pc = "done"]
    BY <2>1, GotoState DEF AllPcs, Ends
  <2>3. g.pc = "done" /\ g.code = r.code
    BY <2>2, <1>1, <1>t DEF RequestStates
  <2>4. RequestOK(g)'
    BY <2>3 DEF RequestOK
  <2>5. Grows
    BY <2>1, <1>t DEF Grows, TypeOK
  <2>6. RolesOK'
    <3>1. \E n \in Names, p \in Passwords \cup {NoPassword} :
            r.assigned = NewRow(n, p, p = NoPassword)
      BY <1>t DEF RequestOK
    <3>2. r.assigned.admin = FALSE
      BY <3>1 DEF NewRow
    <3>3. ~First[r.user].stored
      BY <1>t, <2>1 DEF AInv, Founded
    <3>4. SUFFICES ASSUME NEW e \in Emails, users'[e].stored,
                          users'[e].admin # FirstRole(e)
                   PROVE  Recorded(e)' \/ \E p \in Requests : PendingBy(request[p], e)'
      BY DEF RolesOK, FirstRole
    <3>5. e # r.user /\ users'[e] = users[e]
      <4>1. users'[r.user].admin = FirstRole(r.user)
        BY <2>1, <1>t, <3>2, <3>3 DEF TypeOK, FirstRole
      <4> QED
        BY <4>1, <3>4, <2>1, <1>t DEF TypeOK
    <3>6. Recorded(e) \/ \E p \in Requests : PendingBy(request[p], e)
      BY <3>4, <3>5 DEF AInv, RolesOK
    <3>7. Recorded(e) => Recorded(e)'
      BY <2>1, <3>5 DEF Recorded
    <3>8. ASSUME NEW p \in Requests, PendingBy(request[p], e) PROVE PendingBy(request[p], e)'
      <4>1. request'[p] = request[p]
        BY <3>8, <2>2, <1>1, <1>t DEF PendingBy, TypeOK
      <4> QED
        BY <4>1, <3>5, <3>8 DEF PendingBy
    <3> QED
      BY <3>6, <3>7, <3>8
  <2>7. g.code # NoCode => /\ g.code \in spent' /\ LetIn(q) /\ request[q].code = g.code
    BY <2>1, <2>3, <1>1, <1>c DEF AInv, CodesOK
  <2> QED
    BY <2>2, <2>4, <2>5, <2>6, <2>7, Moved
<1> QED
  BY <1>2, <1>3

LEMMA SendLinkInv ==
  ASSUME AInv, NEW e \in Emails, SendLink(e)
  PROVE  AInv'
<1>1. TypeOK'
  BY DEF AInv, TypeOK, SendLink, Mailed
<1>2. \A q \in Requests : RequestOK(request[q])'
  <2> TAKE q \in Requests
  <2>1. Ready(request[q]) => Ready(request[q])'
    BY DEF SendLink, Ready
  <2> QED
    BY <2>1 DEF AInv, SendLink, RequestOK
<1>3. CodesOK' /\ Founded'
  BY DEF AInv, SendLink, Mailed, CodesOK, CodeLetsInOnce, LetIn, Founded
<1>4. RolesOK'
  <2>1. \A f \in Emails : /\ Recorded(f)' <=> Recorded(f)
                          /\ \A q \in Requests : PendingBy(request[q], f)' <=> PendingBy(request[q], f)
    BY DEF SendLink, Recorded, PendingBy
  <2> QED
    BY <2>1 DEF AInv, RolesOK, SendLink, FirstRole
<1> QED
  BY <1>1, <1>2, <1>3, <1>4 DEF AInv

LEMMA SocialCallbackInv ==
  ASSUME AInv, NEW q \in Requests, NEW k \in Codes, SocialCallback(q, k)
  PROVE  AInv'
<1> USE DEF SocialCallback, Begin, At
<1>1. PICK g : g = [Idle EXCEPT !.pc = "exchange", !.user = Owner[k], !.code = k]
  OBVIOUS
<1>2. g \in RequestStates /\ g.pc = "exchange" /\ g.code = k /\ g.tries = 0
  BY <1>1, IdleType DEF RequestStates, Steps
<1>3. RequestOK(g)'
  BY <1>2 DEF RequestOK, MaxTries
<1>4. request' = [request EXCEPT ![q] = g]
  BY <1>1
<1>5. asked' \subseteq Emails \X Columns \X (Passwords \cup BOOLEAN) /\ asked \subseteq asked'
  BY DEF AInv, TypeOK
<1> QED
  BY <1>2, <1>3, <1>4, <1>5, MovedAlone

LEMMA Exchanging ==
  ASSUME AInv, NEW q \in Requests, NEW g \in RequestStates, NEW k \in Codes,
         request[q].pc = "exchange", UNCHANGED <<users, linked, log, asked>>,
         request' = [request EXCEPT ![q] = g], g.code = k,
         \/ spent' = spent
         \/ spent' = spent \cup {k},
         \/ g.pc = "exchange" /\ g.tries < MaxTries
         \/ g.pc = "refused"
         \/ g.pc = "profile" /\ k \notin spent /\ spent' = spent \cup {k}
  PROVE  AInv'
<1>t. TypeOK
  BY DEF AInv
<1>1. RequestOK(g)'
  BY DEF RequestOK
<1>2. Grows
  BY <1>t DEF Grows, TypeOK
<1>3. RolesOK'
  BY RolesStill
<1>4. g.code # NoCode /\ g.pc \in {"profile", "insert", "done"} =>
        g.code \in spent' /\ g.code \notin spent
  OBVIOUS
<1> QED
  BY <1>1, <1>2, <1>3, <1>4, Moved

LEMMA ExchangeInv ==
  ASSUME AInv, NEW q \in Requests, Exchange(q)
  PROVE  AInv'
<1>1. PICK k : k = request[q].code
  OBVIOUS
<1>t. /\ TypeOK /\ request[q] \in RequestStates /\ request[q].pc = "exchange"
      /\ k \in Codes /\ request[q].tries \in 0 .. MaxTries
  BY <1>1, Request DEF Exchange, At, RequestOK
<1>u. UNCHANGED <<users, linked, log, asked>>
  BY DEF Exchange
<1>2. CASE k \in spent /\ Goto(q, "refused") /\ UNCHANGED spent
  <2>1. UNCHANGED <<users, linked, spent, log, asked>>
    BY <1>2 DEF Exchange
  <2> QED
    BY <1>2, <2>1, <1>t, Going DEF AllPcs, Ends
<1>4. CASE k \notin spent /\ Goto(q, "profile") /\ spent' = spent \cup {k}
  <2>1. PICK g \in RequestStates : /\ request' = [request EXCEPT ![q] = g]
                                   /\ g = [request[q] EXCEPT !.pc = "profile"]
    BY <1>4, GotoState DEF AllPcs, Steps
  <2>2. g.code = k /\ g.pc = "profile"
    BY <2>1, <1>1, <1>t DEF RequestStates
  <2> QED
    BY <1>4, <1>1, <1>t, <1>u, <2>1, <2>2, Exchanging
<1>5. CASE LostAnswer(q, k)
  <2>1. PICK pc : pc = IF request[q].tries + 1 < MaxTries THEN "exchange" ELSE "refused"
    OBVIOUS
  <2>2. PICK g : g = [request[q] EXCEPT !.tries = @ + 1, !.pc = pc]
    OBVIOUS
  <2>3. pc \in {"exchange", "refused"}
    BY <2>1
  <2>4. request[q].tries < MaxTries
    BY <1>t, Request DEF RequestOK
  <2>5. PICK i : i = request[q].tries + 1
    OBVIOUS
  <2>6. g \in RequestStates /\ g.code = k /\ g.pc = pc /\ g.tries = request[q].tries + 1
    <3>1. i \in 0 .. MaxTries
      BY <1>t, <2>4, <2>5 DEF MaxTries
    <3>2. g = [request[q] EXCEPT !.tries = i, !.pc = pc]
      BY <1>t, <2>2, <2>5 DEF RequestStates
    <3>3. pc \in AllPcs
      BY <2>3 DEF AllPcs, Steps, Ends
    <3>4. g \in RequestStates
      BY <1>t, <3>1, <3>2, <3>3 DEF RequestStates, AllPcs
    <3> QED
      BY <1>1, <1>t, <2>5, <3>2, <3>4 DEF RequestStates
  <2>7. request' = [request EXCEPT ![q] = g]
    BY <1>5, <2>1, <2>2 DEF LostAnswer
  <2> QED
    <3>1. spent' = spent \/ spent' = spent \cup {k}
      BY <1>5 DEF LostAnswer
    <3>2. (g.pc = "exchange" /\ g.tries < MaxTries) \/ g.pc = "refused"
      BY <2>1, <2>6
    <3> QED
      BY <3>1, <3>2, <1>t, <1>u, <2>6, <2>7, Exchanging
<1> QED
  BY <1>1, <1>2, <1>4, <1>5 DEF Exchange

LEMMA ProfileInv ==
  ASSUME AInv, NEW q \in Requests, NEW n \in Names, Profile(q, n)
  PROVE  AInv'
<1>t. /\ TypeOK /\ request[q] \in RequestStates /\ request[q].pc = "profile"
      /\ request[q].code # NoCode /\ LetIn(q)
  BY Request DEF Profile, At, RequestOK, LetIn
<1>1. CASE users[request[q].user].stored
  BY <1>t, <1>1, Going DEF Profile, AllPcs, Ends
<1>2. CASE ~users[request[q].user].stored
  <2>1. PICK row : row = NewRow(n, NoPassword, TRUE)
    OBVIOUS
  <2>2. PICK g : g = [request[q] EXCEPT !.pc = "insert", !.assigned = row]
    OBVIOUS
  <2>3. row \in Rows
    BY <2>1, NewRowType
  <2>4. g \in RequestStates /\ g.pc = "insert" /\ g.assigned = row /\ g.code = request[q].code
    BY <2>2, <2>3, <1>t DEF RequestStates, Steps
  <2>5. \E m \in Names, x \in Passwords \cup {NoPassword} :
          g.assigned = NewRow(m, x, x = NoPassword)
    <3>1. NewRow(n, NoPassword, TRUE) = NewRow(n, NoPassword, NoPassword = NoPassword)
      OBVIOUS
    <3> QED
      BY <2>1, <2>4, <3>1
  <2>6. RequestOK(g)'
    BY <2>4, <2>5 DEF RequestOK
  <2>7. request' = [request EXCEPT ![q] = g] /\ UNCHANGED <<users, linked, spent, log, asked>>
    BY <1>2, <2>1, <2>2 DEF Profile
  <2>8. asked' \subseteq Emails \X Columns \X (Passwords \cup BOOLEAN) /\ asked \subseteq asked'
    BY <2>7, <1>t DEF TypeOK
  <2> QED
    BY <2>4, <2>6, <2>7, <2>8, <1>t, MovedAlone
<1> QED
  BY <1>1, <1>2

LEMMA ChangeInv ==
  ASSUME AInv, NEW q \in Requests, NEW e \in Emails, NEW c \in Columns \ {"admin"},
         NEW v \in Values, Fits(c, v), Change(q, e, c, v)
  PROVE  AInv'
<1> USE DEF Change, Begin, At
<1>1. PICK row : row = users[e]
  OBVIOUS
<1>2. PICK new : new = Assign(row, c, v)
  OBVIOUS
<1>3. PICK g : g = [Idle EXCEPT !.pc = "write", !.user = e, !.sets = c, !.loaded = row,
                                !.assigned = new]
  OBVIOUS
<1>4. row \in Rows /\ row.stored
  BY <1>1, Request
<1>5. new \in Rows
  BY <1>2, <1>4, AssignType
<1>6. /\ g \in RequestStates /\ g.pc = "write" /\ g.user = e /\ g.sets = c /\ g.loaded = row
      /\ g.assigned = new /\ g.code = NoCode /\ g.actor = NoUser
  BY <1>3, <1>4, <1>5, IdleType DEF RequestStates, Steps
<1>7. request' = [request EXCEPT ![q] = g]
  BY <1>1, <1>2, <1>3
<1>8. asked' = asked \cup {<<e, c, v>>} /\ UNCHANGED <<users, linked, spent, log>>
  OBVIOUS
<1>9. RequestOK(g)'
  <2>1. Ready(g)'
    BY <1>2, <1>6, <1>8 DEF Ready, Values
  <2>2. users'[g.user].stored
    BY <1>4, <1>1, <1>6, <1>8
  <2> QED
    BY <2>1, <2>2, <1>6 DEF RequestOK
<1>10. asked' \subseteq Emails \X Columns \X (Passwords \cup BOOLEAN) /\ asked \subseteq asked'
  BY <1>8 DEF AInv, TypeOK, Values
<1> QED
  BY <1>6, <1>7, <1>8, <1>9, <1>10, MovedAlone

LEMMA UpdateUserInv ==
  ASSUME AInv, NEW q \in Requests, NEW a \in Emails, NEW e \in Emails,
         NEW c \in Columns \ {"password"}, NEW v \in BOOLEAN, UpdateUser(q, a, e, c, v)
  PROVE  AInv'
<1> USE DEF UpdateUser, InCharge, Begin, At
<1>1. PICK row : row = users[a]
  OBVIOUS
<1>2. PICK new : new = Assign(row, c, v)
  OBVIOUS
<1>3. PICK g : g = [Idle EXCEPT !.pc = "load", !.user = e, !.actor = a, !.sets = c,
                                !.loaded = row, !.assigned = new]
  OBVIOUS
<1>4. row \in Rows
  BY <1>1, Request
<1>5. new \in Rows /\ Value(new, c) = v
  <2>1. Fits(c, v)
    BY DEF Fits
  <2>2. new \in Rows
    BY <2>1, <1>2, <1>4, AssignType
  <2>3. CASE c = "verified"
    BY <2>2, <2>3, <1>2, <1>4 DEF Assign, Value, Rows
  <2>4. CASE c = "active"
    BY <2>2, <2>4, <1>2, <1>4 DEF Assign, Value, Rows
  <2>5. CASE c = "admin"
    BY <2>2, <2>5, <1>2, <1>4 DEF Assign, Value, Rows
  <2> QED
    BY <2>2, <2>3, <2>4, <2>5 DEF Columns
<1>6. /\ g \in RequestStates /\ g.pc = "load" /\ g.user = e /\ g.sets = c
      /\ g.assigned = new /\ g.code = NoCode /\ g.actor = a
  BY <1>3, <1>4, <1>5, IdleType DEF RequestStates, Steps
<1>7. request' = [request EXCEPT ![q] = g]
  BY <1>1, <1>2, <1>3
<1>8. asked' = asked \cup {<<e, c, v>>} /\ UNCHANGED <<users, linked, spent, log>>
  OBVIOUS
<1>9. RequestOK(g)'
  <2>1. (<<g.user, g.sets, Value(g.assigned, g.sets)>> \in asked)'
    BY <1>5, <1>6, <1>8
  <2> QED
    BY <2>1, <1>6 DEF RequestOK
<1>10. asked' \subseteq Emails \X Columns \X (Passwords \cup BOOLEAN) /\ asked \subseteq asked'
  BY <1>8 DEF AInv, TypeOK
<1> QED
  BY <1>6, <1>7, <1>8, <1>9, <1>10, MovedAlone

LEMMA LoadInv ==
  ASSUME AInv, NEW q \in Requests, Load(q)
  PROVE  AInv'
<1>1. PICK r : r = request[q]
  OBVIOUS
<1>t. /\ TypeOK /\ r \in RequestStates /\ r.pc = "load" /\ r.user \in Emails
      /\ r.sets \in Columns \ {"password"} /\ r.actor # NoUser /\ r.code = NoCode
      /\ <<r.user, r.sets, Value(r.assigned, r.sets)>> \in asked
      /\ r.loaded \in Rows /\ r.assigned \in Rows /\ users[r.user] \in Rows
  BY <1>1, Request DEF Load, At, RequestOK
<1>u. UNCHANGED <<users, linked, spent, log, asked>>
  BY DEF Load
<1>2. CASE ~users[r.user].stored
  <2>1. Goto(q, "failed")
    BY <1>1, <1>2 DEF Load
  <2> QED
    BY <2>1, <1>1, <1>t, <1>u, Going DEF AllPcs, Ends
<1>3. CASE users[r.user].stored
  <2>1. PICK row : row = IF r.user = r.actor THEN r.loaded ELSE users[r.user]
    OBVIOUS
  <2>2. PICK v : v = Value(r.assigned, r.sets)
    OBVIOUS
  <2>3. PICK new : new = Assign(row, r.sets, v)
    OBVIOUS
  <2>4. PICK g : g = [r EXCEPT !.pc = "write", !.loaded = row, !.assigned = new]
    OBVIOUS
  <2>5. row \in Rows /\ new \in Rows /\ v \in BOOLEAN
    BY <2>1, <2>2, <2>3, <1>t, ValueType, AssignType
  <2>6. /\ g \in RequestStates /\ g.pc = "write" /\ g.user = r.user /\ g.sets = r.sets
        /\ g.loaded = row /\ g.assigned = new /\ g.code = NoCode /\ g.actor = r.actor
    BY <2>4, <2>5, <1>t DEF RequestStates, Steps
  <2>7. request' = [request EXCEPT ![q] = g]
    BY <2>1, <2>2, <2>3, <2>4, <1>1, <1>3 DEF Load
  <2>8. RequestOK(g)'
    <3>1. Ready(g)'
      BY <2>2, <2>3, <2>5, <2>6, <1>t, <1>u DEF Ready
    <3>2. users'[g.user].stored
      BY <1>3, <2>6, <1>u
    <3> QED
      BY <3>1, <3>2, <2>6, <1>t DEF RequestOK
  <2>9. asked' \subseteq Emails \X Columns \X (Passwords \cup BOOLEAN) /\ asked \subseteq asked'
    BY <1>t, <1>u DEF TypeOK
  <2> QED
    BY <2>6, <2>7, <2>8, <2>9, <1>1, <1>t, <1>u, MovedAlone
<1> QED
  BY <1>2, <1>3

\* The commit writes the column the request is about, or nothing.
LEMMA FlushOne ==
  ASSUME NEW r \in RequestStates, NEW row \in Rows, NEW v,
         r.assigned = Assign(r.loaded, r.sets, v)
  PROVE  /\ Flush(r, row) = row \/ Flush(r, row) = Assign(row, r.sets, v)
         /\ Flush(r, row).admin = IF r.sets = "admin" /\ r.loaded.admin # r.assigned.admin
                                  THEN r.assigned.admin ELSE row.admin
<1>t. r.sets \in Columns /\ r.loaded \in Rows /\ r.assigned \in Rows
  BY DEF RequestStates
<1>1. CASE r.sets = "password"
  <2>1. /\ r.assigned.verified = r.loaded.verified /\ r.assigned.active = r.loaded.active
        /\ r.assigned.admin = r.loaded.admin /\ r.assigned.password = v
    BY <1>1, <1>t DEF Assign, Rows
  <2> QED
    BY <2>1, <1>1 DEF Flush, Keep, Assign, Rows
<1>2. CASE r.sets = "verified"
  <2>1. /\ r.assigned.active = r.loaded.active /\ r.assigned.admin = r.loaded.admin
        /\ r.assigned.verified = v
    BY <1>2, <1>t DEF Assign, Rows
  <2> QED
    BY <2>1, <1>2 DEF Flush, Keep, Assign, Rows
<1>3. CASE r.sets = "active"
  <2>1. /\ r.assigned.verified = r.loaded.verified /\ r.assigned.admin = r.loaded.admin
        /\ r.assigned.active = v
    BY <1>3, <1>t DEF Assign, Rows
  <2> QED
    BY <2>1, <1>3 DEF Flush, Keep, Assign, Rows
<1>4. CASE r.sets = "admin"
  <2>1. /\ r.assigned.verified = r.loaded.verified /\ r.assigned.active = r.loaded.active
        /\ r.assigned.admin = v
    BY <1>4, <1>t DEF Assign, Rows
  <2> QED
    BY <2>1, <1>4 DEF Flush, Keep, Assign, Rows
<1> QED
  BY <1>1, <1>2, <1>3, <1>4, <1>t DEF Columns

\* What a commit does to the row.
LEMMA WriteRow ==
  ASSUME AInv, NEW q \in Requests, Write(q)
  PROVE  \E v \in Passwords \cup BOOLEAN :
           LET r == request[q]
               row == users[r.user]
           IN /\ <<r.user, r.sets, v>> \in asked
              /\ row.stored
              /\ Flush(r, row) = row \/ Flush(r, row) = Assign(row, r.sets, v)
              /\ Flush(r, row) \in Rows
              /\ Flush(r, row).stored
              /\ Flush(r, row).admin = IF r.sets = "admin" /\ r.loaded.admin # r.assigned.admin
                                       THEN r.assigned.admin ELSE row.admin
<1>1. PICK r : r = request[q]
  OBVIOUS
<1>2. PICK row : row = users[r.user]
  OBVIOUS
<1>3. /\ r \in RequestStates /\ r.sets \in Columns /\ row \in Rows /\ row.stored
      /\ r.loaded \in Rows /\ r.assigned \in Rows /\ Ready(r)
  BY <1>1, <1>2, Request DEF Write, At, RequestOK
<1>4. PICK v \in Passwords \cup BOOLEAN : /\ <<r.user, r.sets, v>> \in asked
                                         /\ r.assigned = Assign(r.loaded, r.sets, v)
  BY <1>3 DEF Ready
<1>5. /\ Flush(r, row) = row \/ Flush(r, row) = Assign(row, r.sets, v)
      /\ Flush(r, row).admin = IF r.sets = "admin" /\ r.loaded.admin # r.assigned.admin
                               THEN r.assigned.admin ELSE row.admin
  BY <1>3, <1>4, FlushOne
<1>6. Flush(r, row) \in Rows /\ Flush(r, row).stored
  BY <1>3, FlushType
<1> QED
  BY <1>1, <1>2, <1>3, <1>4, <1>5, <1>6

\* A role nobody changes stays explained by whoever explained it.
LEMMA RoleStill ==
  ASSUME AInv, NEW q \in Requests, NEW g \in RequestStates,
         request' = [request EXCEPT ![q] = g],
         request[q].pc \notin {"reread", "log", "unlogged"}, log' = log,
         NEW e \in Emails, users[e].stored, users'[e].admin = users[e].admin,
         users[e].admin # FirstRole(e)
  PROVE  Recorded(e)' \/ \E p \in Requests : PendingBy(request[p], e)'
<1>1. Recorded(e) \/ \E p \in Requests : PendingBy(request[p], e)
  BY DEF AInv, RolesOK
<1>2. Recorded(e) => Recorded(e)'
  BY DEF Recorded
<1>3. ASSUME NEW p \in Requests, PendingBy(request[p], e) PROVE PendingBy(request[p], e)'
  <2>1. request'[p] = request[p]
    BY <1>3 DEF PendingBy, AInv, TypeOK
  <2> QED
    BY <2>1, <1>3 DEF PendingBy
<1> QED
  BY <1>1, <1>2, <1>3

LEMMA WriteInv ==
  ASSUME AInv, NEW q \in Requests, Write(q)
  PROVE  AInv'
<1>1. PICK r : r = request[q]
  OBVIOUS
<1>2. PICK row : row = users[r.user]
  OBVIOUS
<1>3. PICK f : f = Flush(r, row)
  OBVIOUS
<1>t. /\ TypeOK /\ r \in RequestStates /\ r.user \in Emails /\ row \in Rows /\ r.pc = "write"
      /\ r.code = NoCode /\ RequestOK(r)
  BY <1>1, <1>2, Request DEF Write, At, RequestOK
<1>4. /\ row.stored /\ f \in Rows /\ f.stored
      /\ f.admin = IF r.sets = "admin" /\ r.loaded.admin # r.assigned.admin
                   THEN r.assigned.admin ELSE row.admin
  BY <1>1, <1>2, <1>3, WriteRow
<1>5. users' = [users EXCEPT ![r.user] = f] /\ UNCHANGED <<linked, spent, log, asked>>
  BY <1>1, <1>2, <1>3, <1>t DEF Write, TypeOK
<1>6. PICK pc : pc = IF r.actor = NoUser THEN "done" ELSE "reread"
  OBVIOUS
<1>7. Goto(q, pc) /\ pc \in AllPcs
  BY <1>1, <1>6 DEF Write, AllPcs, Steps, Ends
<1>8. PICK g \in RequestStates : /\ request' = [request EXCEPT ![q] = g]
                                 /\ g = [request[q] EXCEPT !.pc = pc]
  BY <1>7, GotoState
<1>9. /\ g.pc = pc /\ g.code = NoCode /\ g.user = r.user /\ g.sets = r.sets
      /\ g.loaded = r.loaded /\ g.actor = r.actor
  BY <1>1, <1>8, <1>t DEF RequestStates
<1>10. RequestOK(g)'
  BY <1>6, <1>9, <1>t DEF RequestOK
<1>11. Grows
  BY <1>2, <1>4, <1>5, <1>t DEF Grows, TypeOK
<1>12. RolesOK'
  <2> SUFFICES ASSUME NEW e \in Emails, users'[e].stored, users'[e].admin # FirstRole(e)
               PROVE  Recorded(e)' \/ \E p \in Requests : PendingBy(request[p], e)'
    BY DEF RolesOK, FirstRole
  <2>1. users[e].stored
    BY <1>2, <1>4, <1>5, <1>t DEF TypeOK
  <2>2. CASE users'[e].admin = users[e].admin
    BY <2>1, <2>2, <1>1, <1>5, <1>8, <1>t, RoleStill
  <2>3. CASE users'[e].admin # users[e].admin
    <3>1. e = r.user
      BY <2>3, <1>5, <1>t DEF TypeOK
    <3>2. users'[e] = f
      BY <3>1, <1>5, <1>t DEF TypeOK
    <3>3. r.sets = "admin" /\ r.loaded.admin # f.admin
      BY <2>3, <3>1, <3>2, <1>2, <1>4
    <3>4. g.pc = "reread"
      BY <3>3, <1>6, <1>9, <1>t DEF RequestOK
    <3>5. request'[q] = g
      BY <1>8, <1>t DEF TypeOK
    <3>6. PendingBy(request[q], e)'
      BY <3>1, <3>2, <3>3, <3>4, <3>5, <1>9 DEF PendingBy
    <3> QED
      BY <3>6
  <2> QED
    BY <2>2, <2>3
<1> QED
  BY <1>8, <1>9, <1>10, <1>11, <1>12, Moved

\* What is left of an update after its commit.
LEMMA Recording ==
  ASSUME AInv, NEW q \in Requests, NEW g \in RequestStates,
         request' = [request EXCEPT ![q] = g],
         UNCHANGED <<users, linked, spent, asked>>, log \subseteq log', log' \subseteq Entries,
         request[q].pc \in {"reread", "log"}, g.code = NoCode, RequestOK(g)',
         \A e \in Emails : PendingBy(request[q], e) => PendingBy(g, e) \/ Recorded(e)'
  PROVE  AInv'
<1>t. TypeOK
  BY DEF AInv
<1>1. Grows
  BY <1>t DEF Grows, TypeOK
<1>2. request'[q] = g
  BY <1>t DEF TypeOK
<1>3. RolesOK'
  <2> SUFFICES ASSUME NEW e \in Emails, users'[e].stored, users'[e].admin # FirstRole(e)
               PROVE  Recorded(e)' \/ \E p \in Requests : PendingBy(request[p], e)'
    BY DEF RolesOK, FirstRole
  <2>1. Recorded(e) => Recorded(e)'
    BY DEF Recorded
  <2>2. Recorded(e) \/ \E p \in Requests : PendingBy(request[p], e)
    BY DEF AInv, RolesOK
  <2>3. ASSUME NEW p \in Requests, p # q, PendingBy(request[p], e)
        PROVE  PendingBy(request[p], e)'
    <3>1. request'[p] = request[p]
      BY <2>3, <1>t DEF TypeOK
    <3> QED
      BY <3>1, <2>3 DEF PendingBy
  <2>4. PendingBy(g, e) => PendingBy(request[q], e)'
    BY <1>2 DEF PendingBy
  <2> QED
    BY <2>1, <2>2, <2>3, <2>4
<1> QED
  BY <1>1, <1>3, Moved

LEMMA RereadInv ==
  ASSUME AInv, NEW q \in Requests, Reread(q)
  PROVE  AInv'
<1>1. PICK r : r = request[q]
  OBVIOUS
<1>2. PICK row : row = users[r.user]
  OBVIOUS
<1>t. /\ TypeOK /\ r \in RequestStates /\ r.user \in Emails /\ row \in Rows /\ r.pc = "reread"
      /\ r.code = NoCode /\ r.actor # NoUser /\ r.sets # "password"
  BY <1>1, <1>2, Request DEF Reread, At, RequestOK
<1>3. PICK g : g = [r EXCEPT !.pc = "log", !.assigned = row]
  OBVIOUS
<1>4. /\ g \in RequestStates /\ g.pc = "log" /\ g.code = NoCode /\ g.user = r.user
      /\ g.sets = r.sets /\ g.loaded = r.loaded /\ g.assigned = row /\ g.actor = r.actor
  BY <1>3, <1>t DEF RequestStates, Steps
<1>5. request' = [request EXCEPT ![q] = g] /\ UNCHANGED <<users, linked, spent, log, asked>>
  BY <1>1, <1>2, <1>3 DEF Reread
<1>6. RequestOK(g)'
  BY <1>4, <1>t DEF RequestOK
<1>7. \A e \in Emails : PendingBy(request[q], e) => PendingBy(g, e)
  BY <1>1, <1>2, <1>4, <1>t DEF PendingBy
<1>8. log' \subseteq Entries /\ log \subseteq log'
  BY <1>5, <1>t DEF TypeOK
<1> QED
  BY <1>1, <1>4, <1>5, <1>6, <1>7, <1>8, <1>t, Recording

LEMMA LogInv ==
  ASSUME AInv, NEW q \in Requests, Log(q)
  PROVE  AInv'
<1>1. PICK r : r = request[q]
  OBVIOUS
<1>t. /\ TypeOK /\ r \in RequestStates /\ r.user \in Emails /\ r.pc = "log"
      /\ r.code = NoCode /\ r.actor \in Emails /\ r.sets \in Columns \ {"password"}
      /\ r.loaded \in Rows /\ r.assigned \in Rows
  BY <1>1, Request DEF Log, At, RequestOK
<1>2. PICK x : x = [admin |-> r.actor, user |-> r.user, column |-> r.sets,
                    before |-> Value(r.loaded, r.sets), after |-> Value(r.assigned, r.sets)]
  OBVIOUS
<1>3. x \in Entries
  BY <1>2, <1>t, ValueType DEF Entries
<1>4. log' = log \cup {x} /\ Goto(q, "done") /\ UNCHANGED <<users, linked, spent, asked>>
  BY <1>1, <1>2 DEF Log
<1>5. PICK g \in RequestStates : /\ request' = [request EXCEPT ![q] = g]
                                 /\ g = [request[q] EXCEPT !.pc = "done"]
  BY <1>4, GotoState DEF AllPcs, Ends
<1>6. g.pc = "done" /\ g.code = NoCode
  BY <1>1, <1>5, <1>t DEF RequestStates
<1>7. RequestOK(g)'
  BY <1>6 DEF RequestOK
<1>8. ASSUME NEW e \in Emails, PendingBy(request[q], e) PROVE Recorded(e)'
  <2>1. /\ r.user = e /\ r.sets = "admin" /\ r.loaded.admin # r.assigned.admin
        /\ r.assigned.admin = users[e].admin
    BY <1>8, <1>1, <1>t DEF PendingBy
  <2>2. /\ x.user = e /\ x.column = "admin" /\ x.before = r.loaded.admin
        /\ x.after = r.assigned.admin
    BY <2>1, <1>2 DEF Value
  <2>3. x \in log' /\ users'[e].admin = users[e].admin
    BY <1>4
  <2>4. \E y \in log' : /\ y.user = e /\ y.column = "admin"
                        /\ y.before # y.after /\ y.after = users'[e].admin
    BY <2>1, <2>2, <2>3
  <2> QED
    BY <2>4 DEF Recorded
<1>9. log' \subseteq Entries /\ log \subseteq log'
  BY <1>3, <1>4, <1>t DEF TypeOK
<1> QED
  BY <1>1, <1>4, <1>5, <1>6, <1>7, <1>8, <1>9, <1>t, Recording

LEMMA FailInv ==
  ASSUME AInv, NEW q \in Requests, Fail(q)
  PROVE  AInv'
<1>t. TypeOK /\ RequestOK(request[q]) /\ request[q] \in RequestStates
  BY Request
<1>u. request[q].pc \in Steps /\ UNCHANGED <<users, linked, spent, log, asked>>
  BY DEF Fail
<1>1. CASE request[q].pc \notin {"reread", "log"}
  <2>1. Goto(q, "failed")
    BY <1>1 DEF Fail
  <2> QED
    BY <2>1, <1>1, <1>u, Going DEF AllPcs, Ends, Steps
<1>2. CASE request[q].pc \in {"reread", "log"}
  <2>1. Goto(q, "unlogged")
    BY <1>2 DEF Fail
  <2>2. PICK g \in RequestStates : /\ request' = [request EXCEPT ![q] = g]
                                   /\ g = [request[q] EXCEPT !.pc = "unlogged"]
    BY <2>1, GotoState DEF AllPcs, Ends
  <2>3. /\ g.pc = "unlogged" /\ g.code = NoCode /\ g.user = request[q].user
        /\ g.sets = request[q].sets
    BY <2>2, <1>2, <1>t DEF RequestStates, RequestOK
  <2>4. RequestOK(g)'
    BY <2>3 DEF RequestOK
  <2>5. \A e \in Emails : PendingBy(request[q], e) => PendingBy(g, e)
    BY <2>3 DEF PendingBy
  <2>6. log' \subseteq Entries /\ log \subseteq log'
    BY <1>t, <1>u DEF TypeOK
  <2> QED
    BY <2>2, <2>3, <2>4, <2>5, <2>6, <1>2, <1>u, Recording
<1> QED
  BY <1>1, <1>2

-----------------------------------------------------------------------------
(* The invariant, and what follows from it.                                *)

LEMMA StartInv ==
  ASSUME AInv, NEW q \in Requests, Start(q)
  PROVE  AInv'
<1>1. PICK e \in Emails :
        \/ \E p \in Passwords :
             \/ \E n \in Names : Register(q, e, n, p)
             \/ NewPassword(q, e, p)
             \/ \E old \in Passwords : ChangePassword(q, e, old, p)
        \/ ValidateUser(q, e)
        \/ DeactivateUser(q, e)
        \/ \E a \in Emails, c \in Columns \ {"password"}, v \in BOOLEAN :
             UpdateUser(q, a, e, c, v)
  BY DEF Start, UpdateAny
<1>2. ASSUME NEW p \in Passwords, NEW n \in Names, Register(q, e, n, p) PROVE AInv'
  BY <1>2, RegisterInv
<1>3. ASSUME NEW p \in Passwords, Change(q, e, "password", p) PROVE AInv'
  <2>1. "password" \in Columns \ {"admin"} /\ p \in Values /\ Fits("password", p)
    BY DEF Columns, Values, Fits
  <2> QED
    BY <2>1, <1>3, ChangeInv
<1>4. ASSUME ValidateUser(q, e) PROVE AInv'
  <2>1. "verified" \in Columns \ {"admin"} /\ TRUE \in Values /\ Fits("verified", TRUE)
    BY DEF Columns, Values, Fits
  <2>2. Change(q, e, "verified", TRUE)
    BY <1>4 DEF ValidateUser
  <2> QED
    BY <2>1, <2>2, ChangeInv
<1>5. ASSUME DeactivateUser(q, e) PROVE AInv'
  <2>1. "active" \in Columns \ {"admin"} /\ FALSE \in Values /\ Fits("active", FALSE)
    BY DEF Columns, Values, Fits
  <2>2. Change(q, e, "active", FALSE)
    BY <1>5 DEF DeactivateUser
  <2> QED
    BY <2>1, <2>2, ChangeInv
<1>6. ASSUME NEW a \in Emails, NEW c \in Columns \ {"password"}, NEW v \in BOOLEAN,
             UpdateUser(q, a, e, c, v)
      PROVE AInv'
  BY <1>6, UpdateUserInv
<1> QED
  BY <1>1, <1>2, <1>3, <1>4, <1>5, <1>6 DEF NewPassword, ChangePassword

LEMMA AStep == AInv /\ [Next]_vars => AInv'
<1> SUFFICES ASSUME AInv, [Next]_vars PROVE AInv'
  OBVIOUS
<1>1. ASSUME NEW e \in Emails, SendLink(e) PROVE AInv'
  BY <1>1, SendLinkInv
<1>2. ASSUME NEW q \in Requests, Start(q) PROVE AInv'
  BY <1>2, StartInv
<1>3. ASSUME NEW q \in Requests, NEW k \in Codes, SocialCallback(q, k) PROVE AInv'
  BY <1>3, SocialCallbackInv
<1>4. ASSUME NEW q \in Requests, Proceed(q) PROVE AInv'
  BY <1>4, CheckNameInv, InsertInv, ExchangeInv, ProfileInv, LoadInv, WriteInv, RereadInv,
     LogInv DEF Proceed
<1>5. ASSUME NEW q \in Requests, Fail(q) PROVE AInv'
  BY <1>5, FailInv
<1>6. CASE UNCHANGED vars
  <2> USE <1>6 DEF vars
  <2>1. TypeOK' /\ CodesOK' /\ Founded'
    BY DEF AInv, TypeOK, CodesOK, CodeLetsInOnce, LetIn, Founded
  <2>2. \A q \in Requests : RequestOK(request[q])'
    BY DEF AInv, RequestOK, Ready
  <2>3. RolesOK'
    BY DEF AInv, RolesOK, Recorded, PendingBy, FirstRole
  <2> QED
    BY <2>1, <2>2, <2>3 DEF AInv
<1> QED
  BY <1>1, <1>2, <1>3, <1>4, <1>5, <1>6 DEF Next

LEMMA AlwaysAInv == Spec => []AInv
BY InitInv, AStep, PTL DEF Spec

\* Every reachable state is well typed: rows keep their columns' types, and a
\* request tries a code at most MaxTries times.
THEOREM TypeCorrect == Spec => []TypeOK
<1>1. AInv => TypeOK
  BY DEF AInv
<1> QED
  BY <1>1, AlwaysAInv, PTL

\* The audit log accounts for every role that was changed, however many
\* administrators change it at once (admin/services.py).
THEOREM RolesExplained == Spec => []RoleExplained
<1>1. AInv => RoleExplained
  <2>1. \A q \in Requests, e \in Emails :
          PendingBy(request[q], e) =>
            /\ request[q].user = e /\ request[q].sets = "admin"
            /\ request[q].pc \in {"reread", "log", "unlogged"}
    BY DEF PendingBy
  <2> QED
    BY <2>1 DEF AInv, RolesOK, RoleExplained, Unrecorded
<1> QED
  BY <1>1, AlwaysAInv, PTL

\* A provider's code lets in one callback (auth/utils.py), for any number of
\* callbacks and lost answers.
THEOREM CodesLetInOnce == Spec => []CodeLetsInOnce
<1>1. AInv => CodeLetsInOnce
  BY DEF AInv, CodesOK
<1> QED
  BY <1>1, AlwaysAInv, PTL

-----------------------------------------------------------------------------
(* The rules of accounts.                                                  *)

LEMMA AskRule ==
  ASSUME NEW e \in Emails, NEW c \in Columns, NEW v \in Passwords \cup BOOLEAN,
         asked' = asked \cup {<<e, c, v>>}, UNCHANGED <<users, linked>>,
         \/ c = "password" /\ v \in Passwords /\ (e \in linked \/ InUse(users[e]))
         \/ c = "verified" /\ v = TRUE /\ (e \in linked \/ Rules!Ruled)
         \/ c = "active" /\ v \in BOOLEAN /\ ((~v /\ InUse(users[e])) \/ Rules!Ruled)
         \/ c = "admin" /\ v \in BOOLEAN /\ Rules!Ruled
  PROVE  Rules!Next
<1>1. Rules!Ask(e, c, v)
  BY DEF Rules!Ask, Rules!InUse, InUse
<1> QED
  BY <1>1 DEF Rules!Next, Rules!Columns, Columns

LEMMA StartRule ==
  ASSUME NEW q \in Requests, Start(q)
  PROVE  Rules!Next \/ UNCHANGED <<users, linked, asked>>
<1>1. PICK e \in Emails :
        \/ \E p \in Passwords :
             \/ \E n \in Names : Register(q, e, n, p)
             \/ NewPassword(q, e, p)
             \/ \E old \in Passwords : ChangePassword(q, e, old, p)
        \/ ValidateUser(q, e)
        \/ DeactivateUser(q, e)
        \/ \E a \in Emails, c \in Columns \ {"password"}, v \in BOOLEAN :
             UpdateUser(q, a, e, c, v)
  BY DEF Start, UpdateAny
<1>2. ASSUME NEW p \in Passwords, NEW n \in Names, Register(q, e, n, p)
      PROVE  UNCHANGED <<users, linked, asked>>
  BY <1>2 DEF Register
<1>3. ASSUME NEW p \in Passwords, NewPassword(q, e, p) PROVE Rules!Next
  BY <1>3, AskRule DEF NewPassword, Change, Columns
<1>4. ASSUME NEW p \in Passwords, NEW old \in Passwords, ChangePassword(q, e, old, p)
      PROVE  Rules!Next
  BY <1>4, AskRule DEF ChangePassword, Change, Columns
<1>5. ASSUME ValidateUser(q, e) PROVE Rules!Next
  BY <1>5, AskRule DEF ValidateUser, Change, Columns
<1>6. ASSUME DeactivateUser(q, e) PROVE Rules!Next
  BY <1>6, AskRule DEF DeactivateUser, Change, Columns
<1>7. ASSUME NEW a \in Emails, NEW c \in Columns \ {"password"}, NEW v \in BOOLEAN,
             UpdateUser(q, a, e, c, v)
      PROVE  Rules!Next
  <2>1. Rules!Ruled
    BY <1>7 DEF UpdateUser, InCharge, InUse, Rules!Ruled, Rules!InCharge, Rules!InUse
  <2>2. c = "verified" => v = TRUE
    BY <1>7 DEF UpdateUser
  <2>3. asked' = asked \cup {<<e, c, v>>} /\ UNCHANGED <<users, linked>>
    BY <1>7 DEF UpdateUser
  <2> QED
    BY <2>1, <2>2, <2>3, AskRule DEF Columns
<1> QED
  BY <1>1, <1>2, <1>3, <1>4, <1>5, <1>6, <1>7

LEMMA InsertRule ==
  ASSUME AInv, NEW q \in Requests, Insert(q)
  PROVE  Rules!Next \/ UNCHANGED <<users, linked, asked>>
<1>1. PICK r : r = request[q]
  OBVIOUS
<1>2. r.user \in Emails /\ r.pc = "insert" /\ RequestOK(r)
  BY <1>1, Request DEF Insert, At
<1>3. CASE UNCHANGED users
  BY <1>3 DEF Insert
<1>4. CASE /\ ~users[r.user].stored /\ ~NameTaken(r.assigned.name)
           /\ users' = [users EXCEPT ![r.user] = r.assigned]
  <2>1. PICK n \in Names, p \in Passwords \cup {NoPassword} :
          r.assigned = NewRow(n, p, p = NoPassword)
    BY <1>2 DEF RequestOK
  <2>2. r.assigned = [stored |-> TRUE, name |-> n, password |-> p, active |-> TRUE,
                      verified |-> (p = NoPassword), admin |-> FALSE]
    BY <2>1 DEF NewRow
  <2>3. \A f \in Emails : users[f].stored => users[f].name # n
    BY <1>4, <2>2 DEF NameTaken
  <2>4. UNCHANGED <<linked, asked>>
    BY DEF Insert
  <2>5. Rules!Open(r.user, n)
    <3>1. p \in Passwords \cup {NoPassword}
      BY <2>1
    <3>2. users' = [users EXCEPT ![r.user] =
                      [stored |-> TRUE, name |-> n, password |-> p, active |-> TRUE,
                       verified |-> (p = NoPassword), admin |-> FALSE]]
      BY <1>4, <2>2
    <3> QED
      BY <1>4, <2>3, <2>4, <3>1, <3>2 DEF Rules!Open
  <2> QED
    BY <1>2, <2>5 DEF Rules!Next
<1> QED
  BY <1>1, <1>3, <1>4 DEF Insert

LEMMA WriteRule ==
  ASSUME AInv, NEW q \in Requests, Write(q)
  PROVE  Rules!Next \/ UNCHANGED <<users, linked, asked>>
<1>1. PICK r : r = request[q]
  OBVIOUS
<1>2. PICK row : row = users[r.user]
  OBVIOUS
<1>3. PICK f : f = Flush(r, row)
  OBVIOUS
<1>t. TypeOK /\ r.user \in Emails /\ r.sets \in Columns /\ row \in Rows
  BY <1>1, <1>2, Request
<1>4. PICK v \in Passwords \cup BOOLEAN :
        /\ <<r.user, r.sets, v>> \in asked /\ row.stored
        /\ f = row \/ f = Assign(row, r.sets, v)
  BY <1>1, <1>2, <1>3, WriteRow
<1>5. users' = [users EXCEPT ![r.user] = f] /\ UNCHANGED <<linked, asked>>
  BY <1>1, <1>2, <1>3, <1>t DEF Write, TypeOK
<1>6. CASE f = row
  BY <1>2, <1>5, <1>6, <1>t DEF TypeOK
<1>7. CASE f = Assign(row, r.sets, v)
  <2>1. f = CASE r.sets = "password" -> [row EXCEPT !.password = v]
              [] r.sets = "verified" -> [row EXCEPT !.verified = v]
              [] r.sets = "active"   -> [row EXCEPT !.active = v]
              [] r.sets = "admin"    -> [row EXCEPT !.admin = v]
    <3>1. CASE r.sets = "password"
      BY <1>7, <3>1, <1>t DEF Assign, Rows
    <3>2. CASE r.sets = "verified"
      BY <1>7, <3>2, <1>t DEF Assign, Rows
    <3>3. CASE r.sets = "active"
      BY <1>7, <3>3, <1>t DEF Assign, Rows
    <3>4. CASE r.sets = "admin"
      BY <1>7, <3>4, <1>t DEF Assign, Rows
    <3> QED
      BY <3>1, <3>2, <3>3, <3>4, <1>t DEF Columns
  <2>2. Rules!Change(r.user, r.sets, v)
    BY <1>2, <1>4, <1>5, <2>1 DEF Rules!Change
  <2> QED
    BY <2>2, <1>t DEF Rules!Next, Rules!Columns, Columns
<1> QED
  BY <1>4, <1>6, <1>7

LEMMA RulesStep == AInv /\ [Next]_vars => [Rules!Next]_<<users, linked, asked>>
<1> SUFFICES ASSUME AInv, [Next]_vars
             PROVE  Rules!Next \/ UNCHANGED <<users, linked, asked>>
  OBVIOUS
<1>1. ASSUME NEW e \in Emails, SendLink(e) PROVE Rules!Next
  BY <1>1 DEF SendLink, Mailed, Rules!Link, Rules!Next
<1>2. ASSUME NEW q \in Requests, Proceed(q)
      PROVE  Rules!Next \/ UNCHANGED <<users, linked, asked>>
  BY <1>2, InsertRule, WriteRule DEF Proceed, CheckName, Exchange, Profile, Load, Reread, Log
<1>3. ASSUME NEW q \in Requests, Fail(q) \/ \E k \in Codes : SocialCallback(q, k)
      PROVE  UNCHANGED <<users, linked, asked>>
  BY <1>3 DEF Fail, SocialCallback
<1>4. CASE UNCHANGED vars
  BY <1>4 DEF vars
<1> QED
  BY <1>1, <1>2, <1>3, <1>4, StartRule DEF Next

\* Accounts are opened once, under a name of their own, and change as somebody
\* entitled to has asked, whatever requests run at once or fail half-way.
THEOREM RulesImplemented == Spec => ImplementsAccountRules
<1>1. Init => Rules!Init(First)
  BY DEF Init, Rules!Init
<1> QED
  BY <1>1, RulesStep, AlwaysAInv, PTL DEF Spec, ImplementsAccountRules, RulesSpec

-----------------------------------------------------------------------------
(* What the rules entail.                                                  *)

\* What a change does to the row.
LEMMA ChangeRow ==
  ASSUME TypeOK, NEW e \in Emails, NEW c \in Columns, NEW v, Rules!Change(e, c, v)
  PROVE  /\ \A f \in Emails : f # e => users'[f] = users[f]
         /\ users[e].stored /\ users'[e].stored
         /\ users'[e].name = users[e].name
         /\ users'[e].active = IF c = "active" THEN v ELSE users[e].active
         /\ users'[e].admin = IF c = "admin" THEN v ELSE users[e].admin
         /\ <<e, c, v>> \in asked /\ asked' = asked
<1>1. users[e] \in Rows /\ users[e].stored
  BY DEF TypeOK, Rules!Change
<1>2. <<e, c, v>> \in asked /\ asked' = asked
  BY DEF Rules!Change
<1>3. \/ c = "password" /\ users'[e] = [users[e] EXCEPT !.password = v]
      \/ c = "verified" /\ users'[e] = [users[e] EXCEPT !.verified = v]
      \/ c = "active" /\ users'[e] = [users[e] EXCEPT !.active = v]
      \/ c = "admin" /\ users'[e] = [users[e] EXCEPT !.admin = v]
  <2>1. CASE c = "password"
    BY <2>1 DEF TypeOK, Rules!Change
  <2>2. CASE c = "verified"
    BY <2>2 DEF TypeOK, Rules!Change
  <2>3. CASE c = "active"
    BY <2>3 DEF TypeOK, Rules!Change
  <2>4. CASE c = "admin"
    BY <2>4 DEF TypeOK, Rules!Change
  <2> QED
    BY <2>1, <2>2, <2>3, <2>4 DEF Columns
<1>4. \A f \in Emails : f # e => users'[f] = users[f]
  BY DEF TypeOK, Rules!Change
<1> QED
  BY <1>1, <1>2, <1>3, <1>4 DEF Rows

\* A name is looked up in one step and taken in another, and yet nobody else
\* has it (auth/service.py, register_user and the social logins).
THEOREM NamesOwned == Spec => []NamesUnique
<1>1. Init => NamesUnique
  BY DEF Init, NamesUnique
<1>2. NamesUnique /\ AInv /\ [Next]_vars => NamesUnique'
  <2> SUFFICES ASSUME NamesUnique, TypeOK, [Rules!Next]_<<users, linked, asked>>
               PROVE  NamesUnique'
    BY RulesStep DEF AInv
  <2>1. CASE UNCHANGED users
    BY <2>1 DEF NamesUnique
  <2>2. ASSUME NEW e \in Emails, NEW n \in Names, Rules!Open(e, n) PROVE NamesUnique'
    <3>1. /\ \A f \in Emails : f # e => users'[f] = users[f]
          /\ users'[e].name = n
          /\ \A f \in Emails : users[f].stored => users[f].name # n
      BY <2>2 DEF Rules!Open, TypeOK
    <3> QED
      BY <3>1 DEF NamesUnique
  <2>3. ASSUME NEW e \in Emails, NEW c \in Columns, NEW v, Rules!Change(e, c, v)
        PROVE  NamesUnique'
    <3>1. /\ \A f \in Emails : f # e => users'[f] = users[f]
          /\ users[e].stored /\ users'[e].name = users[e].name
      BY <2>3, ChangeRow
    <3>2. \A f \in Emails : users'[f].stored => users[f].stored /\ users'[f].name = users[f].name
      BY <3>1
    <3> QED
      BY <3>2 DEF NamesUnique
  <2> QED
    BY <2>1, <2>2, <2>3 DEF Rules!Next, Rules!Link, Rules!Ask, Rules!Columns, Columns
<1> QED
  BY <1>1, <1>2, AlwaysAInv, PTL DEF Spec

LEMMA NoRightsRows ==
  ASSUME NoRights, TypeOK, [Rules!Next]_<<users, linked, asked>>
  PROVE  /\ \A e \in Emails : users'[e].stored => ~users'[e].admin
         /\ \A e \in Emails : users[e].stored /\ ~users[e].active => ~users'[e].active
         /\ \A e \in Emails : /\ <<e, "active", TRUE>> \notin asked'
                              /\ \A v \in Values : <<e, "admin", v>> \notin asked'
<1>n. /\ \A e \in Emails : users[e].stored => ~users[e].admin
      /\ \A e \in Emails : /\ <<e, "active", TRUE>> \notin asked
                           /\ \A v \in Values : <<e, "admin", v>> \notin asked
  BY DEF NoRights, NobodyInCharge, Values
<1>0. ~Rules!Ruled
  BY <1>n DEF Rules!Ruled, Rules!InCharge, Rules!InUse
<1>1. CASE UNCHANGED <<users, asked>>
  BY <1>1, <1>n
<1>2. ASSUME NEW e \in Emails, NEW n \in Names, Rules!Open(e, n)
      PROVE  /\ \A f \in Emails : users'[f].stored => ~users'[f].admin
             /\ \A f \in Emails : users[f].stored /\ ~users[f].active => ~users'[f].active
             /\ asked' = asked
  <2>1. /\ \A f \in Emails : f # e => users'[f] = users[f]
        /\ ~users'[e].admin /\ ~users[e].stored /\ asked' = asked
    BY <1>2 DEF Rules!Open, TypeOK
  <2> QED
    BY <1>n, <2>1
<1>3. ASSUME NEW e \in Emails, NEW c \in Columns, NEW v \in Values, Rules!Ask(e, c, v)
      PROVE  /\ users' = users
             /\ \A f \in Emails : /\ <<f, "active", TRUE>> \notin asked'
                                  /\ \A w \in Values : <<f, "admin", w>> \notin asked'
  <2>1. c # "admin" /\ (c = "active" => v # TRUE)
    BY <1>0, <1>3 DEF Rules!Ask
  <2>2. asked' = asked \cup {<<e, c, v>>} /\ users' = users
    BY <1>3 DEF Rules!Ask
  <2> QED
    BY <1>n, <2>1, <2>2
<1>4. ASSUME NEW e \in Emails, NEW c \in Columns, NEW v \in Values, Rules!Change(e, c, v)
      PROVE  /\ \A f \in Emails : users'[f].stored => ~users'[f].admin
             /\ \A f \in Emails : users[f].stored /\ ~users[f].active => ~users'[f].active
             /\ asked' = asked
  <2>0. <<e, c, v>> \in asked /\ asked' = asked
    BY <1>4, ChangeRow
  <2>2. c # "admin" /\ (c = "active" => v # TRUE)
    BY <1>n, <2>0
  <2> QED
    BY <1>n, <1>4, <2>0, <2>2, ChangeRow
<1> QED
  BY <1>n, <1>1, <1>2, <1>3, <1>4
  DEF Rules!Next, Rules!Link, Rules!Columns, Columns, Values

-----------------------------------------------------------------------------
(* Verified addresses.                                                     *)

\* What a step of one request has to keep for the others.
LEMMA VMoved ==
  ASSUME VInv, AInv', NEW q \in Requests, NEW g \in RequestStates,
         request' = [request EXCEPT ![q] = g],
         VouchedRequest(g)',
         linked \subseteq linked', spent \subseteq spent',
         VerifiedByPanel(request[q]) => VerifiedByPanel(g) /\ g.user = request[q].user,
         \A e \in Emails : users'[e].stored /\ users'[e].verified =>
                             (users[e].stored /\ users[e].verified) \/ Vouched(e)'
  PROVE  VInv'
<1>t. AInv /\ TypeOK /\ VerifiedExplained
  BY DEF VInv, AInv
<1>b. \A p \in Requests : request'[p] = IF p = q THEN g ELSE request[p]
  BY <1>t DEF TypeOK
<1>1. \A p \in Requests : VouchedRequest(request[p])'
  <2> TAKE p \in Requests
  <2>1. CASE p = q
    BY <1>b, <2>1 DEF VouchedRequest
  <2>2. CASE p # q
    BY <1>b, <2>2 DEF VInv, VouchedRequest
  <2> QED
    BY <2>1, <2>2
<1>2. \A e \in Emails : Vouched(e) => Vouched(e)'
  <2> SUFFICES ASSUME NEW e \in Emails, Vouched(e) PROVE Vouched(e)'
    OBVIOUS
  <2>1. CASE \E p \in Requests : request[p].user = e /\ VerifiedByPanel(request[p])
    <3>1. PICK p \in Requests : request[p].user = e /\ VerifiedByPanel(request[p])
      BY <2>1
    <3>2. request'[p].user = e /\ VerifiedByPanel(request[p])'
      BY <1>b, <3>1 DEF VerifiedByPanel
    <3> QED
      BY <3>2 DEF Vouched
  <2> QED
    BY <2>1 DEF Vouched
<1>3. VerifiedExplained'
  BY <1>t, <1>2 DEF VerifiedExplained
<1> QED
  BY <1>1, <1>3 DEF VInv

\* A request that goes to another step and may have had its code exchanged.
LEMMA VGoing ==
  ASSUME VInv, AInv', NEW q \in Requests, NEW pc \in AllPcs, Goto(q, pc),
         UNCHANGED <<users, linked>>, spent \subseteq spent',
         pc \notin {"write", "check_name"},
         pc = "insert" => request[q].pc = "check_name",
         VerifiedByPanel(request[q]) => pc \in {"reread", "log", "unlogged", "done"}
  PROVE  VInv'
<1>1. AInv /\ VouchedRequest(request[q])
  BY DEF VInv
<1>2. PICK g \in RequestStates : /\ request' = [request EXCEPT ![q] = g]
                                 /\ g = [request[q] EXCEPT !.pc = pc]
  BY <1>1, GotoState
<1>3. /\ g.pc = pc /\ g.user = request[q].user /\ g.sets = request[q].sets
      /\ g.actor = request[q].actor /\ g.code = request[q].code
      /\ g.assigned = request[q].assigned
  BY <1>1, <1>2, Request DEF RequestStates
<1>4. VouchedRequest(g)'
  BY <1>1, <1>3 DEF VouchedRequest
<1>5. VerifiedByPanel(request[q]) => VerifiedByPanel(g)
  BY <1>3 DEF VerifiedByPanel
<1> QED
  BY <1>2, <1>3, <1>4, <1>5, VMoved

\* A request begins; it has verified nothing yet.
LEMMA VBegin ==
  ASSUME VInv, AInv', NEW q \in Requests, NEW g \in RequestStates, Begin(q, g),
         UNCHANGED <<users, linked, spent>>, VouchedRequest(g)'
  PROVE  VInv'
<1>1. ~VerifiedByPanel(request[q])
  BY DEF Begin, At, VerifiedByPanel
<1> QED
  BY <1>1, VMoved DEF Begin

LEMMA StartVouched ==
  ASSUME VInv, AInv', NEW q \in Requests,
         Start(q) \/ \E k \in Codes : SocialCallback(q, k)
  PROVE  VInv'
<1>1. AInv
  BY DEF VInv
<1>2. ASSUME NEW e \in Emails, NEW n \in Names, NEW p \in Passwords, Register(q, e, n, p)
      PROVE  VInv'
  <2>row. PICK row \in Rows : row = NewRow(n, p, FALSE)
    BY NewRowType
  <2>g. PICK g : g = [Idle EXCEPT !.pc = "check_name", !.user = e, !.assigned = row]
    OBVIOUS
  <2>1. /\ g \in RequestStates /\ g.pc = "check_name" /\ g.assigned = row /\ g.code = NoCode
        /\ ~row.verified
    BY <2>row, <2>g, IdleType DEF RequestStates, Steps, NewRow
  <2>2. VouchedRequest(g)'
    BY <2>1 DEF VouchedRequest
  <2> QED
    BY <1>2, <2>row, <2>g, <2>1, <2>2, VBegin DEF Register
<1>3. ASSUME NEW k \in Codes, SocialCallback(q, k) PROVE VInv'
  <2>g. PICK g : g = [Idle EXCEPT !.pc = "exchange", !.user = Owner[k], !.code = k]
    OBVIOUS
  <2>1. /\ g \in RequestStates /\ g.pc = "exchange" /\ g.code = k /\ g.user = Owner[k]
    BY <2>g, IdleType DEF RequestStates, Steps
  <2>2. VouchedRequest(g)'
    BY <2>1 DEF VouchedRequest
  <2> QED
    BY <1>3, <2>g, <2>1, <2>2, VBegin DEF SocialCallback
<1>4. ASSUME NEW e \in Emails, NEW c \in Columns, NEW v \in Values, Fits(c, v),
             Change(q, e, c, v), c = "verified" => e \in linked
      PROVE  VInv'
  <2>row. PICK row \in Rows : row = Assign(users[e], c, v)
    BY <1>1, <1>4, Request, AssignType
  <2>g. PICK g : g = [Idle EXCEPT !.pc = "write", !.user = e, !.sets = c,
                                  !.loaded = users[e], !.assigned = row]
    OBVIOUS
  <2>1. /\ g \in RequestStates /\ g.pc = "write" /\ g.user = e /\ g.sets = c
        /\ g.code = NoCode
    BY <1>1, <2>row, <2>g, Request, IdleType DEF RequestStates, Steps
  <2>2. VouchedRequest(g)'
    BY <1>4, <2>1 DEF VouchedRequest, Change
  <2> QED
    BY <1>4, <2>row, <2>g, <2>1, <2>2, VBegin DEF Change
<1>5. ASSUME NEW a \in Emails, NEW e \in Emails, NEW c \in Columns \ {"password"},
             NEW v \in BOOLEAN, UpdateUser(q, a, e, c, v)
      PROVE  VInv'
  <2>row. PICK row \in Rows : row = Assign(users[a], c, v)
    BY <1>1, Request, AssignType DEF Fits
  <2>g. PICK g : g = [Idle EXCEPT !.pc = "load", !.user = e, !.actor = a, !.sets = c,
                                  !.loaded = users[a], !.assigned = row]
    OBVIOUS
  <2>1. g \in RequestStates /\ g.pc = "load" /\ g.code = NoCode
    BY <1>1, <2>row, <2>g, Request, IdleType DEF RequestStates, Steps
  <2>2. VouchedRequest(g)'
    BY <2>1 DEF VouchedRequest
  <2> QED
    BY <1>5, <2>row, <2>g, <2>1, <2>2, VBegin DEF UpdateUser
<1>6. ASSUME NEW e \in Emails, NEW p \in Passwords, Change(q, e, "password", p) PROVE VInv'
  BY <1>4, <1>6 DEF Columns, Values, Fits
<1>7. ASSUME NEW e \in Emails, ValidateUser(q, e) PROVE VInv'
  <2>1. "verified" \in Columns /\ TRUE \in Values /\ Fits("verified", TRUE)
    BY DEF Columns, Values, Fits
  <2> QED
    BY <1>4, <1>7, <2>1 DEF ValidateUser
<1>8. ASSUME NEW e \in Emails, DeactivateUser(q, e) PROVE VInv'
  <2>1. "active" \in Columns /\ FALSE \in Values /\ Fits("active", FALSE)
    BY DEF Columns, Values, Fits
  <2> QED
    BY <1>4, <1>8, <2>1 DEF DeactivateUser
<1> QED
  BY <1>2, <1>3, <1>5, <1>6, <1>7, <1>8 DEF Start, UpdateAny, NewPassword, ChangePassword

LEMMA InsertVouched ==
  ASSUME VInv, AInv', NEW q \in Requests, Insert(q)
  PROVE  VInv'
<1>r. PICK r : r = request[q]
  OBVIOUS
<1>1. /\ AInv /\ TypeOK /\ VouchedRequest(r) /\ r \in RequestStates /\ r.pc = "insert"
      /\ r.user \in Emails /\ \A c \in spent : TRUE
  BY <1>r, Request DEF VInv, AInv, Insert, At
<1>2. UNCHANGED <<linked, spent>> /\ ~VerifiedByPanel(r)
  BY <1>1 DEF Insert, VerifiedByPanel
<1>3. CASE UNCHANGED users
  <2>1. PICK pc \in {"failed", "done"} : Goto(q, pc)
    BY DEF Insert
  <2> QED
    BY <1>r, <1>1, <1>2, <1>3, <2>1, VGoing DEF AllPcs, Ends
<1>4. CASE Goto(q, "done") /\ users' = [users EXCEPT ![r.user] = r.assigned]
  <2>1. PICK g \in RequestStates : /\ request' = [request EXCEPT ![q] = g]
                                   /\ g = [request[q] EXCEPT !.pc = "done"]
    BY <1>1, <1>4, GotoState DEF AllPcs, Ends
  <2>2. g.pc = "done" /\ g.code = r.code /\ g.user = r.user
    BY <1>r, <1>1, <2>1 DEF RequestStates
  <2>3. VouchedRequest(g)'
    BY <1>1, <2>2 DEF VouchedRequest
  <2>4. r.assigned.verified => \E k \in spent' : Owner[k] = r.user
    <3>1. r.code # NoCode => r.code \in spent
      BY <1>r, <1>1 DEF AInv, CodesOK, LetIn
    <3> QED
      BY <1>1, <1>2, <3>1 DEF VouchedRequest
  <2>5. \A e \in Emails : users'[e].stored /\ users'[e].verified =>
                            (users[e].stored /\ users[e].verified) \/ Vouched(e)'
    <3> SUFFICES ASSUME NEW e \in Emails, users'[e].verified, users'[e] # users[e]
                 PROVE  Vouched(e)'
      OBVIOUS
    <3>1. e = r.user /\ r.assigned.verified
      BY <1>1, <1>4 DEF TypeOK
    <3> QED
      BY <2>4, <3>1 DEF Vouched
  <2> QED
    BY <1>r, <1>1, <1>2, <2>1, <2>3, <2>5, VMoved
<1> QED
  BY <1>r, <1>3, <1>4 DEF Insert

LEMMA ExchangeVouched ==
  ASSUME VInv, AInv', NEW q \in Requests, Exchange(q)
  PROVE  VInv'
<1>r. PICK r : r = request[q]
  OBVIOUS
<1>1. AInv /\ VouchedRequest(r) /\ r \in RequestStates /\ r.pc = "exchange"
  BY <1>r, Request DEF VInv, Exchange, At
<1>2. UNCHANGED <<users, linked>> /\ ~VerifiedByPanel(r) /\ spent \subseteq spent'
  BY <1>r, <1>1 DEF Exchange, VerifiedByPanel, LostAnswer
<1>3. CASE Goto(q, "refused") \/ Goto(q, "profile")
  BY <1>r, <1>1, <1>2, <1>3, VGoing DEF AllPcs, Ends, Steps
<1>4. CASE LostAnswer(q, r.code)
  <2>pc. PICK pc \in {"exchange", "refused"} :
           pc = IF r.tries + 1 < MaxTries THEN "exchange" ELSE "refused"
    OBVIOUS
  <2>g. PICK g : g = [r EXCEPT !.tries = @ + 1, !.pc = pc]
    OBVIOUS
  <2>1. g \in RequestStates /\ g.pc = pc /\ g.code = r.code /\ g.user = r.user
    <3>0. r.tries \in 0 .. 3 /\ r.tries < 3
      BY <1>r, <1>1, Request DEF RequestOK, MaxTries
    <3>1. r.tries + 1 \in 0 .. MaxTries
      BY <3>0 DEF MaxTries
    <3> QED
      BY <1>1, <2>g, <3>1 DEF RequestStates, Steps, Ends
  <2>2. request' = [request EXCEPT ![q] = g]
    BY <1>r, <1>4, <2>pc, <2>g DEF LostAnswer
  <2>3. VouchedRequest(g)'
    BY <1>1, <2>1 DEF VouchedRequest
  <2> QED
    BY <1>r, <1>2, <2>1, <2>2, <2>3, VMoved
<1> QED
  BY <1>r, <1>3, <1>4 DEF Exchange

LEMMA ProfileVouched ==
  ASSUME VInv, AInv', NEW q \in Requests, NEW n \in Names, Profile(q, n)
  PROVE  VInv'
<1>r. PICK r : r = request[q]
  OBVIOUS
<1>1. AInv /\ VouchedRequest(r) /\ r \in RequestStates /\ r.pc = "profile" /\ r.code # NoCode
  BY <1>r, Request DEF VInv, Profile, At, RequestOK
<1>2. UNCHANGED <<users, linked, spent>> /\ ~VerifiedByPanel(r)
  BY <1>1 DEF Profile, VerifiedByPanel
<1>3. CASE Goto(q, "done")
  BY <1>r, <1>1, <1>2, <1>3, VGoing DEF AllPcs, Ends
<1>row. PICK row \in Rows : row = NewRow(n, NoPassword, TRUE)
  BY NewRowType
<1>g. PICK g : g = [r EXCEPT !.pc = "insert", !.assigned = row]
  OBVIOUS
<1>4. CASE request' = [request EXCEPT ![q] = g]
  <2>1. g \in RequestStates /\ g.pc = "insert" /\ g.code = r.code /\ g.user = r.user
    BY <1>1, <1>g DEF RequestStates, Steps
  <2>2. VouchedRequest(g)'
    BY <1>1, <2>1 DEF VouchedRequest
  <2> QED
    BY <1>r, <1>2, <1>4, <2>1, <2>2, VMoved
<1> QED
  BY <1>r, <1>3, <1>4, <1>row, <1>g DEF Profile

LEMMA LoadVouched ==
  ASSUME VInv, AInv', NEW q \in Requests, Load(q)
  PROVE  VInv'
<1>r. PICK r : r = request[q]
  OBVIOUS
<1>1. /\ AInv /\ VouchedRequest(r) /\ r \in RequestStates /\ r.pc = "load" /\ r.actor # NoUser
      /\ r.user \in Emails /\ r.sets \in Columns \ {"password"} /\ r.code = NoCode
  BY <1>r, Request DEF VInv, Load, At, RequestOK
<1>2. UNCHANGED <<users, linked, spent>> /\ ~VerifiedByPanel(r)
  BY <1>1 DEF Load, VerifiedByPanel
<1>3. CASE Goto(q, "failed")
  BY <1>r, <1>1, <1>2, <1>3, VGoing DEF AllPcs, Ends
<1>4. CASE users[r.user].stored
  <2>row. PICK row \in Rows : row = IF r.user = r.actor THEN r.loaded ELSE users[r.user]
    BY <1>r, <1>1, Request
  <2>new. PICK new \in Rows : new = Assign(row, r.sets, Value(r.assigned, r.sets))
    BY <1>r, <1>1, Request, ValueType, AssignType
  <2>g. PICK g : g = [r EXCEPT !.pc = "write", !.loaded = row, !.assigned = new]
    OBVIOUS
  <2>1. /\ g \in RequestStates /\ g.pc = "write" /\ g.code = NoCode /\ g.user = r.user
        /\ g.actor = r.actor
    BY <1>1, <2>g DEF RequestStates, Steps
  <2>2. VouchedRequest(g)'
    BY <1>1, <2>1 DEF VouchedRequest
  <2>3. request' = [request EXCEPT ![q] = g]
    BY <1>r, <1>4, <2>row, <2>new, <2>g DEF Load
  <2> QED
    BY <1>r, <1>2, <2>1, <2>2, <2>3, VMoved
<1> QED
  BY <1>r, <1>3, <1>4 DEF Load

LEMMA WriteVouched ==
  ASSUME VInv, AInv', NEW q \in Requests, Write(q)
  PROVE  VInv'
<1>r. PICK r : r = request[q]
  OBVIOUS
<1>1. /\ AInv /\ TypeOK /\ VouchedRequest(r) /\ r \in RequestStates /\ r.pc = "write"
      /\ r.user \in Emails /\ r.code = NoCode /\ users[r.user] \in Rows /\ r.sets \in Columns
  BY <1>r, Request DEF VInv, AInv, Write, At, RequestOK
<1>pc. PICK pc \in {"done", "reread"} : pc = IF r.actor = NoUser THEN "done" ELSE "reread"
  OBVIOUS
<1>g. PICK g \in RequestStates : /\ request' = [request EXCEPT ![q] = g]
                                 /\ g = [request[q] EXCEPT !.pc = pc]
  BY <1>r, <1>1, <1>pc, GotoState DEF Write, AllPcs, Steps, Ends
<1>2. /\ g.pc = pc /\ g.code = NoCode /\ g.user = r.user /\ g.sets = r.sets
      /\ g.actor = r.actor
  BY <1>r, <1>1, <1>g DEF RequestStates
<1>3. VouchedRequest(g)' /\ ~VerifiedByPanel(r) /\ UNCHANGED <<linked, spent>>
  BY <1>1, <1>pc, <1>2 DEF VouchedRequest, VerifiedByPanel, Write
<1>f. PICK f : f = Flush(r, users[r.user])
  OBVIOUS
<1>4. PICK v : f = users[r.user] \/ f = Assign(users[r.user], r.sets, v)
  BY <1>r, <1>f, <1>1, WriteRow
<1>5. users' = [users EXCEPT ![r.user] = f] /\ users[r.user].stored
  BY <1>r, <1>f, <1>1, WriteRow DEF Write, TypeOK
<1>6. \A e \in Emails : users'[e].stored /\ users'[e].verified =>
                          (users[e].stored /\ users[e].verified) \/ Vouched(e)'
  <2> SUFFICES ASSUME NEW e \in Emails, users'[e].verified,
                      ~(users[e].stored /\ users[e].verified), users'[e].stored
               PROVE  Vouched(e)'
    OBVIOUS
  <2>1. e = r.user /\ f = Assign(users[e], r.sets, v) /\ f.verified
    BY <1>1, <1>4, <1>5 DEF TypeOK
  <2>2. r.sets = "verified"
    BY <1>1, <1>5, <2>1 DEF Assign, Rows
  <2>3. CASE r.actor = NoUser
    BY <1>1, <1>3, <2>1, <2>2, <2>3 DEF VouchedRequest, Vouched
  <2>4. CASE r.actor # NoUser
    <3>1. request'[q] = g /\ VerifiedByPanel(g)
      BY <1>pc, <1>g, <1>1, <1>2, <2>2, <2>4 DEF TypeOK, VerifiedByPanel
    <3>2. request'[q].user = e /\ VerifiedByPanel(request[q])'
      BY <1>2, <2>1, <3>1 DEF VerifiedByPanel
    <3> QED
      BY <3>2 DEF Vouched
  <2> QED
    BY <2>3, <2>4
<1> QED
  BY <1>r, <1>g, <1>3, <1>6, VMoved

LEMMA RereadVouched ==
  ASSUME VInv, AInv', NEW q \in Requests, Reread(q)
  PROVE  VInv'
<1>r. PICK r : r = request[q]
  OBVIOUS
<1>1. /\ AInv /\ VouchedRequest(r) /\ r \in RequestStates /\ r.pc = "reread"
      /\ users[r.user] \in Rows
  BY <1>r, Request DEF VInv, Reread, At
<1>g. PICK g : g = [r EXCEPT !.pc = "log", !.assigned = users[r.user]]
  OBVIOUS
<1>2. /\ g \in RequestStates /\ g.pc = "log" /\ g.code = r.code /\ g.user = r.user
      /\ g.sets = r.sets /\ g.actor = r.actor
  BY <1>1, <1>g DEF RequestStates, Steps
<1>3. VouchedRequest(g)' /\ (VerifiedByPanel(r) => VerifiedByPanel(g))
  BY <1>1, <1>2 DEF VouchedRequest, VerifiedByPanel
<1>4. request' = [request EXCEPT ![q] = g] /\ UNCHANGED <<users, linked, spent>>
  BY <1>r, <1>g DEF Reread
<1> QED
  BY <1>r, <1>2, <1>3, <1>4, VMoved

LEMMA VStep == VInv /\ [Next]_vars => VInv'
<1> SUFFICES ASSUME VInv, [Next]_vars PROVE VInv'
  OBVIOUS
<1>1. AInv /\ AInv'
  BY AStep DEF VInv
<1>2. ASSUME NEW e \in Emails, SendLink(e) PROVE VInv'
  <2>1. linked \subseteq linked' /\ UNCHANGED <<users, spent, request>>
    BY <1>2 DEF SendLink, Mailed
  <2>2. \A q \in Requests : VouchedRequest(request[q])'
    BY <2>1 DEF VInv, VouchedRequest
  <2>3. VerifiedExplained'
    BY <2>1 DEF VInv, VerifiedExplained, Vouched, VerifiedByPanel
  <2> QED
    BY <1>1, <2>2, <2>3 DEF VInv
<1>3. ASSUME NEW q \in Requests, Proceed(q) PROVE VInv'
  <2>1. CASE CheckName(q)
    BY <1>1, <2>1, VGoing DEF CheckName, At, AllPcs, Ends, Steps, VerifiedByPanel
  <2>2. CASE Log(q)
    BY <1>1, <2>2, VGoing DEF Log, AllPcs, Ends
  <2> QED
    BY <1>1, <1>3, <2>1, <2>2, InsertVouched, ExchangeVouched, ProfileVouched, LoadVouched,
       WriteVouched, RereadVouched DEF Proceed
<1>4. ASSUME NEW q \in Requests, Fail(q) PROVE VInv'
  <2>1. UNCHANGED <<users, linked, spent>>
    BY <1>4 DEF Fail
  <2>2. CASE request[q].pc \in {"reread", "log"}
    BY <1>1, <1>4, <2>1, <2>2, VGoing DEF Fail, AllPcs, Ends
  <2>3. CASE request[q].pc \notin {"reread", "log"}
    BY <1>1, <1>4, <2>1, <2>3, VGoing DEF Fail, AllPcs, Ends, Steps, VerifiedByPanel
  <2> QED
    BY <2>2, <2>3
<1>5. CASE UNCHANGED vars
  BY <1>1, <1>5 DEF vars, VInv, VouchedRequest, VerifiedExplained, Vouched, VerifiedByPanel
<1> QED
  BY <1>1, <1>2, <1>3, <1>4, <1>5, StartVouched DEF Next

\* An address is verified because it was sent a link, because its provider
\* exchanged a code for it, or because an administrator verified it
\* (auth/service.py, admin/services.py), for any number of requests.
THEOREM VerifiedForAReason == Spec => []VerifiedExplained
<1>1. Init => VInv
  <2> SUFFICES ASSUME Init PROVE VInv
    OBVIOUS
  <2>1. AInv
    BY InitInv
  <2>2. \A q \in Requests : VouchedRequest(request[q])
    BY IdleType DEF Init, VouchedRequest
  <2>3. VerifiedExplained
    BY DEF Init, VerifiedExplained, Vouched
  <2> QED
    BY <2>1, <2>2, <2>3 DEF VInv
<1>2. VInv => VerifiedExplained
  BY DEF VInv
<1> QED
  BY <1>1, <1>2, VStep, PTL DEF Spec

-----------------------------------------------------------------------------
(* Without administrators, and how long a request lasts.                   *)

LEMMA StepsLeftAt ==
  /\ \A r : r.pc = "idle" => StepsLeft(r) = 7
  /\ \A r : r.pc = "exchange" /\ r.tries \in 0 .. 3 => StepsLeft(r) = 6 - r.tries
  /\ \A r : r.pc = "load" => StepsLeft(r) = 4
  /\ \A r : r.pc = "write" => StepsLeft(r) = 3
  /\ \A r : r.pc \in {"check_name", "profile", "reread"} => StepsLeft(r) = 2
  /\ \A r : r.pc \in {"insert", "log"} => StepsLeft(r) = 1
  /\ \A r : r.pc \in Ends => StepsLeft(r) = 0
<1>1. \A r : r.pc = "idle" => StepsLeft(r) = 7
  BY DEF StepsLeft, MaxTries
<1>2. \A r : r.pc = "exchange" /\ r.tries \in 0 .. 3 => StepsLeft(r) = 6 - r.tries
  <2> SUFFICES ASSUME NEW r, r.pc = "exchange", r.tries \in 0 .. 3
               PROVE  StepsLeft(r) = 6 - r.tries
    OBVIOUS
  <2>1. StepsLeft(r) = MaxTries - r.tries + 3
    BY DEF StepsLeft
  <2> QED
    BY <2>1 DEF MaxTries
<1>3. \A r : r.pc = "load" => StepsLeft(r) = 4
  BY DEF StepsLeft
<1>4. \A r : r.pc = "write" => StepsLeft(r) = 3
  BY DEF StepsLeft
<1>5. \A r : r.pc \in {"check_name", "profile", "reread"} => StepsLeft(r) = 2
  BY DEF StepsLeft
<1>6. \A r : r.pc \in {"insert", "log"} => StepsLeft(r) = 1
  BY DEF StepsLeft
<1>7. \A r : r.pc \in Ends => StepsLeft(r) = 0
  BY DEF StepsLeft, Ends
<1> QED
  BY <1>1, <1>2, <1>3, <1>4, <1>5, <1>6, <1>7

\* A request's step: whose request it stays, and that it comes nearer to its end.
Onward(q, g) ==
  /\ request' = [request EXCEPT ![q] = g]
  /\ StepsLeft(g) < StepsLeft(request[q])
  /\ g.actor \in {NoUser, request[q].actor} \/ \E a \in Emails : InCharge(users[a])

LEMMA OnwardGoto ==
  ASSUME AInv, NEW q \in Requests, NEW pc \in AllPcs, Goto(q, pc),
         \/ request[q].pc \in Steps /\ pc \in Ends
         \/ request[q].pc = "check_name" /\ pc = "insert"
         \/ request[q].pc = "exchange" /\ pc = "profile"
         \/ request[q].pc = "write" /\ pc = "reread"
  PROVE  \E g : Onward(q, g)
<1>1. PICK g \in RequestStates : /\ request' = [request EXCEPT ![q] = g]
                                 /\ g = [request[q] EXCEPT !.pc = pc]
  BY GotoState
<1>2. /\ g.pc = pc /\ g.actor = request[q].actor
      /\ request[q].tries \in 0 .. 3
      /\ request[q].pc = "exchange" => request[q].tries < 3
  BY <1>1, Request DEF RequestStates, RequestOK, MaxTries
<1>3. StepsLeft(g) < StepsLeft(request[q])
  BY <1>2, StepsLeftAt DEF Steps
<1> QED
  BY <1>1, <1>2, <1>3 DEF Onward

LEMMA OnwardStart ==
  ASSUME AInv, NEW q \in Requests, NEW g \in RequestStates, Begin(q, g),
         g.pc \in {"check_name", "exchange", "load", "write"},
         g.actor = NoUser \/ \E a \in Emails : InCharge(users[a])
  PROVE  \E h : Onward(q, h)
<1>1. request[q].pc = "idle" /\ request' = [request EXCEPT ![q] = g] /\ g.tries \in 0 .. 3
  BY DEF Begin, At, RequestStates, MaxTries
<1>2. StepsLeft(g) < StepsLeft(request[q])
  BY <1>1, StepsLeftAt
<1> QED
  BY <1>1, <1>2 DEF Onward

LEMMA StartOnward ==
  ASSUME AInv, NEW q \in Requests, Start(q) \/ \E k \in Codes : SocialCallback(q, k)
  PROVE  \E g : Onward(q, g)
<1>1. ASSUME NEW e \in Emails, NEW n \in Names, NEW p \in Passwords, Register(q, e, n, p)
      PROVE  \E g : Onward(q, g)
  <2>row. PICK row \in Rows : row = NewRow(n, p, FALSE)
    BY NewRowType
  <2>g. PICK g : g = [Idle EXCEPT !.pc = "check_name", !.user = e, !.assigned = row]
    OBVIOUS
  <2>1. g \in RequestStates /\ g.pc = "check_name" /\ g.actor = NoUser
    BY <2>row, <2>g, IdleType DEF RequestStates, Steps
  <2> QED
    BY <1>1, <2>row, <2>g, <2>1, OnwardStart DEF Register
<1>2. ASSUME NEW k \in Codes, SocialCallback(q, k) PROVE \E g : Onward(q, g)
  <2>g. PICK g : g = [Idle EXCEPT !.pc = "exchange", !.user = Owner[k], !.code = k]
    OBVIOUS
  <2>1. g \in RequestStates /\ g.pc = "exchange" /\ g.actor = NoUser
    BY <2>g, IdleType DEF RequestStates, Steps
  <2> QED
    BY <1>2, <2>g, <2>1, OnwardStart DEF SocialCallback
<1>3. ASSUME NEW e \in Emails, NEW c \in Columns, NEW v \in Values, Fits(c, v),
             Change(q, e, c, v)
      PROVE  \E g : Onward(q, g)
  <2>row. PICK row \in Rows : row = Assign(users[e], c, v)
    BY <1>3, Request, AssignType
  <2>g. PICK g : g = [Idle EXCEPT !.pc = "write", !.user = e, !.sets = c,
                                  !.loaded = users[e], !.assigned = row]
    OBVIOUS
  <2>1. g \in RequestStates /\ g.pc = "write" /\ g.actor = NoUser
    BY <2>row, <2>g, Request, IdleType DEF RequestStates, Steps
  <2> QED
    BY <1>3, <2>row, <2>g, <2>1, OnwardStart DEF Change
<1>4. ASSUME NEW a \in Emails, NEW e \in Emails, NEW c \in Columns \ {"password"},
             NEW v \in BOOLEAN, UpdateUser(q, a, e, c, v)
      PROVE  \E g : Onward(q, g)
  <2>row. PICK row \in Rows : row = Assign(users[a], c, v)
    BY Request, AssignType DEF Fits
  <2>g. PICK g : g = [Idle EXCEPT !.pc = "load", !.user = e, !.actor = a, !.sets = c,
                                  !.loaded = users[a], !.assigned = row]
    OBVIOUS
  <2>1. g \in RequestStates /\ g.pc = "load"
    BY <2>row, <2>g, Request, IdleType DEF RequestStates, Steps
  <2> QED
    BY <1>4, <2>row, <2>g, <2>1, OnwardStart DEF UpdateUser
<1>5. ASSUME NEW e \in Emails, NEW p \in Passwords, Change(q, e, "password", p)
      PROVE  \E g : Onward(q, g)
  BY <1>3, <1>5 DEF Columns, Values, Fits
<1>6. ASSUME NEW e \in Emails, ValidateUser(q, e) PROVE \E g : Onward(q, g)
  <2>1. "verified" \in Columns /\ TRUE \in Values /\ Fits("verified", TRUE)
    BY DEF Columns, Values, Fits
  <2> QED
    BY <1>3, <1>6, <2>1 DEF ValidateUser
<1>7. ASSUME NEW e \in Emails, DeactivateUser(q, e) PROVE \E g : Onward(q, g)
  <2>1. "active" \in Columns /\ FALSE \in Values /\ Fits("active", FALSE)
    BY DEF Columns, Values, Fits
  <2> QED
    BY <1>3, <1>7, <2>1 DEF DeactivateUser
<1> QED
  BY <1>1, <1>2, <1>4, <1>5, <1>6, <1>7 DEF Start, UpdateAny, NewPassword, ChangePassword

LEMMA ProceedOnward ==
  ASSUME AInv, NEW q \in Requests, Proceed(q) \/ Fail(q)
  PROVE  \E g : Onward(q, g)
<1>r. PICK r \in RequestStates : r = request[q]
  BY Request
<1>1. RequestOK(r) /\ r.tries \in 0 .. 3 /\ r.sets \in Columns
      /\ \A e \in Emails : users[e] \in Rows
  BY <1>r, Request DEF MaxTries
<1>2. ASSUME NEW g \in RequestStates, request' = [request EXCEPT ![q] = g],
             StepsLeft(g) < StepsLeft(r), g.actor = r.actor
      PROVE  \E h : Onward(q, h)
  BY <1>r, <1>2 DEF Onward
<1>3. CASE CheckName(q)
  BY <1>3, OnwardGoto DEF CheckName, At, AllPcs, Steps, Ends
<1>4. CASE Insert(q)
  BY <1>4, OnwardGoto DEF Insert, At, AllPcs, Steps, Ends
<1>5. CASE Exchange(q)
  <2>1. CASE Goto(q, "refused") \/ Goto(q, "profile")
    BY <1>5, <2>1, OnwardGoto DEF Exchange, At, AllPcs, Steps, Ends
  <2>2. CASE LostAnswer(q, r.code)
    <3>pc. PICK pc \in {"exchange", "refused"} :
             pc = IF r.tries + 1 < MaxTries THEN "exchange" ELSE "refused"
      OBVIOUS
    <3>n. PICK n : n = r.tries + 1
      OBVIOUS
    <3>g. PICK g : g = [r EXCEPT !.tries = n, !.pc = pc]
      OBVIOUS
    <3>0. r.pc = "exchange" /\ r.tries < 3
      BY <1>r, <1>1, <1>5 DEF Exchange, At, RequestOK, MaxTries
    <3>1. n \in 0 .. MaxTries
      BY <1>1, <3>0, <3>n DEF MaxTries
    <3>2. g \in RequestStates /\ g.pc = pc /\ g.actor = r.actor /\ g.tries = n
      BY <3>1, <3>g DEF RequestStates, Steps, Ends
    <3>3. StepsLeft(g) < StepsLeft(r)
      <4>1. CASE pc = "exchange"
        BY <1>1, <3>0, <3>n, <3>2, <4>1, StepsLeftAt
      <4>2. CASE pc = "refused"
        <5>1. StepsLeft(g) = 0 /\ StepsLeft(r) = 6 - r.tries
          BY <1>1, <3>0, <3>2, <4>2, StepsLeftAt DEF Ends
        <5> QED
          BY <1>1, <3>0, <5>1
      <4> QED
        BY <4>1, <4>2
    <3>4. request' = [request EXCEPT ![q] = g]
      BY <1>r, <2>2, <3>pc, <3>n, <3>g DEF LostAnswer
    <3> QED
      BY <1>2, <3>2, <3>3, <3>4
  <2> QED
    BY <1>r, <1>5, <2>1, <2>2 DEF Exchange
<1>6. ASSUME NEW n \in Names, Profile(q, n) PROVE \E g : Onward(q, g)
  <2>row. PICK row \in Rows : row = NewRow(n, NoPassword, TRUE)
    BY NewRowType
  <2>g. PICK g : g = [r EXCEPT !.pc = "insert", !.assigned = row]
    OBVIOUS
  <2>1. g \in RequestStates /\ g.pc = "insert" /\ g.actor = r.actor /\ r.pc = "profile"
    BY <1>r, <1>6, <2>g DEF RequestStates, Steps, Profile, At
  <2>2. StepsLeft(g) < StepsLeft(r)
    BY <2>1, StepsLeftAt
  <2>3. CASE Goto(q, "done")
    BY <1>r, <2>1, <2>3, OnwardGoto DEF AllPcs, Steps, Ends
  <2>4. CASE request' = [request EXCEPT ![q] = g]
    BY <1>2, <2>1, <2>2, <2>4
  <2> QED
    BY <1>r, <1>6, <2>row, <2>g, <2>3, <2>4 DEF Profile
<1>7. CASE Load(q)
  <2>0. r.pc = "load" /\ r.sets # "password"
    BY <1>r, <1>1, <1>7 DEF Load, At, RequestOK
  <2>1. CASE Goto(q, "failed")
    BY <1>r, <2>0, <2>1, OnwardGoto DEF AllPcs, Steps, Ends
  <2>row. PICK row \in Rows : row = IF r.user = r.actor THEN r.loaded ELSE users[r.user]
    BY <1>r, <1>1, Request
  <2>new. PICK new \in Rows : new = Assign(row, r.sets, Value(r.assigned, r.sets))
    BY <1>r, <1>1, <2>0, Request, ValueType, AssignType
  <2>g. PICK g : g = [r EXCEPT !.pc = "write", !.loaded = row, !.assigned = new]
    OBVIOUS
  <2>2. g \in RequestStates /\ g.pc = "write" /\ g.actor = r.actor
    BY <2>g DEF RequestStates, Steps
  <2>3. StepsLeft(g) < StepsLeft(r)
    BY <2>0, <2>2, StepsLeftAt
  <2>4. CASE request' = [request EXCEPT ![q] = g]
    BY <1>2, <2>2, <2>3, <2>4
  <2> QED
    BY <1>r, <1>7, <2>row, <2>new, <2>g, <2>1, <2>4 DEF Load
<1>8. CASE Write(q)
  <2>pc. PICK pc \in {"done", "reread"} : pc = IF r.actor = NoUser THEN "done" ELSE "reread"
    OBVIOUS
  <2>1. r.pc = "write" /\ Goto(q, pc)
    BY <1>r, <1>8, <2>pc DEF Write, At
  <2> QED
    BY <1>r, <2>1, OnwardGoto DEF AllPcs, Steps, Ends
<1>9. CASE Reread(q)
  <2>g. PICK g : g = [r EXCEPT !.pc = "log", !.assigned = users[r.user]]
    OBVIOUS
  <2>1. g \in RequestStates /\ g.pc = "log" /\ g.actor = r.actor /\ r.pc = "reread"
    BY <1>r, <1>1, <1>9, <2>g, Request DEF RequestStates, Steps, Reread, At
  <2>2. StepsLeft(g) < StepsLeft(r)
    BY <2>1, StepsLeftAt
  <2> QED
    BY <1>r, <1>2, <1>9, <2>g, <2>1, <2>2 DEF Reread
<1>10. CASE Log(q)
  BY <1>10, OnwardGoto DEF Log, At, AllPcs, Steps, Ends
<1>11. CASE Fail(q)
  BY <1>11, OnwardGoto DEF Fail, AllPcs, Ends
<1> QED
  BY <1>3, <1>4, <1>5, <1>6, <1>7, <1>8, <1>9, <1>10, <1>11 DEF Proceed

LEMMA EachOnward ==
  ASSUME AInv, [Next]_vars
  PROVE  request' = request \/ \E q \in Requests : \E g : Onward(q, g)
BY StartOnward, ProceedOnward DEF Next, SendLink, vars

\* A request ends after seven steps at most, also when the provider loses every
\* answer (auth/utils.py): each step it takes brings it nearer to its end.
THEOREM RequestsBounded == Spec => RequestsAdvance
<1>1. AInv /\ [Next]_vars =>
        [\A q \in Requests : request'[q] # request[q] =>
           StepsLeft(request'[q]) < StepsLeft(request[q])]_vars
  <2> SUFFICES ASSUME AInv, [Next]_vars, NEW p \in Requests, request'[p] # request[p]
               PROVE  StepsLeft(request'[p]) < StepsLeft(request[p])
    OBVIOUS
  <2>0. PICK q \in Requests : \E g : Onward(q, g)
    BY EachOnward
  <2>1. PICK g : Onward(q, g)
    BY <2>0
  <2>2. p = q /\ request'[p] = g
    BY <2>1 DEF Onward, AInv, TypeOK
  <2> QED
    BY <2>1, <2>2 DEF Onward
<1> QED
  BY <1>1, AlwaysAInv, PTL DEF Spec, RequestsAdvance

LEMMA NoRightsStep == NoRights /\ AInv /\ [Next]_vars => NoRights'
<1> SUFFICES ASSUME NoRights, AInv, [Next]_vars PROVE NoRights'
  OBVIOUS
<1>t. TypeOK
  BY DEF AInv
<1>1. /\ \A e \in Emails : users'[e].stored => ~users'[e].admin
      /\ \A e \in Emails : /\ <<e, "active", TRUE>> \notin asked'
                           /\ \A v \in Passwords \cup BOOLEAN : <<e, "admin", v>> \notin asked'
  BY <1>t, RulesStep, NoRightsRows DEF Values
<1>2. /\ log = {} /\ \A q \in Requests : request[q].actor = NoUser
      /\ \A e \in Emails : ~InCharge(users[e])
  BY DEF NoRights, NobodyInCharge, InCharge, InUse
<1>3. log' = {}
  <2>1. \A q \in Requests : Log(q) => FALSE
    <3> SUFFICES ASSUME NEW q \in Requests, Log(q) PROVE FALSE
      OBVIOUS
    <3>1. request[q].pc = "log" /\ RequestOK(request[q])
      BY Request DEF Log, At
    <3> QED
      BY <1>2, <3>1 DEF RequestOK
  <2>2. ASSUME NEW q \in Requests, Start(q) PROVE log' = log
    BY <2>2 DEF Start, UpdateAny, Register, NewPassword, ChangePassword, ValidateUser,
       DeactivateUser, Change, UpdateUser
  <2>3. ASSUME NEW q \in Requests, Proceed(q) \/ Fail(q) PROVE log' = log
    BY <2>1, <2>3 DEF Proceed, CheckName, Insert, Exchange, Profile, Load, Write, Reread, Fail
  <2>4. log' = log
    BY <2>2, <2>3 DEF Next, vars, SendLink, SocialCallback
  <2> QED
    BY <1>2, <2>4
<1>4. \A q \in Requests : request'[q].actor = NoUser
  BY <1>t, <1>2, EachOnward DEF Onward, TypeOK
<1> QED
  BY <1>1, <1>3, <1>4 DEF NoRights, NobodyInCharge

\* Rights come from administrators only (admin/dependencies.py): a table without
\* one never gets one by requests, and there nobody undoes a deactivation.
THEOREM RightsComeFromAdmins ==
  (\A e \in Emails : First[e].stored => ~First[e].admin)
    => (Spec => []NobodyInCharge /\ DeactivatedForGood)
<1> SUFFICES ASSUME \A e \in Emails : First[e].stored => ~First[e].admin
             PROVE  Spec => []NobodyInCharge /\ DeactivatedForGood
  OBVIOUS
<1>1. Init => NoRights
  BY IdleType DEF Init, NoRights, NobodyInCharge
<1>2. NoRights => NobodyInCharge
  BY DEF NoRights
<1>3. NoRights /\ AInv /\ [Next]_vars =>
        [\A e \in Emails : users[e].stored /\ ~users[e].active => ~users'[e].active]_vars
  BY RulesStep, NoRightsRows DEF AInv
<1> QED
  BY <1>1, <1>2, <1>3, NoRightsStep, AlwaysAInv, PTL DEF Spec, DeactivatedForGood
=============================================================================
