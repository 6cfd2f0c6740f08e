---------------------------- MODULE SessionLines ----------------------------
(***************************************************************************)
(* What clients may rely on, as one abstract specification.  A login ends  *)
(* all sessions its user has and gives the first token of a new line; each *)
(* further token of a line replaces one that no longer works, but has not  *)
(* been ended by a login.                                                  *)
(***************************************************************************)
CONSTANTS Users, NoUser, Jtis, NoToken

VARIABLES
  owner,   \* whose a token is, NoUser before it is given
  from,    \* the token it replaces
  usable,  \* tokens a refresh accepts
  ended    \* tokens a later login has ended

lineVars == <<owner, from, usable, ended>>

Given == {j \in Jtis : owner[j] # NoUser}

LinesInit ==
  /\ owner = [j \in Jtis |-> NoUser]
  /\ from = [j \in Jtis |-> NoToken]
  /\ usable = {}
  /\ ended = {}

Give(u, j) ==
  /\ j \notin Given
  /\ owner' = [owner EXCEPT ![j] = u]
  /\ usable' = usable \cup {j}
  /\ UNCHANGED ended

Begin(u, j) == Give(u, j) /\ UNCHANGED from

Replace(p, j) ==
  /\ p \in Given \ (usable \cup ended)
  /\ Give(owner[p], j)
  /\ from' = [from EXCEPT ![j] = p]

Withdraw(p) ==
  /\ usable' = usable \ {p}
  /\ UNCHANGED <<owner, from, ended>>

EndLines(u) ==
  LET held == {j \in Given : owner[j] = u} IN
  /\ usable' = usable \ held
  /\ ended' = ended \cup held
  /\ UNCHANGED <<owner, from>>

LinesNext ==
  \/ \E p \in Jtis : Withdraw(p) \/ \E j \in Jtis : Replace(p, j)
  \/ \E u \in Users : EndLines(u) \/ \E j \in Jtis : Begin(u, j)

LinesSpec == LinesInit /\ [][LinesNext]_lineVars
=============================================================================
