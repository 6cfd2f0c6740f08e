------------------------------ MODULE PageProofs ------------------------------
(***************************************************************************)
(* Proofs about listings, for any rows and any length of page.             *)
(***************************************************************************)
EXTENDS Pages, FiniteSetTheorems, TLAPS

USE PageAssumption

-----------------------------------------------------------------------------
(* Positions.                                                              *)

LEMMA Finite ==
  ASSUME NEW R \in SUBSET Stamps
  PROVE  /\ IsFiniteSet(R) /\ Cardinality(R) \in Nat
         /\ Cardinality(R) <= Cardinality(Stamps) /\ Cardinality(Stamps) \in Nat
BY FS_Subset, FS_CardinalityType

LEMMA Smaller ==
  ASSUME NEW B \in SUBSET Stamps, NEW A \in SUBSET B
  PROVE  Cardinality(A) <= Cardinality(B)
BY Finite, FS_Subset

LEMMA PositionType ==
  ASSUME NEW R \in SUBSET Stamps, NEW r \in Stamps
  PROVE  Position(R, r) \in Nat
<1>1. {s \in R : s > r} \in SUBSET Stamps
  OBVIOUS
<1> QED
  BY <1>1, Finite DEF Position

LEMMA PositionGrows ==
  ASSUME NEW B \in SUBSET Stamps, NEW A \in SUBSET B, NEW r \in Stamps
  PROVE  Position(A, r) <= Position(B, r)
<1>1. {s \in A : s > r} \in SUBSET {s \in B : s > r} /\ {s \in B : s > r} \in SUBSET Stamps
  OBVIOUS
<1> QED
  BY <1>1, Smaller DEF Position

\* No two rows have one position.
LEMMA PositionStrict ==
  ASSUME NEW R \in SUBSET Stamps, NEW r \in R, NEW s \in R, r < s
  PROVE  Position(R, s) < Position(R, r)
<1>1. PICK A : A = {x \in R : x > s}
  OBVIOUS
<1>2. PICK B : B = {x \in R : x > r}
  OBVIOUS
<1>n. r \in Nat /\ s \in Nat /\ R \subseteq Nat
  OBVIOUS
<1>3. /\ A \in SUBSET B /\ B \in SUBSET Stamps /\ s \in B /\ s \notin A
  <2>1. \A x \in R : x > s => x > r
    BY <1>n
  <2>2. s > r /\ ~(s > s)
    BY <1>n
  <2> QED
    BY <1>1, <1>2, <2>1, <2>2
<1>4. IsFiniteSet(A) /\ IsFiniteSet(B) /\ Cardinality(A) \in Nat /\ Cardinality(B) \in Nat
  BY <1>3, Finite
<1>5. Cardinality(A) <= Cardinality(B) /\ Cardinality(B) # Cardinality(A)
  BY <1>3, <1>4, FS_Subset
<1> QED
  BY <1>1, <1>2, <1>4, <1>5 DEF Position

LEMMA AtMostOne ==
  ASSUME NEW R \in SUBSET Stamps, NEW n \in Nat
  PROVE  Cardinality({r \in R : Position(R, r) = n}) <= 1
<1>1. PICK A : A = {r \in R : Position(R, r) = n}
  OBVIOUS
<1>2. \A r, s \in A : r = s
  <2> SUFFICES ASSUME NEW r \in A, NEW s \in A, r # s PROVE FALSE
    OBVIOUS
  <2>1. r \in R /\ s \in R /\ Position(R, r) = n /\ Position(R, s) = n
    BY <1>1
  <2>2. r < s \/ s < r
    BY <2>1
  <2> QED
    BY <2>1, <2>2, PositionStrict
<1>3. A = {} \/ \E x : A = {x}
  BY <1>2
<1>4. Cardinality(A) = 0 \/ Cardinality(A) = 1
  BY <1>3, FS_EmptySet, FS_Singleton
<1> QED
  BY <1>1, <1>4

\* A row that leaves moves the others by one place at most.
LEMMA PositionAfterLeave ==
  ASSUME NEW R \in SUBSET Stamps, NEW s \in R, NEW r \in Stamps
  PROVE  Position(R, r) <= Position(R \ {s}, r) + 1
<1>1. PICK A : A = {x \in R : x > r}
  OBVIOUS
<1>2. {x \in R \ {s} : x > r} = A \ {s} /\ A \in SUBSET Stamps
  BY <1>1
<1>3. IsFiniteSet(A) /\ Cardinality(A) \in Nat
  BY <1>2, Finite
<1>4. Cardinality(A \ {s}) = IF s \in A THEN Cardinality(A) - 1 ELSE Cardinality(A)
  BY <1>3, FS_RemoveElement
<1>5. Cardinality(A) <= Cardinality(A \ {s}) + 1
  BY <1>3, <1>4
<1> QED
  BY <1>1, <1>2, <1>5 DEF Position

\* A row that goes further to the front moves no other row to the front.
LEMMA PositionAfterRenew ==
  ASSUME NEW R \in SUBSET Stamps, NEW s \in R, NEW t \in Stamps \ R, s < t,
         NEW r \in Stamps
  PROVE  Position(R, r) <= Position((R \ {s}) \cup {t}, r)
<1>1. PICK A : A = {x \in R : x > r}
  OBVIOUS
<1>2. PICK B : B = {x \in (R \ {s}) \cup {t} : x > r}
  OBVIOUS
<1>3. A \in SUBSET Stamps /\ B \in SUBSET Stamps
  BY <1>1, <1>2
<1>4. IsFiniteSet(A) /\ Cardinality(A) \in Nat
  BY <1>3, Finite
<1>5. CASE s > r
  <2>1. B = (A \ {s}) \cup {t} /\ s \in A /\ t \notin A \ {s}
    BY <1>1, <1>2, <1>5
  <2>2. IsFiniteSet(A \ {s}) /\ Cardinality(A \ {s}) = Cardinality(A) - 1
    BY <1>4, <2>1, FS_RemoveElement
  <2>3. Cardinality((A \ {s}) \cup {t}) = Cardinality(A \ {s}) + 1
    BY <2>1, <2>2, FS_AddElement
  <2>4. Cardinality(B) = Cardinality(A)
    BY <1>4, <2>1, <2>2, <2>3
  <2> QED
    BY <1>1, <1>2, <1>4, <2>4 DEF Position
<1>6. CASE ~(s > r)
  <2>1. A \in SUBSET B
    BY <1>1, <1>2, <1>6
  <2> QED
    BY <1>1, <1>2, <1>3, <2>1, Smaller DEF Position
<1> QED
  BY <1>5, <1>6

\* How many rows there are from a position on.
LEMMA RowsFrom ==
  ASSUME NEW R \in SUBSET Stamps, NEW n \in Nat, NEW k \in Nat, Cardinality(R) <= n + k
  PROVE  Cardinality({r \in R : Position(R, r) >= n}) <= k
<1>1. PICK A : A = {r \in R : Position(R, r) >= n}
  OBVIOUS
<1>2. PICK c : c = Cardinality(R)
  OBVIOUS
<1>3. c \in Nat /\ IsFiniteSet(R)
  BY <1>2, Finite
<1>d. PICK d \in Int : d = c - 1
  BY <1>3
<1>4. \A r \in R : Position(R, r) \in Nat /\ Position(R, r) < c
  <2> TAKE r \in R
  <2>1. {s \in R : s > r} \in SUBSET (R \ {r}) /\ R \ {r} \in SUBSET Stamps
    OBVIOUS
  <2>2. Cardinality(R \ {r}) = c - 1
    BY <1>2, <1>3, FS_RemoveElement
  <2>3. Cardinality({s \in R : s > r}) <= Cardinality(R \ {r})
    BY <2>1, Smaller
  <2> QED
    BY <2>2, <2>3, <1>3, PositionType DEF Position
<1>5. PICK f : f = [r \in A |-> Position(R, r)]
  OBVIOUS
<1>6. f \in [A -> n .. d]
  <2>1. \A r \in A : Position(R, r) \in n .. d
    BY <1>1, <1>3, <1>4, <1>d
  <2> QED
    BY <1>5, <2>1
<1>7. \A r, s \in A : f[r] = f[s] => r = s
  <2> SUFFICES ASSUME NEW r \in A, NEW s \in A, f[r] = f[s], r # s PROVE FALSE
    OBVIOUS
  <2>1. r \in R /\ s \in R /\ Position(R, r) = Position(R, s) /\ Position(R, r) \in Nat
    BY <1>1, <1>4, <1>5
  <2>2. r < s \/ s < r
    BY <2>1
  <2> QED
    BY <2>1, <2>2, PositionStrict
<1>8. f \in Injection(A, n .. d)
  <2>1. DOMAIN f = A
    BY <1>5
  <2>2. IsInjective(f)
    BY <1>7, <2>1 DEF IsInjective
  <2> QED
    BY <1>6, <2>2 DEF Injection
<1>9. IsFiniteSet(n .. d) /\ Cardinality(n .. d) <= k
  <2>1. n \in Int
    OBVIOUS
  <2>2. /\ IsFiniteSet(n .. d)
        /\ Cardinality(n .. d) = IF n > d THEN 0 ELSE d - n + 1
    BY <2>1, FS_Interval
  <2>3. d - n + 1 <= k
    BY <1>2, <1>3, <1>d
  <2> QED
    BY <2>2, <2>3
<1>10. Cardinality(A) <= Cardinality(n .. d)
  BY <1>8, <1>9, FS_Injection
<1>11. Cardinality(A) \in Nat /\ Cardinality(n .. d) \in Nat
  BY <1>1, <1>9, Finite, FS_CardinalityType
<1>12. Cardinality(A) <= k
  BY <1>9, <1>10, <1>11
<1> QED
  BY <1>1, <1>12

-----------------------------------------------------------------------------
(* The invariant.                                                          *)

\* Rows that have slipped before the page to be fetched, unseen.
Behind == {r \in owed \ seen : Position(rows, r) < offset}

WInv ==
  /\ TypeOK
  /\ Walking => Cardinality(Behind) <= moves
  /\ phase = "page" => Cardinality(rows) <= total + late
  /\ WalkComplete

LEMMA Counts ==
  ASSUME TypeOK
  PROVE  /\ rows \in SUBSET Stamps /\ owed \in SUBSET Stamps /\ seen \in SUBSET Stamps
         /\ owed \subseteq rows /\ Behind \in SUBSET Stamps
         /\ Cardinality(Behind) \in Nat /\ Cardinality(owed \ seen) \in Nat
         /\ Cardinality(rows) \in Nat /\ Cardinality(Stamps) \in Nat
         /\ offset \in Nat /\ total \in Nat /\ moves \in Nat /\ late \in Nat
         /\ \A r \in Stamps : Position(rows, r) \in Nat
<1>1. /\ rows \in SUBSET Stamps /\ owed \in SUBSET Stamps /\ seen \in SUBSET Stamps
      /\ owed \subseteq rows /\ Behind \in SUBSET Stamps /\ owed \ seen \in SUBSET Stamps
      /\ offset \in Nat /\ total \in 0 .. Cardinality(Stamps)
      /\ moves \in 0 .. MaxMoves /\ late \in 0 .. MaxLate /\ MaxMoves \in Nat /\ MaxLate \in Nat
  BY DEF TypeOK, Behind
<1>2. /\ Cardinality(Behind) \in Nat /\ Cardinality(owed \ seen) \in Nat
      /\ Cardinality(rows) \in Nat /\ Cardinality(Stamps) \in Nat
  BY <1>1, Finite
<1>3. \A r \in Stamps : Position(rows, r) \in Nat
  BY <1>1, PositionType
<1> QED
  BY <1>1, <1>2, <1>3

\* One element more.
LEMMA OneMore ==
  ASSUME NEW A \in SUBSET Stamps, NEW B \in SUBSET Stamps, NEW C \in SUBSET Stamps,
         A \subseteq B \cup C
  PROVE  Cardinality(A) <= Cardinality(B) + Cardinality(C)
<1>1. IsFiniteSet(B) /\ IsFiniteSet(C) /\ B \cup C \in SUBSET Stamps
  BY Finite
<1>2. B \cap C \in SUBSET Stamps
  OBVIOUS
<1>3. Cardinality(B \cup C) = Cardinality(B) + Cardinality(C) - Cardinality(B \cap C)
  BY <1>1, FS_Union
<1>4. /\ Cardinality(A) \in Nat /\ Cardinality(B) \in Nat /\ Cardinality(C) \in Nat
      /\ Cardinality(B \cap C) \in Nat /\ Cardinality(B \cup C) \in Nat
  BY <1>1, <1>2, Finite
<1>5. Cardinality(A) <= Cardinality(B \cup C)
  BY <1>1, Smaller
<1> QED
  BY <1>3, <1>4, <1>5

LEMMA InitWInv == Init => WInv
<1> SUFFICES ASSUME Init PROVE WInv
  OBVIOUS
<1>1. Cardinality(Stamps) \in Nat
  BY Finite
<1>2. MaxOffset \in Nat /\ MaxMoves \in Nat /\ MaxLate \in Nat
  OBVIOUS
<1> QED
  BY <1>1, <1>2 DEF Init, WInv, TypeOK, Walking, WalkComplete

LEMMA EnterInv ==
  ASSUME WInv, NEW s \in Stamps, Enter(s)
  PROVE  WInv'
<1> USE DEF Enter
<1>t. TypeOK
  BY DEF WInv
<1>c. /\ rows \in SUBSET Stamps /\ rows' \in SUBSET Stamps /\ owed \subseteq rows
      /\ moves \in Nat /\ late \in Nat /\ total \in Nat /\ Cardinality(rows) \in Nat
  BY <1>t, Counts
<1>1. TypeOK'
  <2>1. MaxLate \in Nat
    OBVIOUS
  <2>2. late' \in 0 .. MaxLate
    BY <1>t, <2>1 DEF TypeOK
  <2> QED
    BY <1>t, <1>c, <2>2 DEF TypeOK
<1>2. Walking' => Cardinality(Behind') <= moves'
  <2>1. Behind' \in SUBSET Behind
    <3> SUFFICES ASSUME NEW r \in owed \ seen, Position(rows', r) < offset
                 PROVE  Position(rows, r) < offset
      BY DEF Behind
    <3>1. r \in Stamps /\ rows \in SUBSET rows'
      BY <1>c
    <3>2. Position(rows, r) <= Position(rows', r)
      BY <1>c, <3>1, PositionGrows
    <3>3. Position(rows, r) \in Nat /\ Position(rows', r) \in Nat /\ offset \in Nat
      BY <1>t, <1>c, <3>1, PositionType DEF TypeOK
    <3> QED
      BY <3>2, <3>3
  <2>2. Behind \in SUBSET Stamps /\ Cardinality(Behind) \in Nat
    BY <1>t, Counts
  <2>3. Cardinality(Behind') <= Cardinality(Behind) /\ Cardinality(Behind') \in Nat
    BY <2>1, <2>2, Smaller, Finite
  <2> QED
    BY <2>2, <2>3, <1>c DEF WInv, Walking
<1>3. phase' = "page" => Cardinality(rows') <= total' + late'
  <2>1. Cardinality(rows') = Cardinality(rows) + 1
    BY <1>c, Finite, FS_AddElement
  <2> QED
    BY <2>1, <1>c DEF WInv
<1>4. WalkComplete'
  BY DEF WInv, WalkComplete
<1> QED
  BY <1>1, <1>2, <1>3, <1>4 DEF WInv

LEMMA LeaveInv ==
  ASSUME WInv, NEW s \in Stamps, Leave(s)
  PROVE  WInv'
<1> USE DEF Leave, Moved
<1>t. TypeOK
  BY DEF WInv
<1>c. /\ rows \in SUBSET Stamps /\ rows' \in SUBSET rows /\ owed \subseteq rows
      /\ moves \in Nat /\ late \in Nat /\ total \in Nat /\ Cardinality(rows) \in Nat
      /\ offset \in Nat /\ owed' \subseteq owed
  BY <1>t, Counts
<1>1. TypeOK'
  <2>1. MaxMoves \in Nat
    OBVIOUS
  <2>2. moves' \in 0 .. MaxMoves
    BY <1>t, <2>1 DEF TypeOK
  <2> QED
    BY <1>t, <1>c, <2>2 DEF TypeOK
<1>2. Walking' => Cardinality(Behind') <= moves'
  <2>1. PICK C : C = {r \in rows : Position(rows, r) = offset}
    OBVIOUS
  <2>2. Behind' \subseteq Behind \cup C
    <3> SUFFICES ASSUME NEW r \in owed' \ seen, Position(rows', r) < offset
                 PROVE  Position(rows, r) <= offset
      <4>1. \A r \in owed' : r \in rows /\ r \in owed /\ Position(rows, r) \in Nat
        BY <1>t, <1>c, Counts
      <4>2. \A r \in owed' : Position(rows, r) <= offset =>
              Position(rows, r) < offset \/ Position(rows, r) = offset
        BY <4>1, <1>c
      <4> QED
        BY <4>1, <4>2, <2>1 DEF Behind
    <3>1. r \in Stamps
      BY <1>c
    <3>2. Position(rows, r) <= Position(rows', r) + 1
      BY <1>c, <3>1, PositionAfterLeave
    <3>3. Position(rows, r) \in Nat /\ Position(rows', r) \in Nat
      BY <1>c, <3>1, PositionType
    <3> QED
      BY <3>2, <3>3, <1>c
  <2>3. Behind \in SUBSET Stamps /\ Behind' \in SUBSET Stamps /\ C \in SUBSET Stamps
    BY <1>c, <2>1 DEF Behind
  <2>4. Cardinality(Behind') <= Cardinality(Behind) + Cardinality(C)
    BY <2>2, <2>3, OneMore
  <2>5. Cardinality(C) <= 1
    BY <1>c, <2>1, AtMostOne
  <2>6. Cardinality(Behind) \in Nat /\ Cardinality(Behind') \in Nat /\ Cardinality(C) \in Nat
    BY <2>3, Finite
  <2>7. Walking' => Walking /\ moves' = moves + 1
    BY DEF Walking
  <2> QED
    BY <2>4, <2>5, <2>6, <2>7, <1>c DEF WInv
<1>3. phase' = "page" => Cardinality(rows') <= total' + late'
  <2>1. Cardinality(rows') <= Cardinality(rows) /\ Cardinality(rows') \in Nat
    BY <1>c, Smaller, Finite
  <2> QED
    BY <2>1, <1>c DEF WInv
<1>4. WalkComplete'
  <2> SUFFICES ASSUME phase = "done" PROVE Cardinality(owed' \ seen') <= moves' + late'
    BY DEF WalkComplete
  <2>1. moves' = moves /\ late' = late /\ Cardinality(owed \ seen) <= moves + late
    BY DEF WInv, WalkComplete, Walking
  <2>2. owed' \ seen' \in SUBSET (owed \ seen) /\ owed \ seen \in SUBSET Stamps
    BY <1>c
  <2>3. /\ Cardinality(owed' \ seen') <= Cardinality(owed \ seen)
        /\ Cardinality(owed' \ seen') \in Nat /\ Cardinality(owed \ seen) \in Nat
    BY <2>2, Smaller, Finite
  <2> QED
    BY <2>1, <2>3, <1>c
<1> QED
  BY <1>1, <1>2, <1>3, <1>4 DEF WInv

LEMMA RenewInv ==
  ASSUME WInv, NEW s \in Stamps, NEW t \in Stamps, Renew(s, t)
  PROVE  WInv'
<1> USE DEF Renew, Moved
<1>t. TypeOK
  BY DEF WInv
<1>c. /\ rows \in SUBSET Stamps /\ owed \subseteq rows /\ seen \subseteq Stamps
      /\ moves \in Nat /\ late \in Nat /\ total \in Nat /\ Cardinality(rows) \in Nat
      /\ offset \in Nat
  BY <1>t, Counts
<1>s. /\ rows' = (rows \ {s}) \cup {t} /\ s \in rows /\ t \in Stamps \ rows /\ s < t
      /\ rows' \in SUBSET Stamps
  BY <1>c DEF Restamped
<1>o. \A r \in owed' \ seen' : r # t => r \in owed \ seen /\ r # s
  BY <1>c, <1>s DEF Restamped
<1>1. TypeOK'
  <2>1. MaxMoves \in Nat
    OBVIOUS
  <2>2. moves' \in 0 .. MaxMoves
    BY <1>t, <2>1 DEF TypeOK
  <2>3. owed' \subseteq rows' /\ seen' \subseteq Stamps
    BY <1>c, <1>s DEF Restamped
  <2> QED
    BY <1>t, <1>s, <2>2, <2>3 DEF TypeOK
<1>2. Walking' => Cardinality(Behind') <= moves'
  <2>1. Behind' \subseteq Behind \cup {t}
    <3> SUFFICES ASSUME NEW r \in owed' \ seen', Position(rows', r) < offset, r # t
                 PROVE  Position(rows, r) < offset
      BY <1>o DEF Behind
    <3>1. r \in Stamps
      BY <1>o, <1>c
    <3>2. Position(rows, r) <= Position(rows', r)
      BY <1>c, <1>s, <3>1, PositionAfterRenew
    <3>3. Position(rows, r) \in Nat /\ Position(rows', r) \in Nat
      BY <1>c, <1>s, <3>1, PositionType
    <3> QED
      BY <3>2, <3>3, <1>c
  <2>2. Behind \in SUBSET Stamps /\ Behind' \in SUBSET Stamps /\ {t} \in SUBSET Stamps
    BY <1>c, <2>1 DEF Behind
  <2>3. Cardinality(Behind') <= Cardinality(Behind) + Cardinality({t})
    BY <2>1, <2>2, OneMore
  <2>4. Cardinality({t}) = 1 /\ Cardinality(Behind) \in Nat /\ Cardinality(Behind') \in Nat
    BY <2>2, Finite, FS_Singleton
  <2>5. Walking' => Walking /\ moves' = moves + 1
    BY DEF Walking
  <2> QED
    BY <2>3, <2>4, <2>5, <1>c DEF WInv
<1>3. phase' = "page" => Cardinality(rows') <= total' + late'
  <2>1. IsFiniteSet(rows \ {s}) /\ Cardinality(rows \ {s}) = Cardinality(rows) - 1
    BY <1>c, <1>s, Finite, FS_RemoveElement
  <2>2. Cardinality((rows \ {s}) \cup {t}) = Cardinality(rows \ {s}) + 1
    BY <1>s, <2>1, FS_AddElement
  <2>3. Cardinality(rows') = Cardinality(rows)
    BY <2>1, <2>2, <1>c, <1>s
  <2> QED
    BY <2>3 DEF WInv
<1>4. WalkComplete'
  <2> SUFFICES ASSUME phase = "done" PROVE Cardinality(owed' \ seen') <= moves' + late'
    BY DEF WalkComplete
  <2>1. moves' = moves /\ late' = late /\ Cardinality(owed \ seen) <= moves + late
    BY DEF WInv, WalkComplete, Walking
  <2>2. PICK A : A = owed \ seen
    OBVIOUS
  <2>3. A \in SUBSET Stamps /\ owed' \ seen' \in SUBSET Stamps
    BY <2>2, <1>c, <1>s DEF Restamped
  <2>4. IsFiniteSet(A) /\ Cardinality(A) \in Nat /\ Cardinality(owed' \ seen') \in Nat
    BY <2>3, Finite
  <2>5. CASE t \in owed' \ seen'
    <3>1. s \in A
      BY <2>2, <2>5, <1>c, <1>s DEF Restamped
    <3>2. owed' \ seen' \subseteq (A \ {s}) \cup {t} /\ t \notin A \ {s}
      BY <2>2, <1>o, <1>c, <1>s
    <3>3. IsFiniteSet(A \ {s}) /\ Cardinality(A \ {s}) = Cardinality(A) - 1
      BY <2>4, <3>1, FS_RemoveElement
    <3>4. Cardinality((A \ {s}) \cup {t}) = Cardinality(A \ {s}) + 1
      BY <3>2, <3>3, FS_AddElement
    <3>5. (A \ {s}) \cup {t} \in SUBSET Stamps
      BY <2>3
    <3>6. Cardinality(owed' \ seen') <= Cardinality((A \ {s}) \cup {t})
      BY <3>2, <3>5, Smaller
    <3> QED
      BY <2>1, <2>2, <2>4, <3>3, <3>4, <3>6, <1>c
  <2>6. CASE t \notin owed' \ seen'
    <3>1. owed' \ seen' \in SUBSET A
      BY <2>2, <2>6, <1>o
    <3>2. Cardinality(owed' \ seen') <= Cardinality(A)
      BY <2>3, <3>1, Smaller
    <3> QED
      BY <2>1, <2>2, <2>4, <3>2, <1>c
  <2> QED
    BY <2>5, <2>6
<1> QED
  BY <1>1, <1>2, <1>3, <1>4 DEF WInv

LEMMA OpenInv ==
  ASSUME WInv, NEW o \in 0 .. MaxOffset, Open(o)
  PROVE  WInv'
<1> USE DEF Open
<1>t. TypeOK /\ rows \in SUBSET Stamps
  BY DEF WInv, TypeOK
<1>m. MaxOffset \in Nat /\ MaxMoves \in Nat /\ MaxLate \in Nat /\ o \in Nat
  OBVIOUS
<1>1. TypeOK'
  BY <1>t, <1>m DEF TypeOK
<1>2. Behind' = {}
  <2>1. \A r \in rows : Position(rows, r) \in Nat
    BY <1>t, PositionType
  <2>2. \A r \in owed' : r \in rows /\ Position(rows, r) >= o
    OBVIOUS
  <2>3. \A r \in owed' : ~(Position(rows, r) < o)
    BY <2>1, <2>2, <1>m
  <2> QED
    BY <2>3 DEF Behind
<1>3. Cardinality(Behind') <= moves'
  BY <1>2, FS_EmptySet
<1> QED
  BY <1>1, <1>3 DEF WInv, WalkComplete

LEMMA CountInv ==
  ASSUME WInv, Count
  PROVE  WInv'
<1> USE DEF Count
<1>t. TypeOK /\ rows \in SUBSET Stamps /\ MaxLate \in Nat
  BY DEF WInv, TypeOK
<1>1. Cardinality(rows) \in 0 .. Cardinality(Stamps) /\ Cardinality(rows) \in Nat
  BY <1>t, Finite
<1>2. TypeOK'
  BY <1>t, <1>1 DEF TypeOK
<1>3. Behind' = Behind
  BY DEF Behind
<1> QED
  BY <1>1, <1>2, <1>3 DEF WInv, WalkComplete, Walking

LEMMA PageInv ==
  ASSUME WInv, Page
  PROVE  WInv'
<1> USE DEF Page, Follow
<1>t. TypeOK
  BY DEF WInv
<1>c. /\ rows \in SUBSET Stamps /\ owed \subseteq rows /\ seen \subseteq Stamps
      /\ moves \in Nat /\ late \in Nat /\ total \in Nat /\ Cardinality(rows) \in Nat
      /\ offset \in Nat /\ Limit \in Nat \ {0} /\ offset + Limit \in Nat
      /\ Cardinality(Stamps) \in Nat /\ total <= Cardinality(Stamps)
      /\ \A r \in rows : Position(rows, r) \in Nat
  <2>1. total <= Cardinality(Stamps) /\ Limit \in Nat \ {0}
    BY <1>t, Counts DEF TypeOK
  <2>2. \A r \in rows : Position(rows, r) \in Nat
    BY <1>t, Counts
  <2> QED
    BY <1>t, <2>1, <2>2, Counts
<1>s. Shown \subseteq rows
  BY DEF Shown
<1>b. Cardinality(Behind) <= moves /\ Cardinality(rows) <= total + late
  BY DEF WInv, Walking
<1>u. \A r \in owed \ seen' : /\ r \in owed \ seen
                              /\ Position(rows, r) < offset + Limit => r \in Behind
  <2>1. \A r \in rows \ Shown : Position(rows, r) < offset + Limit => Position(rows, r) < offset
    BY <1>c DEF Shown
  <2> QED
    BY <1>c, <2>1 DEF Behind
<1>1. CASE offset + Limit < total
  <2>1. phase' = "count" /\ offset' = offset + Limit
    BY <1>1
  <2>2. TypeOK'
    <3>1. offset' \in Nat /\ offset' < Cardinality(Stamps)
      BY <1>1, <1>c, <2>1
    <3> QED
      BY <1>t, <1>c, <1>s, <2>1, <3>1 DEF TypeOK
  <2>3. Behind' \in SUBSET Behind
    BY <1>u, <2>1 DEF Behind
  <2>4. Behind \in SUBSET Stamps
    BY <1>c DEF Behind
  <2>5. /\ Cardinality(Behind') <= Cardinality(Behind)
        /\ Cardinality(Behind') \in Nat /\ Cardinality(Behind) \in Nat
    BY <2>3, <2>4, Smaller, Finite
  <2>6. Cardinality(Behind') <= moves'
    BY <2>5, <1>b, <1>c
  <2> QED
    BY <2>1, <2>2, <2>6 DEF WInv, WalkComplete
<1>2. CASE ~(offset + Limit < total)
  <2>1. phase' = "done" /\ offset' = offset
    BY <1>2
  <2>2. TypeOK'
    BY <1>t, <1>c, <1>s, <2>1 DEF TypeOK
  <2>3. PICK n \in Nat : n = offset + Limit
    BY <1>c
  <2>4. PICK C : C = {r \in rows : Position(rows, r) >= n}
    OBVIOUS
  <2>5. Cardinality(C) <= late
    <3>1. Cardinality(rows) <= n + late
      BY <1>2, <1>b, <1>c, <2>3
    <3> QED
      BY <3>1, <2>4, <1>c, RowsFrom
  <2>6. owed \ seen' \subseteq Behind \cup C
    <3>1. \A r \in rows : Position(rows, r) < n \/ Position(rows, r) >= n
      BY <1>c
    <3> QED
      BY <3>1, <1>u, <1>c, <2>3, <2>4
  <2>7. Behind \in SUBSET Stamps /\ C \in SUBSET Stamps /\ owed \ seen' \in SUBSET Stamps
    BY <1>c, <2>4 DEF Behind
  <2>8. Cardinality(owed \ seen') <= Cardinality(Behind) + Cardinality(C)
    BY <2>6, <2>7, OneMore
  <2>9. /\ Cardinality(Behind) \in Nat /\ Cardinality(C) \in Nat
        /\ Cardinality(owed \ seen') \in Nat
    BY <2>7, Finite
  <2>10. Cardinality(owed' \ seen') <= moves' + late'
    BY <2>5, <2>8, <2>9, <1>b, <1>c
  <2> QED
    BY <2>1, <2>2, <2>10 DEF WInv, WalkComplete, Walking
<1> QED
  BY <1>1, <1>2

LEMMA WStep == WInv /\ [Next]_vars => WInv'
<1> SUFFICES ASSUME WInv, [Next]_vars PROVE WInv'
  OBVIOUS
<1>1. ASSUME NEW s \in Stamps, Enter(s) PROVE WInv'
  BY <1>1, EnterInv
<1>2. ASSUME NEW s \in Stamps, Leave(s) PROVE WInv'
  BY <1>2, LeaveInv
<1>3. ASSUME NEW s \in Stamps, NEW t \in Stamps, Renew(s, t) PROVE WInv'
  BY <1>3, RenewInv
<1>4. ASSUME NEW o \in 0 .. MaxOffset, Open(o) PROVE WInv'
  BY <1>4, OpenInv
<1>5. CASE UNCHANGED vars
  BY <1>5 DEF vars, WInv, TypeOK, Walking, Behind, WalkComplete
<1> QED
  BY <1>1, <1>2, <1>3, <1>4, <1>5, CountInv, PageInv DEF Next

LEMMA AlwaysWInv == Spec => []WInv
BY InitWInv, WStep, PTL DEF Spec

\* Every reachable state is well typed: a link of the panel never leads behind
\* the end the listing can have (paginate.py, has_next).
THEOREM TypeCorrect == Spec => []TypeOK
<1>1. WInv => TypeOK
  BY DEF WInv
<1> QED
  BY <1>1, AlwaysWInv, PTL

\* A walk misses one row at most for each that moves or comes late (paginate.py),
\* for any listing and page length.
THEOREM WalksComplete == Spec => []WalkComplete
<1>1. WInv => WalkComplete
  BY DEF WInv
<1> QED
  BY <1>1, AlwaysWInv, PTL
=============================================================================
