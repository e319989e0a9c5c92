-------------------------- MODULE CommentaryProofs --------------------------
(***************************************************************************)
(* What runs that maintain the bot's comment side by side cannot do to it  *)
(* and to the comments of others, for any number of runs and comments and   *)
(* any page size.                                                          *)
(***************************************************************************)
EXTENDS Commentary, FiniteSetTheorems, WellFoundedInduction, TLAPS

USE CommentaryAssumption DEF CommentaryAssumption

LEMMA MinIsLeast ==
    ASSUME NEW S \in SUBSET Nat, S # {}
    PROVE  Min(S) \in S /\ \A n \in S : Min(S) <= n
<1>1. PICK m \in S : \A n \in S : ~(<<n, m>> \in OpToRel(<, Nat))
  BY NatLessThanWellFounded, WFMin
<1>2. ASSUME NEW n \in S
      PROVE  m <= n
  <2>1. n \in Nat /\ m \in Nat
    OBVIOUS
  <2>2. <<n, m>> \in Nat \X Nat
    BY <2>1
  <2>3. <<n, m>>[1] = n /\ <<n, m>>[2] = m
    OBVIOUS
  <2>4. ~(n < m)
    BY <1>1, <2>2, <2>3, Zenon DEF OpToRel
  <2> QED
    BY <2>1, <2>4
<1> QED
  BY <1>1, <1>2 DEF Min

-----------------------------------------------------------------------------
(* Types.                                                                  *)

(* The bot updates marked comments only, which is part of TypeOK, because  *)
(* what it listed is marked.                                               *)
TypeInv == TypeOK /\ UniqueIds /\ FoundIsMarked

LEMMA TypeInit == Init => TypeInv
<1> SUFFICES ASSUME Init
             PROVE  TypeInv
  OBVIOUS
<1>1. newest \in 0..MaxComments
  BY DEF Init
<1>2. found \in [Runs -> SUBSET (1..newest)]
  BY DEF Init
<1>3. pc \in [Runs -> {"start", "upsert", "done", "failed"}]
  BY DEF Init
<1> QED
  BY <1>1, <1>2, <1>3 DEF Init, TypeInv, TypeOK, UniqueIds, FoundIsMarked

LEMMA TypeNext == TypeInv /\ [Next]_vars => TypeOK'
<1> SUFFICES ASSUME TypeInv, [Next]_vars
             PROVE  TypeOK'
  OBVIOUS
<1> USE DEF TypeOK, TypeInv
<1>1. ASSUME NEW kind \in Kinds \ {"marked"}, Comment(kind)
      PROVE  TypeOK'
  BY <1>1 DEF Comment, upserting, Kinds, Busy
<1>2. ASSUME NEW c \in comments, Remove(c)
      PROVE  TypeOK'
  BY <1>2 DEF Remove, upserting, Busy
<1>3. ASSUME NEW r \in Runs, List(r)
      PROVE  TypeOK'
  <2>1. Ids(Marked(Page)) \subseteq 1..newest
    BY DEF Ids, Marked, Page
  <2> QED
    BY <1>3, <2>1 DEF List, Busy
<1>4. ASSUME NEW r \in Runs, ListRaises(r)
      PROVE  TypeOK'
  BY <1>4 DEF ListRaises, Busy
<1>5. ASSUME NEW r \in Runs, Create(r)
      PROVE  TypeOK'
  <2>1. newest' \in 0..MaxComments /\ newest' = newest + 1
    BY <1>5 DEF Create
  <2>2. comments' \subseteq [id : 1..newest', kind : Kinds, by : Runs \cup {NoRun}]
    BY <1>5, <2>1 DEF Create, Kinds
  <2> QED
    BY <1>5, <2>1, <2>2 DEF Create, Over, Busy
<1>6. ASSUME NEW r \in Runs, Delete(r)
      PROVE  TypeOK'
  BY <1>6 DEF Delete, Busy
<1>7. ASSUME NEW r \in Runs, Update(r)
      PROVE  TypeOK'
  <2>1. comments' \subseteq [id : 1..newest, kind : Kinds, by : Runs \cup {NoRun}]
    BY <1>7 DEF Update
  <2>3. Primary(r) \in found[r]
    BY <1>7, MinIsLeast DEF Update, Primary
  <2>2. \A c \in comments' : c.by # NoRun => c.kind = "marked"
    BY <1>7, <2>3 DEF Update, FoundIsMarked
  <2> QED
    BY <1>7, <2>1, <2>2 DEF Update, Over, Busy
<1>8. ASSUME NEW r \in Runs, Raise(r)
      PROVE  TypeOK'
  BY <1>8 DEF Raise, Busy
<1>9. CASE UNCHANGED vars
  BY <1>9 DEF vars, Busy
<1> QED
  BY <1>1, <1>2, <1>3, <1>4, <1>5, <1>6, <1>7, <1>8, <1>9 DEF Next, Upsert

LEMMA IdsNext == TypeInv /\ [Next]_vars => UniqueIds' /\ FoundIsMarked'
<1> SUFFICES ASSUME TypeInv, [Next]_vars
             PROVE  UniqueIds' /\ FoundIsMarked'
  OBVIOUS
<1> USE DEF TypeOK, TypeInv, UniqueIds, FoundIsMarked
<1>1. ASSUME NEW kind \in Kinds \ {"marked"}, Comment(kind)
      PROVE  UniqueIds' /\ FoundIsMarked'
  BY <1>1 DEF Comment, upserting
<1>2. ASSUME NEW c \in comments, Remove(c)
      PROVE  UniqueIds' /\ FoundIsMarked'
  BY <1>2 DEF Remove, upserting
<1>3. ASSUME NEW r \in Runs, List(r)
      PROVE  UniqueIds' /\ FoundIsMarked'
  <2>1. \A c \in comments : c.id \in Ids(Marked(Page)) => c.kind = "marked"
    BY DEF Ids, Marked, Page
  <2> QED
    BY <1>3, <2>1 DEF List
<1>4. ASSUME NEW r \in Runs, ListRaises(r)
      PROVE  UniqueIds' /\ FoundIsMarked'
  BY <1>4 DEF ListRaises
<1>5. ASSUME NEW r \in Runs, Create(r)
      PROVE  UniqueIds' /\ FoundIsMarked'
  BY <1>5 DEF Create, Over
<1>6. ASSUME NEW r \in Runs, Delete(r)
      PROVE  UniqueIds' /\ FoundIsMarked'
  BY <1>6 DEF Delete
<1>7. ASSUME NEW r \in Runs, Update(r)
      PROVE  UniqueIds' /\ FoundIsMarked'
  <2>1. \A c \in comments' : \E d \in comments : c.id = d.id /\ c.kind = d.kind
    BY <1>7 DEF Update
  <2>2. UniqueIds'
    BY <1>7 DEF Update
  <2> QED
    BY <1>7, <2>1, <2>2 DEF Update, Over
<1>8. ASSUME NEW r \in Runs, Raise(r)
      PROVE  UniqueIds' /\ FoundIsMarked'
  BY <1>8 DEF Raise
<1>9. CASE UNCHANGED vars
  BY <1>9 DEF vars
<1> QED
  BY <1>1, <1>2, <1>3, <1>4, <1>5, <1>6, <1>7, <1>8, <1>9 DEF Next, Upsert

LEMMA TypeInvNext == TypeInv /\ [Next]_vars => TypeInv'
BY TypeNext, IdsNext DEF TypeInv

(* Types hold; in particular every comment a run has written is marked.    *)
THEOREM TypeCorrect == Spec => []TypeOK
<1>1. TypeInv => TypeOK
  BY DEF TypeInv
<1> QED
  BY <1>1, TypeInit, TypeInvNext, PTL DEF Spec

(* No step of a run rewrites or deletes a comment that does not lead with  *)
(* the marker, however its listing and its writing interleave with others. *)
THEOREM LeavesOthersAlone == Spec => OthersUntouched
<1>1. ASSUME TypeInv, [Next]_vars, pc' # pc \/ found' # found,
             NEW c \in comments, c.kind # "marked"
      PROVE  c \in comments'
  <2> USE DEF TypeInv, TypeOK
  <2>1. ASSUME NEW r \in Runs, Upsert(r)
        PROVE  c \in comments'
    <3>1. CASE List(r) \/ ListRaises(r) \/ Raise(r)
      BY <3>1 DEF List, ListRaises, Raise
    <3>2. CASE Create(r)
      BY <3>2 DEF Create
    <3>3. CASE Delete(r)
      <4>1. Duplicates(r) \subseteq found[r] /\ found[r] \subseteq Nat
        BY <1>1 DEF Duplicates
      <4>2. Min(Duplicates(r)) \in found[r]
        BY <3>3, <4>1, MinIsLeast DEF Delete
      <4>3. c.id # Min(Duplicates(r))
        BY <1>1, <4>2 DEF FoundIsMarked
      <4> QED
        BY <3>3, <4>3 DEF Delete
    <3>4. CASE Update(r)
      <4>1. Primary(r) \in found[r]
        BY <1>1, <3>4, MinIsLeast DEF Update, Primary
      <4>2. c.id # Primary(r)
        BY <1>1, <4>1 DEF FoundIsMarked
      <4> QED
        BY <3>4, <4>2 DEF Update
    <3> QED
      BY <2>1, <3>1, <3>2, <3>3, <3>4 DEF Upsert
  <2>2. \A kind \in Kinds \ {"marked"} : ~Comment(kind)
    BY <1>1 DEF Comment, upserting
  <2>3. \A d \in comments : ~Remove(d)
    BY <1>1 DEF Remove, upserting
  <2> QED
    BY <1>1, <2>1, <2>2, <2>3 DEF Next, vars
<1>2. TypeInv /\ [Next]_vars =>
        (pc' # pc \/ found' # found =>
            \A c \in comments : c.kind # "marked" => c \in comments')
  BY <1>1
<1> QED
  BY <1>2, TypeInit, TypeInvNext, PTL DEF Spec, OthersUntouched

-----------------------------------------------------------------------------
(* The oldest marked comment.                                              *)

LEMMA OldestExists ==
    ASSUME TypeOK, NEW C \in SUBSET comments, C # {}
    PROVE  \E c \in C : \A d \in C : c.id <= d.id
<1>1. Ids(C) \in SUBSET Nat /\ Ids(C) # {}
  BY DEF TypeOK, Ids
<1>2. Min(Ids(C)) \in Ids(C) /\ \A n \in Ids(C) : Min(Ids(C)) <= n
  BY <1>1, MinIsLeast
<1> QED
  BY <1>2 DEF Ids

(* A page that shows any marked comment shows the oldest.                  *)
LEMMA PageShowsOldest ==
    ASSUME TypeOK, IsFiniteSet(comments),
           NEW c \in Marked(Page),
           NEW o \in Marked(comments), \A d \in Marked(comments) : o.id <= d.id
    PROVE  o \in Marked(Page)
<1> DEFINE Older(x) == {d \in comments : d.id < x.id}
<1>1. c \in Marked(comments) /\ c \in comments /\ o \in comments
  BY DEF Marked, Page
<1>2. o.id <= c.id /\ o.id \in Nat /\ c.id \in Nat
  BY <1>1 DEF TypeOK
<1>3. Older(o) \subseteq Older(c)
  BY <1>2 DEF TypeOK
<1>4. IsFiniteSet(Older(c))
  BY FS_Subset
<1>5. /\ Cardinality(Older(o)) <= Cardinality(Older(c))
      /\ Cardinality(Older(o)) \in Nat /\ Cardinality(Older(c)) \in Nat
  BY <1>3, <1>4, FS_Subset, FS_CardinalityType
<1>6. Cardinality(Older(c)) < PageSize
  BY DEF Marked, Page
<1>7. Cardinality(Older(o)) < PageSize
  BY <1>5, <1>6
<1> QED
  BY <1>1, <1>7 DEF Marked, Page

OldestInv == TypeInv /\ IsFiniteSet(comments) /\ FoundHasOldest

LEMMA OldestInit == Init => OldestInv
BY TypeInit, FS_EmptySet DEF Init, OldestInv, FoundHasOldest

LEMMA FiniteNext ==
    IsFiniteSet(comments) /\ [Next]_vars => IsFiniteSet(comments')
<1> SUFFICES ASSUME IsFiniteSet(comments), [Next]_vars
             PROVE  IsFiniteSet(comments')
  OBVIOUS
<1>1. ASSUME NEW kind \in Kinds \ {"marked"}, Comment(kind)
      PROVE  IsFiniteSet(comments')
  BY <1>1, FS_Singleton, FS_Union DEF Comment
<1>2. ASSUME NEW c \in comments, Remove(c)
      PROVE  IsFiniteSet(comments')
  <2>1. comments' \subseteq comments
    BY <1>2 DEF Remove
  <2> QED
    BY <2>1, FS_Subset
<1>3. ASSUME NEW r \in Runs, List(r) \/ ListRaises(r) \/ Raise(r)
      PROVE  IsFiniteSet(comments')
  BY <1>3 DEF List, ListRaises, Raise
<1>4. ASSUME NEW r \in Runs, Create(r)
      PROVE  IsFiniteSet(comments')
  BY <1>4, FS_Singleton, FS_Union DEF Create
<1>5. ASSUME NEW r \in Runs, Delete(r)
      PROVE  IsFiniteSet(comments')
  <2>1. comments' \subseteq comments
    BY <1>5 DEF Delete
  <2> QED
    BY <2>1, FS_Subset
<1>6. ASSUME NEW r \in Runs, Update(r)
      PROVE  IsFiniteSet(comments')
  <2> DEFINE f == [c \in comments |->
                     IF c.id = Primary(r) THEN [c EXCEPT !.by = r] ELSE c]
  <2>1. comments' = {f[c] : c \in comments}
    BY <1>6 DEF Update
  <2>2. f \in [comments -> comments'] /\ \A y \in comments' : \E x \in comments : f[x] = y
    BY <2>1
  <2>3. f \in Surjection(comments, comments')
    BY <2>2 DEF Surjection
  <2> HIDE DEF f
  <2> QED
    BY <2>3, FS_Surjection
<1>7. CASE UNCHANGED vars
  BY <1>7 DEF vars
<1> QED
  BY <1>1, <1>2, <1>3, <1>4, <1>5, <1>6, <1>7 DEF Next, Upsert

LEMMA OldestNext == OldestInv /\ [Next]_vars => FoundHasOldest'
<1> SUFFICES ASSUME OldestInv, [Next]_vars, ~byHand',
                    NEW q \in Runs, found'[q] # {}
             PROVE  \E c \in Marked(comments') :
                        /\ c.id \in found'[q]
                        /\ \A i \in found'[q] : c.id <= i
                        /\ \A d \in Marked(comments') : c.id <= d.id
  BY DEF FoundHasOldest, Marked
<1> DEFINE Holds == \E c \in Marked(comments') :
                        /\ c.id \in found'[q]
                        /\ \A i \in found'[q] : c.id <= i
                        /\ \A d \in Marked(comments') : c.id <= d.id
<1>0. ASSUME ~byHand, found[q] # {}
      PROVE  \E c \in Marked(comments) :
                 /\ c.id \in found[q]
                 /\ \A i \in found[q] : c.id <= i
                 /\ \A d \in Marked(comments) : c.id <= d.id
  BY <1>0 DEF OldestInv, FoundHasOldest
<1> USE DEF OldestInv, TypeInv, TypeOK
<1>1. ASSUME Marked(comments') = Marked(comments), byHand' = byHand,
             found'[q] = found[q]
      PROVE  Holds
  BY <1>0, <1>1
<1>2. ASSUME NEW kind \in Kinds \ {"marked"}, Comment(kind)
      PROVE  Holds
  BY <1>1, <1>2 DEF Comment, upserting, Marked
<1>3. ASSUME NEW c \in comments, Remove(c)
      PROVE  Holds
  BY <1>1, <1>3 DEF Remove, upserting, Marked
<1>4. ASSUME NEW r \in Runs, List(r)
      PROVE  Holds
  <2>1. CASE r # q
    BY <1>1, <1>4, <2>1 DEF List
  <2>2. CASE r = q
    <3>1. found'[q] = Ids(Marked(Page)) /\ comments' = comments
      BY <1>4, <2>2 DEF List
    <3>2. PICK c \in Marked(Page) : TRUE
      BY <3>1 DEF Ids
    <3>3. PICK o \in Marked(comments) : \A d \in Marked(comments) : o.id <= d.id
      <4>1. Marked(comments) \in SUBSET comments /\ Marked(comments) # {}
        BY <3>2 DEF Marked, Page
      <4> HIDE DEF TypeOK
      <4> QED
        BY <4>1, OldestExists
    <3>4. o \in Marked(Page)
      <4> HIDE DEF TypeOK
      <4> QED
        BY <3>2, <3>3, PageShowsOldest
    <3>5. \A d \in Marked(Page) : d \in Marked(comments)
      BY DEF Marked, Page
    <3> QED
      BY <3>1, <3>3, <3>4, <3>5 DEF Ids
  <2> QED
    BY <2>1, <2>2
<1>5. ASSUME NEW r \in Runs, ListRaises(r)
      PROVE  Holds
  BY <1>1, <1>5 DEF ListRaises
<1>6. ASSUME NEW r \in Runs, Create(r)
      PROVE  Holds
  <2>1. found'[q] = found[q] /\ byHand' = byHand /\ r # q
    BY <1>6 DEF Create, Over
  <2>2. PICK c \in Marked(comments) :
                 /\ c.id \in found[q]
                 /\ \A i \in found[q] : c.id <= i
                 /\ \A d \in Marked(comments) : c.id <= d.id
    BY <1>0, <2>1
  <2>3. PICK n : /\ comments' = comments \cup {n}
                 /\ n = [id |-> newest + 1, kind |-> "marked", by |-> r]
    BY <1>6 DEF Create
  <2>4. c \in Marked(comments') /\ c \in comments
    BY <2>2, <2>3 DEF Marked
  <2>5. c.id <= newest /\ c.id \in Nat /\ newest \in Nat
    BY <2>4
  <2>6. \A d \in Marked(comments') : c.id <= d.id
    BY <2>2, <2>3, <2>5 DEF Marked
  <2> QED
    BY <2>1, <2>2, <2>4, <2>6
<1>7. ASSUME NEW r \in Runs, Delete(r)
      PROVE  Holds
  <2>1. found'[q] \subseteq found[q] /\ byHand' = byHand /\ found[q] # {}
    BY <1>7 DEF Delete
  <2>2. PICK c \in Marked(comments) :
                 /\ c.id \in found[q]
                 /\ \A i \in found[q] : c.id <= i
                 /\ \A d \in Marked(comments) : c.id <= d.id
    BY <1>0, <2>1
  <2>3. /\ Duplicates(r) \in SUBSET Nat /\ Duplicates(r) # {}
        /\ found[r] \in SUBSET Nat /\ found[r] # {}
    BY <1>7 DEF Delete, Duplicates
  <2>4. /\ Min(Duplicates(r)) \in found[r] /\ Min(Duplicates(r)) # Primary(r)
        /\ Primary(r) \in found[r] /\ \A i \in found[r] : Primary(r) <= i
    BY <2>3, MinIsLeast DEF Duplicates, Primary
  <2>5. PICK o \in Marked(comments) :
                 /\ o.id \in found[r]
                 /\ \A i \in found[r] : o.id <= i
                 /\ \A d \in Marked(comments) : o.id <= d.id
    BY <2>1, <2>3 DEF FoundHasOldest
  <2>6. c.id = o.id /\ o.id = Primary(r)
    <3>1. c \in comments /\ o \in comments
      BY DEF Marked
    <3>2. c.id \in Nat /\ o.id \in Nat /\ Primary(r) \in Nat
      BY <3>1, <2>3, <2>4
    <3>3. c.id <= o.id /\ o.id <= c.id /\ Primary(r) <= o.id /\ o.id <= Primary(r)
      BY <2>2, <2>4, <2>5
    <3> QED
      BY <3>2, <3>3
  <2>7. c \in Marked(comments') /\ c.id \in found'[q]
    BY <1>7, <2>2, <2>4, <2>6 DEF Delete, Marked
  <2>8. \A d \in Marked(comments') : d \in Marked(comments)
    BY <1>7 DEF Delete, Marked
  <2> QED
    BY <2>1, <2>2, <2>7, <2>8
<1>8. ASSUME NEW r \in Runs, Update(r)
      PROVE  Holds
  <2>1. found'[q] = found[q] /\ byHand' = byHand
    BY <1>8 DEF Update, Over
  <2>2. PICK c \in Marked(comments) :
                 /\ c.id \in found[q]
                 /\ \A i \in found[q] : c.id <= i
                 /\ \A d \in Marked(comments) : c.id <= d.id
    BY <1>0, <2>1
  <2>3. \A d \in Marked(comments') : \E e \in Marked(comments) : d.id = e.id
    BY <1>8 DEF Update, Marked
  <2>4. \E d \in Marked(comments') : d.id = c.id
    <3>1. c \in comments /\ c.kind = "marked"
      BY DEF Marked
    <3>2. CASE c.id = Primary(r)
      <4>1. [c EXCEPT !.by = r] \in comments'
        BY <1>8, <3>1, <3>2 DEF Update
      <4>2. [c EXCEPT !.by = r].id = c.id /\ [c EXCEPT !.by = r].kind = "marked"
        BY <3>1
      <4> QED
        BY <4>1, <4>2 DEF Marked
    <3>3. CASE c.id # Primary(r)
      BY <1>8, <3>1, <3>3 DEF Update, Marked
    <3> QED
      BY <3>2, <3>3
  <2> QED
    BY <2>1, <2>2, <2>3, <2>4
<1>9. ASSUME NEW r \in Runs, Raise(r)
      PROVE  Holds
  BY <1>1, <1>9 DEF Raise
<1>10. CASE UNCHANGED vars
  BY <1>1, <1>10 DEF vars
<1> QED
  BY <1>2, <1>3, <1>4, <1>5, <1>6, <1>7, <1>8, <1>9, <1>10 DEF Next, Upsert

LEMMA OldestInvNext == OldestInv /\ [Next]_vars => OldestInv'
BY TypeInvNext, FiniteNext, OldestNext DEF OldestInv

(* However many runs list and delete side by side, and whichever of their  *)
(* calls fail, the oldest marked comment stays, unless a person deletes    *)
(* one.                                                                    *)
THEOREM KeepsOldest == Spec => OldestSurvives
<1>1. ASSUME OldestInv, [Next]_vars, ~byHand', Marked(comments) # {}
      PROVE  Min(Ids(Marked(comments))) \in Ids(comments')
  <2> USE DEF OldestInv, TypeInv, TypeOK
  <2>1. Ids(Marked(comments)) \in SUBSET Nat /\ Ids(Marked(comments)) # {}
    BY <1>1 DEF Ids, Marked
  <2>2. PICK o \in Marked(comments) : /\ o.id = Min(Ids(Marked(comments)))
                                     /\ \A d \in Marked(comments) : o.id <= d.id
    <3>1. /\ Min(Ids(Marked(comments))) \in Ids(Marked(comments))
          /\ \A n \in Ids(Marked(comments)) : Min(Ids(Marked(comments))) <= n
      BY <2>1, MinIsLeast
    <3> QED
      BY <3>1 DEF Ids
  <2>3. o \in comments /\ o.id \in Nat
    BY <1>1 DEF Marked
  <2>4. SUFFICES \E d \in comments' : d.id = o.id
    BY <2>2 DEF Ids
  <2>5. CASE o \in comments'
    BY <2>5
  <2>6. ASSUME NEW c \in comments, Remove(c)
        PROVE  o \in comments'
    BY <1>1, <2>3, <2>6 DEF Remove, Marked
  <2>7. ASSUME NEW r \in Runs, Delete(r)
        PROVE  o \in comments'
    <3>1. /\ Duplicates(r) \in SUBSET Nat /\ Duplicates(r) # {}
          /\ found[r] \in SUBSET Nat /\ found[r] # {} /\ ~byHand
      BY <1>1, <2>7 DEF Delete, Duplicates
    <3>2. /\ Min(Duplicates(r)) \in found[r] /\ Min(Duplicates(r)) # Primary(r)
          /\ Primary(r) \in found[r] /\ \A i \in found[r] : Primary(r) <= i
      BY <3>1, MinIsLeast DEF Duplicates, Primary
    <3>3. PICK c \in Marked(comments) :
                 /\ c.id \in found[r]
                 /\ \A i \in found[r] : c.id <= i
                 /\ \A d \in Marked(comments) : c.id <= d.id
      BY <1>1, <3>1 DEF FoundHasOldest
    <3>4. c.id \in Nat /\ Primary(r) \in Nat
      BY <3>1, <3>2, <3>3
    <3>5. c.id = o.id /\ c.id = Primary(r)
      <4>1. c.id <= o.id /\ o.id <= c.id /\ Primary(r) <= c.id /\ c.id <= Primary(r)
        BY <2>2, <3>2, <3>3
      <4> QED
        BY <2>3, <3>4, <4>1
    <3> QED
      BY <2>3, <2>7, <3>2, <3>5 DEF Delete
  <2>8. ASSUME NEW r \in Runs, Update(r)
        PROVE  \E d \in comments' : d.id = o.id
    <3>1. CASE o.id = Primary(r)
      <4>1. [o EXCEPT !.by = r] \in comments'
        BY <2>3, <2>8, <3>1 DEF Update
      <4>2. [o EXCEPT !.by = r].id = o.id
        BY <1>1, <2>3
      <4> QED
        BY <4>1, <4>2
    <3>2. CASE o.id # Primary(r)
      BY <2>3, <2>8, <3>2 DEF Update
    <3> QED
      BY <3>1, <3>2
  <2>9. ASSUME NEW kind \in Kinds, Comment(kind)
        PROVE  o \in comments'
    BY <2>3, <2>9 DEF Comment
  <2>10. ASSUME NEW r \in Runs,
                List(r) \/ ListRaises(r) \/ Create(r) \/ Raise(r)
         PROVE  o \in comments'
    BY <2>3, <2>10 DEF List, ListRaises, Create, Raise
  <2>11. CASE UNCHANGED vars
    BY <2>3, <2>11 DEF vars
  <2> QED
    BY <1>1, <2>5, <2>6, <2>7, <2>8, <2>9, <2>10, <2>11 DEF Next, Upsert
<1>2. OldestInv /\ [Next]_vars =>
        (~byHand' /\ Marked(comments) # {}
            => Min(Ids(Marked(comments))) \in Ids(comments'))
  BY <1>1
<1> QED
  BY <1>2, OldestInit, OldestInvNext, PTL DEF Spec, OldestSurvives

-----------------------------------------------------------------------------
(* Convergence.                                                            *)

ConvergeInv == TypeInv /\ LastSawAll

(* A step that leaves runs and the marked comments alone.                  *)
LEMMA StillSawAll ==
    ASSUME ConvergeInv, UNCHANGED <<pc, found, last, view>>, byHand' = byHand,
           Marked(comments') = Marked(comments)
    PROVE  LastSawAll'
BY DEF ConvergeInv, LastSawAll, Marked, Busy

(* A step of a run that is not the last one, when the last one saw all.    *)
LEMMA OnlyLastIsBusy ==
    ASSUME ConvergeInv, last # NoRun, view = "all", ~byHand,
           NEW r \in Runs, Busy(r)
    PROVE  r = last /\ found[r] = Ids(Marked(comments))
BY DEF ConvergeInv, LastSawAll

LEMMA ConvergeNext == ConvergeInv /\ [Next]_vars => LastSawAll'
<1> SUFFICES ASSUME ConvergeInv, [Next]_vars
             PROVE  LastSawAll'
  OBVIOUS
<1>0. TypeInv /\ TypeInv'
  BY TypeInvNext DEF ConvergeInv
<1> USE DEF TypeInv, TypeOK
<1>1. ASSUME NEW kind \in Kinds \ {"marked"}, Comment(kind)
      PROVE  LastSawAll'
  <2>1. Marked(comments') = Marked(comments)
    BY <1>1 DEF Comment, Marked
  <2> QED
    BY <1>1, <2>1, StillSawAll DEF Comment, upserting
<1>2. ASSUME NEW c \in comments, Remove(c)
      PROVE  LastSawAll'
  <2>1. CASE c.kind = "marked"
    BY <1>2, <2>1 DEF Remove, LastSawAll
  <2>2. CASE c.kind # "marked"
    <3>1. Marked(comments') = Marked(comments) /\ byHand' = byHand
      BY <1>0, <1>2, <2>2 DEF Remove, Marked
    <3> QED
      BY <1>2, <3>1, StillSawAll DEF Remove, upserting
  <2> QED
    BY <2>1, <2>2
<1>3. ASSUME NEW r \in Runs, List(r)
      PROVE  LastSawAll'
  <2>1. /\ comments' = comments /\ last' = r
        /\ pc'[r] = "upsert" /\ found'[r] = Ids(Marked(Page))
        /\ \A q \in Runs : q # r => pc'[q] = pc[q]
    BY <1>0, <1>3 DEF List
  <2>2. view' = "all" => Page = comments /\ \A q \in Runs : ~Busy(q)
    BY <1>3 DEF List
  <2> QED
    BY <2>1, <2>2 DEF LastSawAll, Busy, Marked
<1>4. ASSUME NEW r \in Runs, ListRaises(r)
      PROVE  LastSawAll'
  <2>1. /\ UNCHANGED <<comments, found, last, view, byHand>>
        /\ pc[r] = "start" /\ pc'[r] = "failed"
        /\ \A q \in Runs : q # r => pc'[q] = pc[q]
    BY <1>0, <1>4 DEF ListRaises
  <2> QED
    BY <1>0, <2>1 DEF ConvergeInv, LastSawAll, Busy, Marked
<1>5. ASSUME NEW r \in Runs, Busy(r), UNCHANGED <<last, view, byHand>>,
             pc'[r] \in {"done", "failed"},
             \A q \in Runs : q # r => pc'[q] = pc[q],
             last = r /\ view = "all" /\ ~byHand /\ pc'[r] = "done" =>
                 \E c \in comments' : c.by = r /\ Marked(comments') = {c}
      PROVE  LastSawAll'
  <2> SUFFICES ASSUME last # NoRun, view = "all", ~byHand
               PROVE  LastSawAll'
    BY <1>5 DEF LastSawAll
  <2>1. r = last /\ \A q \in Runs : Busy(q) => q = last
    BY <1>5, OnlyLastIsBusy DEF ConvergeInv, LastSawAll
  <2> QED
    BY <1>5, <2>1 DEF LastSawAll, Busy, Marked
<1>6. ASSUME NEW r \in Runs, Create(r)
      PROVE  LastSawAll'
  <2>1. /\ Busy(r) /\ found[r] = {} /\ UNCHANGED <<last, view, byHand>>
        /\ pc'[r] \in {"done", "failed"}
        /\ \A q \in Runs : q # r => pc'[q] = pc[q]
    BY <1>0, <1>6 DEF Create, Over
  <2>2. PICK n : /\ comments' = comments \cup {n}
                 /\ n = [id |-> newest + 1, kind |-> "marked", by |-> r]
    BY <1>6 DEF Create
  <2>3. ASSUME last = r, view = "all", ~byHand
        PROVE  n.by = r /\ Marked(comments') = {n}
    <3>1. Ids(Marked(comments)) = {}
      BY <1>0, <2>1, <2>3, OnlyLastIsBusy
    <3>2. Marked(comments) = {}
      BY <3>1 DEF Ids
    <3> QED
      BY <2>2, <3>2 DEF Marked
  <2> QED
    BY <1>5, <2>1, <2>2, <2>3
<1>7. ASSUME NEW r \in Runs, Delete(r)
      PROVE  LastSawAll'
  <2> DEFINE d == Min(Duplicates(r))
  <2>1. /\ Busy(r) /\ UNCHANGED <<last, view, byHand>>
        /\ comments' = {c \in comments : c.id # d}
        /\ \A q \in Runs : q # r => pc'[q] = pc[q]
        /\ \/ found'[r] = found[r] \ {d} /\ pc'[r] = pc[r]
           \/ pc'[r] = "failed"
    BY <1>0, <1>7 DEF Delete
  <2> HIDE DEF d
  <2>2. CASE pc'[r] = "failed"
    BY <1>5, <2>1, <2>2
  <2>3. CASE found'[r] = found[r] \ {d} /\ pc'[r] = pc[r]
    <3> SUFFICES ASSUME last # NoRun, view = "all", ~byHand
                 PROVE  LastSawAll'
      BY <2>1 DEF LastSawAll
    <3>1. r = last /\ found[r] = Ids(Marked(comments))
      BY <2>1, OnlyLastIsBusy
    <3>2. found'[r] = Ids(Marked(comments'))
      BY <2>1, <2>3, <3>1 DEF Ids, Marked
    <3>3. \A q \in Runs : pc'[q] = "upsert" => q = last
      BY <2>1, <3>1, OnlyLastIsBusy DEF Busy
    <3> QED
      BY <2>1, <2>3, <3>1, <3>2, <3>3 DEF LastSawAll, Busy, Marked
  <2> QED
    BY <2>1, <2>2, <2>3
<1>8. ASSUME NEW r \in Runs, Update(r)
      PROVE  LastSawAll'
  <2>1. /\ Busy(r) /\ found[r] # {} /\ UNCHANGED <<last, view, byHand>>
        /\ pc'[r] \in {"done", "failed"}
        /\ \A q \in Runs : q # r => pc'[q] = pc[q]
        /\ comments' = {IF c.id = Primary(r) THEN [c EXCEPT !.by = r] ELSE c :
                          c \in comments}
    BY <1>0, <1>8 DEF Update, Over
  <2>2. ASSUME last = r, view = "all", ~byHand
        PROVE  \E c \in comments' : c.by = r /\ Marked(comments') = {c}
    <3>1. found[r] = {Primary(r)}
      BY <1>0, <1>8, <2>1, MinIsLeast DEF Update, Duplicates, Primary
    <3>2. Ids(Marked(comments)) = {Primary(r)}
      BY <1>0, <2>1, <2>2, <3>1, OnlyLastIsBusy
    <3>3. PICK m \in Marked(comments) : m.id = Primary(r)
      BY <3>2 DEF Ids
    <3>4. Marked(comments) = {m} /\ m \in comments
      BY <1>0, <3>2, <3>3 DEF Ids, Marked, UniqueIds
    <3>5. \A c \in comments : c.id = Primary(r) <=> c = m
      BY <1>0, <3>3, <3>4 DEF UniqueIds
    <3> DEFINE n == [m EXCEPT !.by = r]
    <3>6. n.by = r /\ n.kind = m.kind
      BY <1>0, <3>4
    <3>7. comments' = (comments \ {m}) \cup {n}
      BY <2>1, <3>4, <3>5
    <3>8. n \in comments' /\ Marked(comments') = {n}
      <4> HIDE DEF n
      <4> QED
        BY <3>4, <3>6, <3>7 DEF Marked
    <3> QED
      BY <3>6, <3>8
  <2> QED
    BY <1>5, <2>1, <2>2
<1>9. ASSUME NEW r \in Runs, Raise(r)
      PROVE  LastSawAll'
  BY <1>0, <1>5, <1>9 DEF Raise
<1>10. CASE UNCHANGED vars
  BY <1>10, StillSawAll DEF vars
<1> QED
  BY <1>1, <1>2, <1>3, <1>4, <1>6, <1>7, <1>8, <1>9, <1>10 DEF Next, Upsert

(* A run that was alone and saw all comments leaves one marked comment,    *)
(* its own, whatever earlier runs had left and whatever people add.        *)
THEOREM RunsConverge == Spec => []Converges
<1>1. Init => ConvergeInv
  BY TypeInit DEF Init, ConvergeInv, LastSawAll
<1>2. ConvergeInv /\ [Next]_vars => ConvergeInv'
  BY ConvergeNext, TypeInvNext DEF ConvergeInv
<1>3. ConvergeInv => Converges
  BY DEF ConvergeInv, LastSawAll, Converges
<1> QED
  BY <1>1, <1>2, <1>3, PTL DEF Spec
=============================================================================
